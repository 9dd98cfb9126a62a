----------------------------- MODULE AnswerOnce -----------------------------
(***************************************************************************)
(* What the coordination layer promises a requester about Answers: every   *)
(* Request gets at most one requester-side proof of its Answer, and only   *)
(* an Answer whose author result is canonical is ever proved.  Direct      *)
(* Delivery proves one Answer, a committed tool result may prove several.  *)
(***************************************************************************)
CONSTANT Requests

VARIABLES canonical,  \* the Requests whose Answer is canonical
          proofs      \* proofs[r]: how many proofs of r's Answer the requester holds

aVars == <<canonical, proofs>>

AInit == canonical = {} /\ proofs = [r \in Requests |-> 0]

\* A responder's Answer becomes canonical.
Answer == /\ \E r \in Requests \ canonical : canonical' = canonical \cup {r}
          /\ UNCHANGED proofs

\* The requester's transcript gains the proof of some Answers it lacked.
Prove == /\ \E S \in SUBSET {r \in canonical : proofs[r] = 0} :
              /\ S # {}
              /\ proofs' = [r \in Requests |-> IF r \in S THEN 1 ELSE proofs[r]]
         /\ UNCHANGED canonical

ANext == Answer \/ Prove

ASpec == AInit /\ [][ANext]_aVars

=============================================================================
