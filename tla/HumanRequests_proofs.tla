----------------------- MODULE HumanRequests_proofs -----------------------
(***************************************************************************)
(* The human is asked, and an answer is taken, only for a Run that can     *)
(* still commit it.  OpenQuestionIsAnswerable is inductive with the types: *)
(* a question is opened by AskHuman alone, when no other is pending, and every  *)
(* step that would take the Run away from an open question (Fail,          *)
(* EndBegins) fences the questions of the Run, which by the invariant are  *)
(* all that are open.  Reconcile clears the input of the Run only for a    *)
(* call that it completes.                                                 *)
(***************************************************************************)
EXTENDS HumanRequests, TLAPS

Bounds == MaxRuns \in Nat /\ MaxCalls \in Nat

HostSet == [run : 0 .. MaxRuns, phase : {"ended", "running", "failed", "ending"},
            input : Calls \cup {NoCall}, aborted : BOOLEAN]
AskSet == [run : 0 .. MaxRuns, phase : {"none", "open", "submitted", "fenced"},
           promise : {"none", "resolved", "rejected"}, candidate : BOOLEAN]
KidSet == [phase : {"gone", "idle", "issued", "asking", "returned", "guarded"}, ok : BOOLEAN]

TypeInv ==
  /\ host \in HostSet
  /\ last \in Calls \cup {NoCall}
  /\ pending \subseteq Calls
  /\ ask \in [Calls -> AskSet]
  /\ kid \in KidSet
  /\ kid.phase \in {"issued", "asking", "returned", "guarded"} => last \in Calls

IInv == TypeInv /\ OpenQuestionIsAnswerable

-----------------------------------------------------------------------------
\* What fencing leaves open was open before and is not among the questions it fences, and
\* it moves no question to another Run.
LEMMA FenceFacts ==
  ASSUME TypeInv, NEW cs \in SUBSET Calls, Fence(cs)
  PROVE  /\ ask' \in [Calls -> AskSet]
         /\ \A c \in Calls : ask'[c].run = ask[c].run
         /\ \A c \in pending : ask'[c].phase # "fenced"
                                 => c \notin cs /\ ask'[c] = ask[c]
  <1> DEFINE hit == {c \in cs \cap pending : ask[c].phase # "fenced"}
  <1>1. ask' = [c \in Calls |-> IF c \in hit THEN WithFence(ask[c]) ELSE ask[c]]
    BY DEF Fence
  <1>2. ASSUME NEW a \in AskSet
        PROVE  WithFence(a) \in AskSet /\ WithFence(a).run = a.run /\ WithFence(a).phase = "fenced"
    BY DEF WithFence, AskSet
  <1>3. \A c \in Calls : ask[c] \in AskSet
    BY DEF TypeInv
  <1>4. \A c \in Calls : ask'[c] = IF c \in hit THEN WithFence(ask[c]) ELSE ask[c]
    BY <1>1
  <1> HIDE DEF hit
  <1>5. ask' \in [Calls -> AskSet]
    BY <1>1, <1>2, <1>3
  <1>6. \A c \in Calls : ask'[c].run = ask[c].run
    BY <1>2, <1>3, <1>4
  <1>7. ASSUME NEW c \in pending, ask'[c].phase # "fenced"
        PROVE  c \notin cs /\ ask'[c] = ask[c]
    <2>1. c \in Calls
      BY DEF TypeInv
    <2>2. c \notin hit /\ ask'[c] = ask[c]
      BY <1>2, <1>3, <1>4, <1>7, <2>1
    <2>3. c \notin cs
      BY <1>7, <2>2 DEF hit
    <2> QED BY <2>2, <2>3
  <1> QED BY <1>5, <1>6, <1>7

\* Fencing keeps what it must while the Run is the same.
LEMMA FenceHolds ==
  ASSUME IInv, NEW cs \in SUBSET Calls, Fence(cs), pending' = pending,
         host' \in HostSet, host'.run = host.run, host'.input = host.input,
         host'.phase = host.phase \/ OfRun \subseteq cs
  PROVE  ask' \in [Calls -> AskSet] /\ OpenQuestionIsAnswerable'
  <1>1. /\ ask' \in [Calls -> AskSet]
        /\ \A c \in Calls : ask'[c].run = ask[c].run
        /\ \A c \in pending : ask'[c].phase # "fenced"
                                => c \notin cs /\ ask'[c] = ask[c]
    BY FenceFacts DEF IInv
  <1>2. ASSUME NEW c \in pending, ask'[c].phase \in {"open", "submitted"}
        PROVE  Accepts(c)'
    <2>1. c \notin cs /\ ask'[c] = ask[c] /\ c \in Calls
      BY <1>1, <1>2 DEF IInv, TypeInv
    <2>2. Accepts(c)
      BY <1>2, <2>1 DEF IInv, OpenQuestionIsAnswerable
    <2>3. c \in OfRun
      BY <2>2 DEF Accepts, OfRun
    <2>4. host'.phase = host.phase
      BY <2>1, <2>3
    <2> QED BY <2>1, <2>2, <2>4 DEF Accepts
  <1> QED BY <1>1, <1>2 DEF OpenQuestionIsAnswerable

\* What completing the committed calls leaves pending was pending, and the input of the
\* Run is cleared only for a call that is complete.
LEMMA ReconcileHolds ==
  ASSUME IInv, Reconcile, ask' = ask
  PROVE  /\ host' \in HostSet /\ pending' \subseteq Calls
         /\ OpenQuestionIsAnswerable'
  <1>1. pending' \subseteq pending /\ \A c \in pending' : c \notin Committed
    BY DEF Reconcile
  <1>2. /\ host' \in HostSet
        /\ host'.run = host.run /\ host'.phase = host.phase
        /\ host.input \notin Committed => host'.input = host.input
    BY DEF Reconcile, IInv, TypeInv, HostSet
  <1>3. ASSUME NEW c \in pending', ask'[c].phase \in {"open", "submitted"}
        PROVE  Accepts(c)'
    <2>1. Accepts(c)
      BY <1>1, <1>3 DEF IInv, OpenQuestionIsAnswerable
    <2>2. host'.input = host.input
      BY <1>1, <1>2, <2>1 DEF Accepts
    <2> QED BY <1>2, <2>1, <2>2 DEF Accepts
  <1>4. pending' \subseteq Calls
    BY <1>1 DEF IInv, TypeInv
  <1> QED BY <1>2, <1>3, <1>4 DEF OpenQuestionIsAnswerable

-----------------------------------------------------------------------------
\* The steps that change neither the Run nor a question.
LEMMA QuietHolds ==
  ASSUME IInv, UNCHANGED <<host, last, ask, pending>>,
         kid' \in KidSet,
         kid'.phase \in {"issued", "asking", "returned", "guarded"} => last \in Calls
  PROVE  IInv'
  <1>1. TypeInv'
    BY DEF IInv, TypeInv
  <1>2. OpenQuestionIsAnswerable'
    BY DEF IInv, OpenQuestionIsAnswerable, Accepts
  <1> QED BY <1>1, <1>2 DEF IInv

LEMMA InitHolds == Bounds /\ QuestionInit => IInv
  <1> SUFFICES ASSUME Bounds, QuestionInit PROVE IInv
    OBVIOUS
  <1>1. host \in HostSet /\ last \in Calls \cup {NoCall} /\ pending \subseteq Calls
    BY DEF QuestionInit, HostSet, NoCall, Bounds
  <1>2. ask \in [Calls -> AskSet]
    BY DEF QuestionInit, AskSet, Bounds
  <1>3. kid \in KidSet /\ kid.phase = "gone"
    BY DEF QuestionInit, KidSet
  <1>4. OpenQuestionIsAnswerable
    BY DEF QuestionInit, OpenQuestionIsAnswerable
  <1> QED BY <1>1, <1>2, <1>3, <1>4 DEF IInv, TypeInv

LEMMA StepHolds == Bounds /\ IInv /\ [QuestionNext]_questionVars => IInv'
  <1> SUFFICES ASSUME Bounds, IInv, [QuestionNext]_questionVars PROVE IInv'
    OBVIOUS
  <1> USE DEF NoCall
  <1>t. TypeInv /\ OpenQuestionIsAnswerable
    BY DEF IInv
  <1>h. host \in HostSet /\ ask \in [Calls -> AskSet] /\ pending \subseteq Calls
        /\ kid \in KidSet
    BY <1>t DEF TypeInv
  <1>1. CASE Begin
    <2>1. host' \in HostSet
      BY <1>1, <1>h DEF Begin, HostSet, Bounds
    <2>2. \A c \in pending : ask[c].phase \notin {"open", "submitted"}
      BY <1>1, <1>t DEF Begin, OpenQuestionIsAnswerable, Accepts
    <2>3. TypeInv'
      BY <1>1, <1>t, <2>1 DEF Begin, TypeInv, KidSet
    <2>4. OpenQuestionIsAnswerable'
      BY <1>1, <2>2 DEF Begin, OpenQuestionIsAnswerable
    <2> QED BY <2>3, <2>4 DEF IInv
  <1>2. CASE Fail
    <2>1. host' \in HostSet /\ host'.run = host.run /\ host'.input = host.input
      BY <1>2, <1>h DEF Fail, HostSet
    <2>2. OfRun \in SUBSET Calls
      BY <1>h DEF OfRun
    <2>3. ask' \in [Calls -> AskSet] /\ OpenQuestionIsAnswerable'
      BY <1>2, <2>1, <2>2, FenceHolds DEF Fail
    <2>4. TypeInv'
      BY <1>2, <1>t, <2>1, <2>3 DEF Fail, TypeInv
    <2> QED BY <2>3, <2>4 DEF IInv
  <1>3. CASE EndBegins
    <2>1. host' \in HostSet /\ host'.run = host.run /\ host'.input = host.input
      BY <1>3, <1>h DEF EndBegins, HostSet
    <2>2. OfRun \in SUBSET Calls
      BY <1>h DEF OfRun
    <2>3. Fence(OfRun) /\ pending' = pending
      BY <1>3 DEF EndBegins
    <2>4. ask' \in [Calls -> AskSet] /\ OpenQuestionIsAnswerable'
      BY <2>1, <2>2, <2>3, FenceHolds
    <2>5. TypeInv'
      BY <1>3, <1>t, <2>1, <2>4 DEF EndBegins, TypeInv
    <2> QED BY <2>4, <2>5 DEF IInv
  <1>4. CASE Ended
    <2>1. host' \in HostSet /\ kid' \in KidSet /\ kid'.phase = "gone"
      BY <1>4, <1>h DEF Ended, HostSet, KidSet
    <2>2. \A c \in pending : ask[c].phase \notin {"open", "submitted"}
      BY <1>4, <1>t DEF Ended, OpenQuestionIsAnswerable, Accepts
    <2>3. TypeInv'
      BY <1>4, <1>t, <2>1 DEF Ended, TypeInv
    <2>4. OpenQuestionIsAnswerable'
      BY <1>4, <2>2 DEF Ended, OpenQuestionIsAnswerable
    <2> QED BY <2>3, <2>4 DEF IInv
  <1>5. CASE Crash
    BY <1>5, <1>h, QuietHolds DEF Crash, KidSet
  <1>6. CASE Issue
    <2>0. last' \in Calls
      BY <1>6, <1>t DEF Issue, TypeInv, Calls, Bounds
    <2>1. last' \in Calls /\ kid' \in KidSet /\ UNCHANGED <<host, ask, pending>>
      BY <1>6, <1>h, <2>0 DEF Issue, KidSet
    <2>2. TypeInv'
      BY <1>t, <2>1 DEF TypeInv
    <2>3. OpenQuestionIsAnswerable'
      BY <1>t, <2>1 DEF OpenQuestionIsAnswerable, Accepts
    <2> QED BY <2>2, <2>3 DEF IInv
  <1>7. CASE AskHuman
    <2>0. kid' = [kid EXCEPT !.phase = "asking"] \/ kid' = [phase |-> "returned", ok |-> FALSE]
      BY <1>7 DEF AskHuman
    <2>1. last \in Calls /\ last' = last /\ kid' \in KidSet
      <3>1. last \in Calls /\ last' = last
        BY <1>7, <1>t DEF AskHuman, TypeInv
      <3>2. kid' \in KidSet
        <4>1. CASE kid' = [kid EXCEPT !.phase = "asking"]
          BY <1>h, <4>1 DEF KidSet
        <4>2. CASE kid' = [phase |-> "returned", ok |-> FALSE]
          BY <4>2 DEF KidSet
        <4> QED BY <2>0, <4>1, <4>2
      <3> QED BY <3>1, <3>2
    <2>2. CASE Admissible(last)
      <3>1. /\ host' = [host EXCEPT !.input = last]
            /\ pending' = pending \cup {last}
            /\ ask' = [ask EXCEPT ![last] = [run |-> host.run, phase |-> "open",
                                             promise |-> "none", candidate |-> FALSE]]
        BY <1>7, <2>2 DEF AskHuman
      <3>2. pending' = {last} /\ host.phase = "running"
        BY <2>2, <3>1 DEF Admissible
      <3>3. /\ host' \in HostSet /\ host'.phase = "running"
            /\ host'.run = host.run /\ host'.input = last /\ host.run \in 0 .. MaxRuns
        BY <1>h, <2>1, <3>1, <3>2 DEF HostSet
      <3>4. ask'[last].run = host.run /\ ask' \in [Calls -> AskSet]
        BY <1>h, <2>1, <3>1, <3>3 DEF AskSet
      <3>5. Accepts(last)'
        BY <2>1, <3>3, <3>4 DEF Accepts
      <3>6. TypeInv'
        BY <2>1, <3>2, <3>3, <3>4 DEF TypeInv
      <3>7. OpenQuestionIsAnswerable'
        BY <2>1, <3>2, <3>5 DEF OpenQuestionIsAnswerable
      <3> QED BY <3>6, <3>7 DEF IInv
    <2>3. CASE ~Admissible(last)
      BY <1>7, <2>1, <2>3, QuietHolds DEF AskHuman
    <2> QED BY <2>2, <2>3
  <1>8. CASE Return
    <2>1. last \in Calls
      BY <1>8, <1>t DEF Return, TypeInv
    <2>2. PICK ok : ok \in BOOLEAN /\ kid' = [phase |-> "returned", ok |-> ok]
      BY <1>8, Zenon DEF Return
    <2>3. kid' \in KidSet
      BY <2>2 DEF KidSet
    <2>4. UNCHANGED <<host, last, ask, pending>>
      BY <1>8 DEF Return
    <2> QED BY <2>1, <2>3, <2>4, QuietHolds
  <1>9. CASE Guard
    <2>0. last \in Calls /\ kid' \in KidSet
      BY <1>9, <1>t DEF Guard, Guarded, TypeInv, KidSet
    <2>1. /\ last \in Calls /\ UNCHANGED <<host, pending, last>>
          /\ Fence({last}) \/ UNCHANGED ask
      BY <1>9, <2>0 DEF Guard
    <2>2. CASE Fence({last})
      <3>1. ask' \in [Calls -> AskSet] /\ OpenQuestionIsAnswerable'
        BY <1>h, <2>1, <2>2, FenceHolds
      <3>2. TypeInv'
        BY <1>t, <2>0, <2>1, <3>1 DEF TypeInv
      <3> QED BY <3>1, <3>2 DEF IInv
    <2>3. CASE UNCHANGED ask
      BY <2>0, <2>1, <2>3, QuietHolds
    <2> QED BY <2>1, <2>2, <2>3
  <1>10. CASE Commit
    BY <1>10, <1>t, QuietHolds DEF Commit, TypeInv, KidSet
  <1>11. CASE Boundary
    <2>1. Reconcile /\ UNCHANGED <<kid, last, ask>>
      BY <1>11 DEF Boundary
    <2>2. host' \in HostSet /\ pending' \subseteq Calls /\ OpenQuestionIsAnswerable'
      BY <2>1, ReconcileHolds
    <2>3. TypeInv'
      BY <1>t, <2>1, <2>2 DEF TypeInv
    <2> QED BY <2>2, <2>3 DEF IInv
  <1>12. CASE Submit
    <2>1. PICK c \in pending :
            /\ ask[c].phase = "open"
            /\ \/ /\ Accepts(c)
                  /\ ask' = [ask EXCEPT ![c].phase = "submitted", ![c].promise = "resolved",
                                        ![c].candidate = TRUE]
               \/ Fence({c})
      BY <1>12 DEF Submit
    <2>2. c \in Calls /\ UNCHANGED <<host, kid, last, pending>>
      BY <1>12, <1>h DEF Submit
    <2>3. CASE Fence({c})
      <3>1. ask' \in [Calls -> AskSet] /\ OpenQuestionIsAnswerable'
        BY <1>h, <2>2, <2>3, FenceHolds
      <3>2. TypeInv'
        BY <1>t, <2>2, <3>1 DEF TypeInv
      <3> QED BY <3>1, <3>2 DEF IInv
    <2>4. CASE ~Fence({c})
      <3>1. /\ ask' = [ask EXCEPT ![c].phase = "submitted", ![c].promise = "resolved",
                                  ![c].candidate = TRUE]
        BY <2>1, <2>4
      <3>2. /\ ask' \in [Calls -> AskSet]
            /\ \A d \in Calls : ask'[d].run = ask[d].run
            /\ \A d \in Calls : d # c => ask'[d] = ask[d]
        BY ZenonT(60), <1>h, <2>2, <3>1 DEF AskSet
      <3>3. TypeInv'
        BY <1>t, <2>2, <3>2 DEF TypeInv
      <3>4. ASSUME NEW d \in pending, ask'[d].phase \in {"open", "submitted"}
            PROVE  Accepts(d)'
        <4>1. d \in Calls /\ Accepts(d)
          BY <1>h, <1>t, <2>1, <3>2, <3>4 DEF OpenQuestionIsAnswerable
        <4> QED BY <2>2, <3>2, <4>1 DEF Accepts
      <3>5. OpenQuestionIsAnswerable'
        BY <2>2, <3>4 DEF OpenQuestionIsAnswerable
      <3> QED BY <3>3, <3>5 DEF IInv
    <2> QED BY <2>3, <2>4
  <1>13. CASE Escape
    <2>1. /\ host' \in HostSet /\ host'.run = host.run /\ host'.input = host.input
          /\ host'.phase = host.phase
      BY <1>13, <1>h DEF Escape, HostSet
    <2>2. last \in Calls /\ Fence({last}) /\ UNCHANGED <<kid, last, pending>>
      BY <1>13, <1>t DEF Escape, TypeInv
    <2>3. ask' \in [Calls -> AskSet] /\ OpenQuestionIsAnswerable'
      BY <2>1, <2>2, FenceHolds
    <2>4. TypeInv'
      BY <1>t, <2>1, <2>2, <2>3 DEF TypeInv
    <2> QED BY <2>3, <2>4 DEF IInv
  <1>14. CASE Expire \/ ModeratorHandles \/ Renew \/ Discharge \/ StateChange
    <2>1. UNCHANGED <<host, kid, last, ask, pending>>
      BY <1>14 DEF Expire, ModeratorHandles, Renew, Discharge, StateChange
    <2> QED BY <1>t, <2>1, QuietHolds DEF TypeInv
  <1>15. CASE UNCHANGED questionVars
    BY <1>15, <1>t, QuietHolds DEF questionVars, TypeInv
  <1>16. CASE NextTurn
    <2>1. /\ host' \in HostSet /\ host'.run = host.run /\ host'.input = host.input
          /\ host'.phase = host.phase /\ UNCHANGED <<kid, last, ask, pending>>
      BY <1>16, <1>h DEF NextTurn, HostSet
    <2>2. TypeInv'
      BY <1>t, <2>1 DEF TypeInv
    <2>3. OpenQuestionIsAnswerable'
      BY <1>t, <2>1 DEF OpenQuestionIsAnswerable, Accepts
    <2> QED BY <2>2, <2>3 DEF IInv
  <1> QED BY <1>1, <1>2, <1>3, <1>4, <1>5, <1>6, <1>7, <1>8, <1>9, <1>10, <1>11, <1>12,
             <1>13, <1>14, <1>15, <1>16 DEF QuestionNext

-----------------------------------------------------------------------------
\* Whatever makes a Run fail or end fences its questions in the same step: an open or
\* submitted question is the input of the Run that asked it, and that Run is running.
THEOREM QuestionsAreAnswerable ==
  ASSUME Bounds PROVE QuestionSpec => []OpenQuestionIsAnswerable
  <1>1. QuestionInit => IInv
    BY InitHolds
  <1>2. IInv /\ [QuestionNext]_questionVars => IInv'
    BY StepHolds
  <1>3. IInv => OpenQuestionIsAnswerable
    BY DEF IInv
  <1> QED BY <1>1, <1>2, <1>3, PTL DEF QuestionSpec
=============================================================================
