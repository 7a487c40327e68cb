--------------------------- MODULE Importer_proofs ---------------------------
(***************************************************************************)
(* Machine-checked proofs about Importer, plain or collection, for every   *)
(* set of calls and of ids: imports do not overlap, finished is sent only  *)
(* when everything is reported, and nothing is sent after it; and that     *)
(* Importer implements ImportSession: every step is a step of the session, *)
(* or leaves it as it is.                                                  *)
(***************************************************************************)
EXTENDS Importer, TLAPS

(* An import task exists exactly for an accepted call.                     *)
TaskOfAccepted == \A r \in Req : task[r] # "none" <=> start[r] = "accepted"

(* The children of a task are those of the ids of its call, created when   *)
(* it starts to gather.                                                    *)
ElementsOfBatch ==
    \A r \in Req, i \in Id :
        /\ element[r][i] # "none" => task[r] \in {"gathering", "done"} /\ i \in batch[r]
        /\ task[r] = "gathering" /\ i \in batch[r] => element[r][i] # "none"

(* Plugin.close() reached everything that was under way, and nothing is    *)
(* cancelled in an open plugin.                                            *)
ClosedCancels ==
    /\ closed => \A r \in Req :
          start[r] = "preparing" \/ task[r] \in {"created", "gathering"} => r \in cancelled
    /\ ~closed => cancelled = {} /\ \A r \in Req : cancelledIds[r] = {}
    /\ ~closed => \A r \in Req : task[r] # "dropped"
    /\ ~closed => \A r \in Req, i \in Id : element[r][i] # "dropped"

(* A child that ended has reported, except when it was cancelled.          *)
DoneMeansReported ==
    \A r \in Req, i \in Id : element[r][i] = "done" => Reported(r, i) \/ closed

(* A task that sent finished has ended, and so have its children.          *)
FinishedMeansDone ==
    \A r \in finished :
        task[r] = "done" /\ \A i \in batch[r] : element[r][i] = "done" /\ Reported(r, i)

(* Nothing is reported for an id before its child has ended.               *)
ReportedAtEnd ==
    \A r \in Req, i \in Id : element[r][i] \in {"none", "created", "running"} => ~Reported(r, i)

Children ==
    /\ ElementsOfBatch
    /\ ClosedCancels
    /\ DoneMeansReported
    /\ FinishedMeansDone
    /\ StragglersOnlyWhenClosed

IInv ==
    /\ TypeOK
    /\ OneImport
    /\ TaskOfAccepted
    /\ ReportedAtEnd
    /\ Children

(* Nothing has happened in the initial state.                              *)
LEMMA InitIInv == Init => IInv
<1> SUFFICES ASSUME Init
             PROVE  IInv
  OBVIOUS
<1>1. TypeOK
  BY DEF Init, TypeOK, StartState, TaskState, ElementState
<1>2. \A r \in Req : ~Busy(r) /\ task[r] = "none" /\ start[r] = "none"
  BY DEF Init, Busy
<1>3. \A r \in Req, i \in Id : element[r][i] = "none"
  BY DEF Init
<1>4. ~inProgress /\ ~closed /\ finished = {} /\ cancelled = {}
      /\ \A r \in Req : cancelledIds[r] = {}
  BY DEF Init
<1>5. ReportedAtEnd
  BY CollectionAssumption DEF Init, ReportedAtEnd, Reported
<1>6. QED
  BY <1>1, <1>2, <1>3, <1>4, <1>5 DEF IInv, Children, OneImport, TaskOfAccepted, ElementsOfBatch,
     ClosedCancels, DoneMeansReported, FinishedMeansDone, StragglersOnlyWhenClosed

(* Every step keeps the types.                                             *)
LEMMA StepTypeOK == TypeOK /\ [Next]_vars => TypeOK'
<1> SUFFICES ASSUME TypeOK, [Next]_vars
             PROVE  TypeOK'
  OBVIOUS
<1> USE CollectionAssumption, MaxYieldsAssumption DEF TypeOK, StartState, TaskState, ElementState
<1>1. ASSUME NEW r \in Req, Refuse(r)
      PROVE  TypeOK'
  BY <1>1 DEF Refuse
<1>2. ASSUME NEW r \in Req, NEW ids \in SUBSET Id, NEW isList \in BOOLEAN, Prepare(r, ids, isList)
      PROVE  TypeOK'
  BY <1>2 DEF Prepare, MayStart
<1>3. ASSUME NEW r \in Req, Accept(r)
      PROVE  TypeOK'
  BY <1>3 DEF Accept
<1>4. ASSUME NEW r \in Req, FailPrepare(r)
      PROVE  TypeOK'
  BY <1>4 DEF FailPrepare
<1>5. ASSUME NEW r \in Req, DropTask(r)
      PROVE  TypeOK'
  BY <1>5 DEF DropTask
<1>6. ASSUME NEW r \in Req, Gather(r)
      PROVE  TypeOK'
  BY <1>6 DEF Gather
<1>7. ASSUME NEW r \in Req, GatherNothing(r)
      PROVE  TypeOK'
  BY <1>7 DEF GatherNothing, EndTask, Announce
<1>8. ASSUME NEW r \in Req, Finish(r)
      PROVE  TypeOK'
  BY <1>8 DEF Finish, AllReturned, EndTask, Announce
<1>9. ASSUME NEW r \in Req, EndCancelled(r)
      PROVE  TypeOK'
  BY <1>9 DEF EndCancelled, EndTask
<1>10. ASSUME NEW r \in Req, NEW i \in Id, StartElement(r, i)
       PROVE  TypeOK'
  BY <1>10 DEF StartElement
<1>11. ASSUME NEW r \in Req, NEW i \in Id, DropElement(r, i)
       PROVE  TypeOK'
  BY <1>11 DEF DropElement
<1>12. ASSUME NEW r \in Req, NEW i \in Id, EndElement(r, i)
       PROVE  TypeOK'
  BY <1>12 DEF EndElement, MayEndUnnoticed
<1>13. ASSUME NEW r \in Req, NEW i \in Id, Yield(r, i)
       PROVE  TypeOK'
  BY <1>13 DEF Yield
<1>14. CASE Close
  BY <1>14 DEF Close
<1>15. CASE UNCHANGED vars
  BY <1>15 DEF vars
<1>16. QED
  BY <1>1, <1>2, <1>3, <1>4, <1>5, <1>6, <1>7, <1>8, <1>9, <1>10, <1>11, <1>12, <1>13,
     <1>14, <1>15 DEF Next, Step, ElementStep

(* The parts of the invariant that depend on which calls and tasks are     *)
(* under way are kept by every step.                                       *)
LEMMA StepOneImport == IInv /\ [Next]_vars => OneImport' /\ TaskOfAccepted'
<1> SUFFICES ASSUME IInv, [Next]_vars
             PROVE  OneImport' /\ TaskOfAccepted'
  OBVIOUS
<1> USE DEF IInv, TypeOK, OneImport, TaskOfAccepted, Busy, StartState, TaskState
<1>1. ASSUME NEW r \in Req, Refuse(r)
      PROVE  OneImport' /\ TaskOfAccepted'
  BY <1>1 DEF Refuse
<1>2. ASSUME NEW r \in Req, NEW ids \in SUBSET Id, NEW isList \in BOOLEAN, Prepare(r, ids, isList)
      PROVE  OneImport' /\ TaskOfAccepted'
  BY <1>2 DEF Prepare, MayStart
<1>3. ASSUME NEW r \in Req, Accept(r)
      PROVE  OneImport' /\ TaskOfAccepted'
  BY <1>3 DEF Accept
<1>4. ASSUME NEW r \in Req, FailPrepare(r)
      PROVE  OneImport' /\ TaskOfAccepted'
  BY <1>4 DEF FailPrepare
<1>5. ASSUME NEW r \in Req, DropTask(r)
      PROVE  OneImport' /\ TaskOfAccepted'
  BY <1>5 DEF DropTask
<1>6. ASSUME NEW r \in Req, Gather(r)
      PROVE  OneImport' /\ TaskOfAccepted'
  BY <1>6 DEF Gather
<1>7. ASSUME NEW r \in Req, GatherNothing(r)
      PROVE  OneImport' /\ TaskOfAccepted'
  BY <1>7 DEF GatherNothing, EndTask, Announce
<1>8. ASSUME NEW r \in Req, Finish(r)
      PROVE  OneImport' /\ TaskOfAccepted'
  BY <1>8 DEF Finish, AllReturned, EndTask, Announce
<1>9. ASSUME NEW r \in Req, EndCancelled(r)
      PROVE  OneImport' /\ TaskOfAccepted'
  BY <1>9 DEF EndCancelled, EndTask
<1>10. ASSUME UNCHANGED <<inProgress, start, task>>
       PROVE  OneImport' /\ TaskOfAccepted'
  BY <1>10
<1>11. ASSUME NEW r \in Req, NEW i \in Id, ElementStep(r, i) \/ Yield(r, i)
       PROVE  UNCHANGED <<inProgress, start, task>>
  BY <1>11 DEF ElementStep, StartElement, DropElement, EndElement, Yield, MayEndUnnoticed
<1>12. Close \/ UNCHANGED vars => UNCHANGED <<inProgress, start, task>>
  BY DEF Close, vars
<1> HIDE DEF IInv, TypeOK, OneImport, TaskOfAccepted
<1>13. QED
  BY <1>1, <1>2, <1>3, <1>4, <1>5, <1>6, <1>7, <1>8, <1>9, <1>10, <1>11, <1>12 DEF Next, Step

(* Every step keeps ReportedAtEnd: only children report.                   *)
LEMMA StepReportedAtEnd == IInv /\ [Next]_vars => ReportedAtEnd'
<1> SUFFICES ASSUME IInv, [Next]_vars
             PROVE  ReportedAtEnd'
  OBVIOUS
<1>1. ASSUME NEW r \in Req, Gather(r)
      PROVE  ReportedAtEnd'
  <2>1. \A i \in Id : element[r][i] = "none"
    BY <1>1 DEF Gather, IInv, TypeOK, Children, ElementsOfBatch
  <2>2. QED
    BY <2>1, <1>1 DEF Gather, IInv, TypeOK, ReportedAtEnd, Reported
<1>2. ASSUME NEW r \in Req, NEW i \in Id, StartElement(r, i) \/ DropElement(r, i)
      PROVE  ReportedAtEnd'
  <2>1. element[r][i] = "created"
    BY <1>2 DEF StartElement, DropElement
  <2>2. \A s \in Req, j \in Id : s # r \/ j # i => element'[s][j] = element[s][j]
    BY <1>2 DEF StartElement, DropElement, IInv, TypeOK
  <2>3. \A s \in Req, j \in Id : Reported(s, j)' <=> Reported(s, j)
    BY <1>2 DEF StartElement, DropElement, Reported
  <2>4. QED
    BY <2>1, <2>2, <2>3 DEF IInv, ReportedAtEnd
<1>3. ASSUME NEW r \in Req, NEW i \in Id, EndElement(r, i)
      PROVE  ReportedAtEnd'
  <2>1. element'[r][i] = "done"
    BY <1>3 DEF EndElement, IInv, TypeOK, MayEndUnnoticed
  <2>2. \A s \in Req, j \in Id : s # r \/ j # i =>
           /\ element'[s][j] = element[s][j]
           /\ Reported(s, j)' <=> Reported(s, j)
    BY <1>3 DEF EndElement, IInv, TypeOK, Reported, MayEndUnnoticed
  <2>3. QED
    BY <2>1, <2>2 DEF IInv, ReportedAtEnd
<1>4. ASSUME NEW r \in Req, NEW i \in Id, Yield(r, i)
      PROVE  ReportedAtEnd'
  BY <1>4 DEF Yield, IInv, ReportedAtEnd, Reported
<1>5. ASSUME UNCHANGED <<element, notified, partial>>
      PROVE  ReportedAtEnd'
  BY <1>5 DEF IInv, ReportedAtEnd, Reported
<1>6. ASSUME NEW r \in Req,
             \/ Refuse(r) \/ Accept(r) \/ FailPrepare(r) \/ DropTask(r)
             \/ GatherNothing(r) \/ Finish(r) \/ EndCancelled(r)
             \/ \E ids \in SUBSET Id, isList \in BOOLEAN : Prepare(r, ids, isList)
      PROVE  UNCHANGED <<element, notified, partial>>
  BY <1>6 DEF Refuse, Accept, FailPrepare, DropTask, GatherNothing, Finish, EndCancelled,
     Prepare, EndTask
<1>7. Close \/ UNCHANGED vars => UNCHANGED <<element, notified, partial>>
  BY DEF Close, vars
<1>8. QED
  BY <1>1, <1>2, <1>3, <1>4, <1>5, <1>6, <1>7 DEF Next, Step, ElementStep

(* The parts of the invariant that concern the children are kept by the    *)
(* steps of start() and of the import task.                                *)
LEMMA StepTask ==
  ASSUME IInv, NEW r \in Req,
         \/ Refuse(r)
         \/ \E ids \in SUBSET Id, isList \in BOOLEAN : Prepare(r, ids, isList)
         \/ Step(r)
  PROVE  Children'
<1> USE DEF IInv, Children, TypeOK, TaskOfAccepted, ElementsOfBatch, ClosedCancels,
            DoneMeansReported, FinishedMeansDone, StragglersOnlyWhenClosed, Reported
<1>1. CASE Refuse(r)
  BY <1>1 DEF Refuse
<1>2. ASSUME NEW ids \in SUBSET Id, NEW isList \in BOOLEAN, Prepare(r, ids, isList)
      PROVE  Children'
  BY <1>2 DEF Prepare, MayStart
<1>3. CASE Accept(r)
  <2>1. task[r] = "none" /\ task'[r] = "created" /\ \A s \in Req \ {r} : task'[s] = task[s]
    BY <1>3 DEF Accept, TaskState
  <2>2. ClosedCancels'
    BY <1>3 DEF Accept
  <2>3. ElementsOfBatch'
    BY <2>1, <1>3 DEF Accept
  <2>4. DoneMeansReported' /\ FinishedMeansDone'
    BY <2>1, <1>3 DEF Accept
  <2>5. StragglersOnlyWhenClosed'
    BY <2>1, <1>3 DEF Accept
  <2>6. QED
    BY <2>2, <2>3, <2>4, <2>5
<1>4. CASE FailPrepare(r)
  <2>1. ElementsOfBatch'
    BY <1>4 DEF FailPrepare
  <2>2. ClosedCancels'
    <3>1. ASSUME closed, NEW s \in Req,
                 start'[s] = "preparing" \/ task'[s] \in {"created", "gathering"}
          PROVE  s \in cancelled'
      <4>1. task[r] = "none" /\ start'[r] = "failed"
        BY <1>4 DEF FailPrepare, TaskState
      <4>2. s # r
        BY <3>1, <4>1, <1>4 DEF FailPrepare
      <4>3. QED
        BY <3>1, <4>2, <1>4 DEF FailPrepare
    <3>2. ~closed => cancelled' = {}
      BY <1>4 DEF FailPrepare
    <3>3. QED
      BY <3>1, <3>2, <1>4 DEF FailPrepare
  <2>3. DoneMeansReported' /\ FinishedMeansDone' /\ StragglersOnlyWhenClosed'
    BY <1>4 DEF FailPrepare
  <2>4. QED
    BY <2>1, <2>2, <2>3
<1>5. CASE DropTask(r)
  BY <1>5 DEF DropTask
<1>6. CASE Gather(r)
  BY <1>6 DEF Gather
<1>7. CASE GatherNothing(r)
  BY <1>7 DEF GatherNothing, EndTask, Announce
<1>8. CASE Finish(r)
  <2>1. ~closed
    BY <1>8 DEF Finish, AllReturned, EndTask, Announce
  <2>2. ElementsOfBatch'
    BY <1>8 DEF Finish, AllReturned, EndTask, Announce
  <2>3. ClosedCancels'
    BY <1>8, <2>1 DEF Finish, AllReturned, EndTask, Announce
  <2>4. FinishedMeansDone'
    BY <1>8, <2>1 DEF Finish, AllReturned, EndTask, Announce
  <2>5. DoneMeansReported'
    BY <1>8, <2>1 DEF Finish, AllReturned, EndTask, Announce
  <2>6. StragglersOnlyWhenClosed'
    <3>1. \A i \in Id : element[r][i] \in {"none", "done"}
      BY <1>8 DEF Finish, ElementState, AllReturned, EndTask, Announce
    <3>2. QED
      BY <3>1, <1>8 DEF Finish, AllReturned, EndTask, Announce
  <2>7. QED
    BY <2>2, <2>3, <2>4, <2>5, <2>6
<1>9. CASE EndCancelled(r)
  <2>1. closed
    BY <1>9 DEF EndCancelled, EndTask
  <2>2. ElementsOfBatch'
    BY <1>9 DEF EndCancelled, EndTask
  <2>3. ClosedCancels'
    <3>1. ASSUME NEW s \in Req,
                 start'[s] = "preparing" \/ task'[s] \in {"created", "gathering"}
          PROVE  s \in cancelled'
      <4>1. start[r] = "accepted" /\ task'[r] = "done"
        BY <1>9 DEF EndCancelled, EndTask
      <4>2. s # r
        BY <3>1, <4>1, <1>9 DEF EndCancelled, EndTask
      <4>3. QED
        BY <3>1, <4>2, <1>9 DEF EndCancelled, EndTask
    <3>2. QED
      BY <3>1, <2>1, <1>9 DEF EndCancelled, EndTask
  <2>4. DoneMeansReported' /\ FinishedMeansDone' /\ StragglersOnlyWhenClosed'
    BY <1>9, <2>1 DEF EndCancelled, EndTask
  <2>5. QED
    BY <2>2, <2>3, <2>4
<1> HIDE DEF IInv, Children
<1>10. QED
  BY <1>1, <1>2, <1>3, <1>4, <1>5, <1>6, <1>7, <1>8, <1>9 DEF Step

(* The parts of the invariant that concern the children are kept by the    *)
(* steps of the children.                                                  *)
LEMMA StepChild ==
  ASSUME IInv, NEW r \in Req, NEW i \in Id, ElementStep(r, i) \/ Yield(r, i)
  PROVE  Children'
<1> USE DEF IInv, Children, TypeOK, ElementsOfBatch, ClosedCancels,
            DoneMeansReported, FinishedMeansDone, StragglersOnlyWhenClosed
<1>1. CASE StartElement(r, i)
  <2>1. ElementsOfBatch' /\ ClosedCancels' /\ StragglersOnlyWhenClosed'
    BY <1>1 DEF StartElement, ElementState
  <2>2. DoneMeansReported' /\ FinishedMeansDone'
    BY <1>1 DEF StartElement, Reported
  <2>3. QED
    BY <2>1, <2>2
<1>2. CASE DropElement(r, i)
  <2>1. closed
    BY <1>2 DEF DropElement
  <2>2. ElementsOfBatch' /\ ClosedCancels' /\ StragglersOnlyWhenClosed'
    BY <1>2, <2>1 DEF DropElement, ElementState
  <2>3. DoneMeansReported' /\ FinishedMeansDone'
    BY <1>2, <2>1 DEF DropElement, Reported
  <2>4. QED
    BY <2>2, <2>3
<1>3. CASE EndElement(r, i)
  <2>1. ElementsOfBatch' /\ StragglersOnlyWhenClosed'
    BY <1>3 DEF EndElement, ElementState, MayEndUnnoticed
  <2>2. ClosedCancels'
    BY <1>3 DEF EndElement, ElementState, MayEndUnnoticed
  <2>3. r \notin finished
    BY <1>3 DEF EndElement, MayEndUnnoticed
  <2>4. Reported(r, i)' \/ closed
    BY <1>3, CollectionAssumption DEF EndElement, Reported, MayEndUnnoticed
  <2>5. \A s \in Req, j \in Id : s # r \/ j # i =>
           /\ element'[s][j] = element[s][j]
           /\ Reported(s, j)' <=> Reported(s, j)
    BY <1>3 DEF EndElement, Reported, MayEndUnnoticed
  <2>6. DoneMeansReported'
    BY <2>4, <2>5, <1>3 DEF EndElement, MayEndUnnoticed
  <2>7. FinishedMeansDone'
    BY <2>3, <2>5, <1>3 DEF EndElement, MayEndUnnoticed
  <2>8. QED
    BY <2>1, <2>2, <2>6, <2>7
<1>4. CASE Yield(r, i)
  <2>1. ElementsOfBatch' /\ ClosedCancels' /\ StragglersOnlyWhenClosed'
    BY <1>4 DEF Yield
  <2>2. \A s \in Req, j \in Id : Reported(s, j)' <=> Reported(s, j)
    BY <1>4 DEF Yield, Reported
  <2>3. DoneMeansReported' /\ FinishedMeansDone'
    BY <2>2, <1>4 DEF Yield
  <2>4. QED
    BY <2>1, <2>3
<1> HIDE DEF IInv, Children
<1>5. QED
  BY <1>1, <1>2, <1>3, <1>4 DEF ElementStep

(* Every step keeps the invariant.                                         *)
LEMMA StepIInv == IInv /\ [Next]_vars => IInv'
<1> SUFFICES ASSUME IInv, [Next]_vars
             PROVE  IInv'
  OBVIOUS
<1>1. TypeOK' /\ OneImport' /\ TaskOfAccepted' /\ ReportedAtEnd'
  BY StepTypeOK, StepOneImport, StepReportedAtEnd DEF IInv
<1>2. Children'
  <2>1. CASE Close
    BY <2>1 DEF Close, IInv, TypeOK, Children, ElementsOfBatch, ClosedCancels,
       DoneMeansReported, FinishedMeansDone, StragglersOnlyWhenClosed, Reported
  <2>2. CASE UNCHANGED vars
    BY <2>2 DEF vars, IInv, Children, ElementsOfBatch, ClosedCancels,
       DoneMeansReported, FinishedMeansDone, StragglersOnlyWhenClosed, Reported
  <2>3. QED
    BY <2>1, <2>2, StepTask, StepChild DEF Next
<1>3. QED
  BY <1>1, <1>2 DEF IInv

(* The invariant holds in every reachable state.                           *)
THEOREM Invariance == Spec => []IInv
<1>1. QED
  BY InitIInv, StepIInv, PTL DEF Spec

(* Type correctness, for every set of calls and of ids.                    *)
THEOREM TypeCorrect == Spec => []TypeOK
<1>1. IInv => TypeOK
  BY DEF IInv
<1>2. QED
  BY <1>1, Invariance, PTL

(* Imports never overlap, and _import_in_progress tells exactly whether    *)
(* one is under way (or was dropped).                                      *)
THEOREM ImportsDoNotOverlap == Spec => []OneImport
<1>1. IInv => OneImport
  BY DEF IInv
<1>2. QED
  BY <1>1, Invariance, PTL

(* finished is sent only for an import whose ids have all been reported.   *)
THEOREM FinishedIsTrue == Spec => []FinishedMeansReported
<1>1. IInv => FinishedMeansReported
  BY DEF IInv, Children, FinishedMeansDone, FinishedMeansReported
<1>2. QED
  BY <1>1, Invariance, PTL

(* A child outlives its import only in a plugin that is closing.           *)
THEOREM StragglersAreConfined == Spec => []StragglersOnlyWhenClosed
<1>1. IInv => StragglersOnlyWhenClosed
  BY DEF IInv, Children
<1>2. QED
  BY <1>1, Invariance, PTL

(* Nothing is sent for a request after its finished: by then its children  *)
(* have ended, and only children send.                                     *)
THEOREM FinishedIsLast == Spec => SilentAfterFinished
<1> DEFINE Silent == \A r \in finished : notified'[r] = notified[r] /\ partial'[r] = partial[r]
<1>1. IInv /\ [Next]_vars => [Silent]_vars
  <2> SUFFICES ASSUME IInv, Next
               PROVE  Silent
    OBVIOUS
  <2>1. ASSUME NEW r \in Req, NEW i \in Id, EndElement(r, i) \/ Yield(r, i)
        PROVE  Silent
    <3>1. r \notin finished
      BY <2>1 DEF EndElement, Yield, IInv, Children, ElementsOfBatch, FinishedMeansDone
    <3>2. finished \in SUBSET Req
      BY DEF IInv, TypeOK
    <3>3. \A s \in Req \ {r} : notified'[s] = notified[s] /\ partial'[s] = partial[s]
      BY <2>1 DEF EndElement, Yield, IInv, TypeOK, MayEndUnnoticed
    <3>4. QED
      BY <3>1, <3>2, <3>3
  <2>2. ASSUME UNCHANGED <<notified, partial>>
        PROVE  Silent
    BY <2>2
  <2>3. ASSUME NEW r \in Req,
               \/ Refuse(r) \/ Step(r)
               \/ \E ids \in SUBSET Id, isList \in BOOLEAN : Prepare(r, ids, isList)
               \/ \E i \in Id : StartElement(r, i) \/ DropElement(r, i)
        PROVE  UNCHANGED <<notified, partial>>
    BY <2>3 DEF Refuse, Prepare, Step, Accept, FailPrepare, DropTask, Gather, GatherNothing,
       Finish, EndCancelled, EndTask, StartElement, DropElement
  <2>4. CASE Close
    BY <2>4, <2>2 DEF Close
  <2> HIDE DEF Silent
  <2>5. QED
    BY <2>1, <2>2, <2>3, <2>4 DEF Next, ElementStep
<1>2. QED
  BY <1>1, Invariance, PTL DEF Spec, SilentAfterFinished

-----------------------------------------------------------------------------
(* While r gathers, the session awaits what r has not reported.            *)
LEMMA AwaitedOfGathering ==
  ASSUME IInv, ~closed, NEW r \in Req, task[r] = "gathering"
  PROVE  /\ Gathering = {r}
         /\ Awaited = {i \in Id : i \in batch[r] /\ ~Reported(r, i)}
<1>1. Gathering = {r}
  BY DEF IInv, OneImport, Busy, Gathering
<1>2. QED
  BY <1>1 DEF Awaited

(* Every step of the importer is a step of the session, or leaves it as    *)
(* it is.                                                                  *)
LEMMA StepSession == IInv /\ IInv' /\ [Next]_vars => [Session!Next]_<<SessionState, Awaited>>
<1> SUFFICES ASSUME IInv, IInv', [Next]_vars
             PROVE  [Session!Next]_<<SessionState, Awaited>>
  OBVIOUS
<1>1. CASE closed'
  <2>1. SessionState' = "aborted" /\ Awaited' = {}
    BY <1>1 DEF SessionState, Awaited
  <2>2. QED
    BY <2>1 DEF Session!Next, Session!Abort
<1>2. CASE ~closed'
  <2>1. ~closed
    BY <1>2 DEF Next, vars, Refuse, Prepare, Step, Accept, FailPrepare, DropTask, Gather,
       GatherNothing, Finish, EndCancelled, ElementStep, StartElement, DropElement,
       EndElement, Yield, Close
  <2>2. cancelled = {} /\ \A r \in Req : cancelledIds[r] = {}
    BY <2>1 DEF IInv, Children, ClosedCancels
  <2>3. ASSUME UNCHANGED <<inProgress, task, batch>>,
               \A r \in Req, i \in Id : Reported(r, i)' <=> Reported(r, i)
        PROVE  UNCHANGED <<SessionState, Awaited>>
    <3>1. Gathering' = Gathering
      BY <2>3 DEF Gathering
    <3>2. Gathering \in SUBSET Req
      BY DEF Gathering
    <3>3. Awaited' = Awaited
      BY <3>1, <3>2, <2>1, <1>2, <2>3 DEF Awaited
    <3>4. QED
      BY <3>1, <3>3, <2>1, <1>2, <2>3 DEF SessionState
  <2>4. ASSUME NEW r \in Req, Refuse(r)
        PROVE  UNCHANGED <<SessionState, Awaited>>
    BY <2>3, <2>4 DEF Refuse, Reported
  <2>5. ASSUME NEW r \in Req, NEW ids \in SUBSET Id, NEW isList \in BOOLEAN, Prepare(r, ids, isList)
        PROVE  Session!Prepare
    <3>1. Gathering = {} /\ Gathering' = {}
      BY <2>5 DEF Prepare, IInv, OneImport, Busy, Gathering, MayStart
    <3>2. SessionState = "idle" /\ SessionState' = "preparing"
      BY <3>1, <2>1, <1>2, <2>5 DEF Prepare, SessionState, MayStart
    <3>3. Awaited = {} /\ Awaited' = {}
      BY <3>1 DEF Awaited
    <3>4. QED
      BY <3>2, <3>3 DEF Session!Prepare
  <2>6. ASSUME NEW r \in Req, Accept(r)
        PROVE  UNCHANGED <<SessionState, Awaited>>
    <3>1. Gathering = {} /\ Gathering' = {}
      BY <2>6 DEF Accept, IInv, TypeOK, OneImport, TaskOfAccepted, Busy, Gathering
    <3>2. SessionState' = SessionState
      BY <3>1, <2>1, <1>2, <2>6 DEF Accept, SessionState
    <3>3. QED
      BY <3>1, <3>2 DEF Awaited
  <2>7. ASSUME NEW r \in Req, FailPrepare(r)
        PROVE  Session!Dismiss
    <3>1. Gathering = {} /\ Gathering' = {} /\ inProgress
      BY <2>7 DEF FailPrepare, IInv, TypeOK, OneImport, TaskOfAccepted, Busy, Gathering
    <3>2. SessionState = "preparing" /\ SessionState' = "idle"
      BY <3>1, <2>1, <1>2, <2>7 DEF FailPrepare, SessionState
    <3>3. QED
      BY <3>1, <3>2 DEF Session!Dismiss, Awaited
  <2>8. ASSUME NEW r \in Req, Gather(r)
        PROVE  \E ids \in SUBSET Id : Session!Begin(ids)
    <3>1. Gathering = {} /\ inProgress
      BY <2>8 DEF Gather, IInv, OneImport, Busy, Gathering
    <3>2. /\ task'[r] = "gathering" /\ batch' = batch
          /\ batch[r] \in SUBSET Id /\ batch[r] # {}
      BY <2>8 DEF Gather, IInv, TypeOK
    <3>3. Gathering' = {r} /\ Awaited' = {i \in Id : i \in batch[r] /\ ~Reported(r, i)'}
      <4>1. \A s \in Req : task'[s] = "gathering" <=> s = r
        BY <3>2, <3>1, <2>8 DEF Gather, IInv, TypeOK, Gathering
      <4>2. Gathering' = {r}
        BY <4>1 DEF Gathering
      <4>3. QED
        BY <4>2, <3>2, <1>2 DEF Awaited
    <3>4. \A i \in Id : ~Reported(r, i)'
      <4>1. \A i \in Id : element[r][i] = "none"
        BY <2>8 DEF Gather, IInv, TypeOK, Children, ElementsOfBatch
      <4>2. \A i \in Id : ~Reported(r, i)
        BY <4>1 DEF IInv, ReportedAtEnd
      <4>3. QED
        BY <4>2, <2>8 DEF Gather, Reported
    <3>5. Awaited' = batch[r]
      BY <3>2, <3>3, <3>4
    <3>6. SessionState = "preparing" /\ SessionState' = "reporting"
      BY <3>1, <3>3, <2>1, <1>2 DEF SessionState
    <3>7. QED
      BY <3>2, <3>5, <3>6 DEF Session!Begin
  <2>9. ASSUME NEW r \in Req, GatherNothing(r)
        PROVE  Session!Dismiss
    <3>1. Gathering = {} /\ Gathering' = {} /\ inProgress
      BY <2>9 DEF GatherNothing, IInv, TypeOK, OneImport, Busy, Gathering, EndTask, Announce
    <3>2. SessionState = "preparing" /\ SessionState' = "idle"
      BY <3>1, <2>1, <1>2, <2>9 DEF GatherNothing, SessionState, EndTask, Announce
    <3>3. QED
      BY <3>1, <3>2 DEF Session!Dismiss, Awaited
  <2>10. ASSUME NEW r \in Req, Finish(r)
         PROVE  Session!Finish
    <3>1. Gathering = {r} /\ Awaited = {i \in Id : i \in batch[r] /\ ~Reported(r, i)}
      BY <2>1, <2>10, AwaitedOfGathering DEF Finish, AllReturned, EndTask, Announce
    <3>2. Awaited = {}
      BY <3>1, <2>1, <2>10 DEF Finish, IInv, Children, DoneMeansReported, AllReturned
    <3>3. Gathering' = {}
      BY <3>1, <2>10 DEF Finish, Gathering, IInv, TypeOK, AllReturned, EndTask, Announce
    <3>4. Awaited' = {}
      BY <3>3 DEF Awaited
    <3>5. SessionState = "reporting" /\ SessionState' = "idle"
      BY <3>1, <3>3, <2>1, <1>2, <2>10 DEF Finish, SessionState, EndTask
    <3>6. QED
      BY <3>2, <3>4, <3>5 DEF Session!Finish
  <2>11. ASSUME NEW r \in Req, NEW i \in Id, StartElement(r, i) \/ Yield(r, i)
         PROVE  UNCHANGED <<SessionState, Awaited>>
    <3>1. \A s \in Req, j \in Id : Reported(s, j)' <=> Reported(s, j)
      BY <2>11 DEF StartElement, Yield, Reported
    <3>2. QED
      BY <3>1, <2>3, <2>11 DEF StartElement, Yield
  <2>12. ASSUME NEW r \in Req, NEW i \in Id, EndElement(r, i)
         PROVE  Session!Report(i)
    <3>1. task[r] = "gathering" /\ i \in batch[r]
      BY <2>12, <2>1 DEF EndElement, IInv, Children, ElementsOfBatch,
         StragglersOnlyWhenClosed
    <3>2. Gathering = {r} /\ Awaited = {j \in Id : j \in batch[r] /\ ~Reported(r, j)}
      BY <2>1, <3>1, AwaitedOfGathering
    <3>3. Gathering' = {r} /\ batch' = batch
      BY <3>2, <2>12 DEF EndElement, Gathering, MayEndUnnoticed
    <3>4. Awaited' = {j \in Id : j \in batch[r] /\ ~Reported(r, j)'}
      BY <3>3, <1>2 DEF Awaited
    <3>5. ~Reported(r, i)
      BY <2>12 DEF EndElement, IInv, ReportedAtEnd, MayEndUnnoticed
    <3>6. Reported(r, i)'
      BY <2>12, <1>2 DEF EndElement, IInv, TypeOK, Children, DoneMeansReported
    <3>7. \A j \in Id \ {i} : Reported(r, j)' <=> Reported(r, j)
      BY <2>12 DEF EndElement, IInv, TypeOK, Reported, MayEndUnnoticed
    <3>8. i \in Awaited /\ Awaited' = Awaited \ {i}
      BY <3>1, <3>2, <3>4, <3>5, <3>6, <3>7
    <3>9. SessionState = "reporting" /\ SessionState' = "reporting"
      BY <3>2, <3>3, <2>1, <1>2 DEF SessionState
    <3>10. QED
      BY <3>8, <3>9 DEF Session!Report
  <2>13. ASSUME NEW r \in Req,
                DropTask(r) \/ EndCancelled(r) \/ \E i \in Id : DropElement(r, i)
         PROVE  FALSE
    BY <2>2, <2>13 DEF DropTask, EndCancelled, DropElement, EndTask
  <2>14. ~Close
    BY <1>2 DEF Close
  <2>15. CASE UNCHANGED vars
    BY <2>3, <2>15 DEF vars, Reported
  <2>16. QED
    BY <2>4, <2>5, <2>6, <2>7, <2>8, <2>9, <2>10, <2>11, <2>12, <2>13, <2>14, <2>15
    DEF Next, Step, ElementStep, Session!Next
<1>3. QED
  BY <1>1, <1>2

(* The importer keeps to the sessions that the client relies on, for every *)
(* set of calls and of ids, plain or collection.                           *)
THEOREM ImporterImplementsSession == Spec => ImplementsSession
<1>1. Init => Session!Init
  <2> SUFFICES ASSUME Init
               PROVE  Session!Init
    OBVIOUS
  <2>1. Gathering = {}
    BY DEF Init, Gathering
  <2>2. QED
    BY <2>1 DEF Init, Session!Init, SessionState, Awaited
<1>2. QED
  BY <1>1, StepSession, Invariance, PTL DEF Spec, ImplementsSession, Session!Spec, Session!vars

=============================================================================
