--------------------------- MODULE DeliveryProofs ---------------------------
(***************************************************************************)
(* Proofs about Delivery, for every pipeline that ends with its final      *)
(* report and every number of reloads and of faults.                       *)
(***************************************************************************)
EXTENDS Delivery, FiniteSetTheorems, WellFoundedInduction, TLAPS

-----------------------------------------------------------------------------
(* Type correctness *)

\* removeCheckpoint deletes a value only after it has left the index.  With
\* this, the index stays a part of the values.
DeletingIsUnindexed == \A i \in index : handler[i] # "delete"

TypeInv == TypeOK /\ DeletingIsUnindexed

LEMMA SavesFacts == Len(Pipeline) \in Nat \ {0} /\ Saves \subseteq Nat \ {0}
  BY PipelineAssumption DEF Saves

\* The revision of a new row is a number.
LEMMA RevisionTyped == ASSUME NEW kind PROVE NextRevision(kind) \in Nat
<1>1. IsFiniteSet(Saves)
  BY SavesFacts, FS_Interval DEF Saves
<1>2. IsFiniteSet({j \in Saves : Pipeline[j] = kind /\ revision[j] > 0})
  BY <1>1, FS_Subset
<1>3. QED
  BY <1>2, FS_CardinalityType DEF NextRevision

\* What recovery chooses, it has read in the manifest.
LEMMA ChosenListed ==
  ASSUME NEW kind PROVE Latest(kind) \subseteq listed
  BY DEF Latest, Candidates

LEMMA InitTyped == Init => TypeOK
<1>1. 1 \in 1..(Len(Pipeline) + 1) /\ 0 \in 0..Reloads /\ 0 \in 0..MaxFaults
  BY SavesFacts, PipelineAssumption
<1> SUFFICES ASSUME Init PROVE TypeOK
  OBVIOUS
<1>2. handler \in [Saves -> {"none", "arrived", "admitted", "stored",
                             "unindex", "delete", "saved", "error"}]
      /\ under \in [Saves -> Saves \cup {0}] /\ revision \in [Saves -> Nat]
  BY DEF Init
<1>3. QED
  BY <1>1, <1>2 DEF Init, TypeOK, Open, Reports

\* Faults are counted up to their bound.
LEMMA FaultTyped ==
  ASSUME TypeOK, [Next]_vars
  PROVE  faults' \in 0..MaxFaults /\ struck' \in SUBSET FaultKinds
<1>1. \/ UNCHANGED <<faults, struck>>
      \/ \E kind \in FaultKinds : Fault(kind)
  <2>1. CASE Tab
    BY <2>1 DEF Tab, Post, Answered, PipelineFails, MarkReady, Keep, Show,
       Acknowledge, Effect, Reload, ReadRun, List, Load, Fine, fault, FaultKinds
  <2>2. CASE \E i \in Saves : Handler(i)
    BY <2>2 DEF Handler, Admit, SetValue, Commit, Unindex, Delete, Crash, Fine,
       fault, FaultKinds
  <2>3. CASE EndRun \/ Purge \/ Verify \/ Deadline \/ Lapse \/ UNCHANGED vars
    BY <2>3 DEF EndRun, Purge, Verify, Deadline, Lapse, vars, fault
  <2>4. QED
    BY <2>1, <2>2, <2>3 DEF Next
<1>2. QED
  BY <1>1, PipelineAssumption DEF Fault, TypeOK

LEMMA TabTyped == ASSUME TypeOK, Tab PROVE TypeOK'
<1>0. faults' \in 0..MaxFaults /\ struck' \in SUBSET FaultKinds
  BY FaultTyped DEF Next
<1>1. CASE Post
  <2>1. /\ handler' = [handler EXCEPT ![step] = "arrived"]
        /\ under' = [under EXCEPT ![step] = parent]
        /\ pc' = "wait" /\ step \in Saves
    BY <1>1 DEF Post
  <2>2. handler' \in [Saves -> {"none", "arrived", "admitted", "stored",
                                "unindex", "delete", "saved", "error"}]
        /\ under' \in [Saves -> Saves \cup {0}]
    BY <2>1 DEF TypeOK
  <2>3. QED
    BY <1>0, <1>1, <2>1, <2>2 DEF Post, TypeOK, server
<1>2. CASE Answered
  <2>1. step \in Saves
    BY <1>2 DEF Answered, TypeOK
  <2>2. step' \in 1..(Len(Pipeline) + 1)
    BY <1>2, <2>1, SavesFacts DEF Answered, Saves
  <2>3. parent' \in Saves \cup {0} /\ told' \in SUBSET Saves
    BY <1>2, <2>1 DEF Answered, TypeOK
  <2>4. pc' \in {"ready", "save"}
    BY <1>2 DEF Answered
  <2>5. QED
    BY <1>0, <1>2, <2>2, <2>3, <2>4 DEF Answered, TypeOK, store, server
<1>3. CASE PipelineFails \/ MarkReady \/ Acknowledge \/ Effect
  <2>1. /\ pc' \in {"rest", "hold", "shown"} /\ key' \in BOOLEAN
        /\ run' \in Open \cup {"completed", "failed", "ended"}
        /\ clean' \in {"none", "pending", "purged", "verified"}
    <3>1. CASE PipelineFails
      BY <3>1 DEF PipelineFails, TypeOK, Open
    <3>2. CASE MarkReady
      BY <3>2 DEF MarkReady, TypeOK, Open
    <3>3. CASE Acknowledge
      BY <3>3 DEF Acknowledge, Complete, TypeOK
    <3>4. CASE Effect
      BY <3>4 DEF Effect, Complete, TypeOK
    <3>5. QED
      BY <1>3, <3>1, <3>2, <3>3, <3>4
  <2>2. UNCHANGED <<step, parent, told, session, shown, reloads, seen, listed,
                    chosen, store, tombstone, due>>
    BY <1>3 DEF PipelineFails, MarkReady, Acknowledge, Effect
  <2>3. QED
    BY <1>0, <2>1, <2>2 DEF TypeOK, store
<1>4. CASE Keep
  BY <1>0, <1>4 DEF Keep, Show, TypeOK, store, server, Reports
<1>5. CASE Reload
  <2>1. reloads + 1 \in 0..Reloads
    BY <1>5, PipelineAssumption DEF Reload, TypeOK
  <2>2. pc' \in {"shown", "recover", "rest"} /\ shown' \in Reports
    BY <1>5 DEF Reload, TypeOK
  <2>3. QED
    BY <1>0, <1>5, <2>1, <2>2 DEF Reload, TypeOK, store, server
<1>6. CASE ReadRun \/ List
  <2>1. /\ pc' \in {"list", "rest", "unavailable", "load"} /\ key' \in BOOLEAN
        /\ seen' \in Open \cup {"none", "completed"}
        /\ listed' \in SUBSET Saves
    <3>1. CASE ReadRun
      BY <3>1 DEF ReadRun, Recoverable, TypeOK, Open
    <3>2. CASE List
      BY <3>2 DEF List, TypeOK
    <3>3. QED
      BY <1>6, <3>1, <3>2
  <2>2. UNCHANGED <<step, parent, told, session, shown, reloads, chosen,
                    store, server>>
    BY <1>6 DEF ReadRun, List
  <2>3. QED
    BY <1>0, <2>1, <2>2 DEF TypeOK, store, server
<1>7. CASE Load
  <2>1. chosen' \in SUBSET Saves
    BY <1>7, ChosenListed DEF Load, Analysis, Additions, TypeOK
  <2>2. pc' \in {"shown", "ack", "unavailable", "rest"}
        /\ session' \in Reports /\ shown' \in Reports
    BY <1>7 DEF Load, Show, TypeOK, Reports
  <2>3. QED
    BY <1>0, <1>7, <2>1, <2>2 DEF Load, TypeOK, store, server
<1>8. QED
  BY <1>1, <1>2, <1>3, <1>4, <1>5, <1>6, <1>7 DEF Tab

LEMMA HandlerTyped == ASSUME TypeInv, NEW i \in Saves, Handler(i) PROVE TypeOK'
<1> USE DEF TypeInv
<1>0. faults' \in 0..MaxFaults /\ struck' \in SUBSET FaultKinds
  BY FaultTyped DEF Next
<1>1. CASE Admit(i) \/ Crash(i)
  BY <1>0, <1>1 DEF Admit, Crash, Now, TypeOK, tab, server
<1>4. CASE SetValue(i)
  <2>1. handler' \in [Saves -> {"none", "arrived", "admitted", "stored",
                                "unindex", "delete", "saved", "error"}]
    BY <1>4 DEF SetValue, Now, TypeOK
  <2>2. values' \in SUBSET Saves /\ index' \in SUBSET values'
    BY <1>4 DEF SetValue, TypeOK
  <2>3. QED
    BY <1>0, <1>4, <2>1, <2>2 DEF SetValue, TypeOK, tab, server
<1>5. CASE Delete(i)
  <2>1. i \notin index
    BY <1>5 DEF Delete, TypeInv, DeletingIsUnindexed
  <2>2. values' \in SUBSET Saves /\ index' \in SUBSET values'
    BY <1>5, <2>1 DEF Delete, TypeOK
  <2>3. QED
    BY <1>0, <1>5, <2>2 DEF Delete, Now, TypeOK, tab, server
<1>2. CASE Commit(i)
  BY <1>0, <1>2, RevisionTyped DEF Commit, Answer, Now, TypeOK, tab, server
<1>3. CASE Unindex(i)
  BY <1>0, <1>3 DEF Unindex, Now, TypeOK, tab, server
<1>6. QED
  BY <1>1, <1>2, <1>3, <1>4, <1>5 DEF Handler

LEMMA UnindexedKept ==
  ASSUME TypeOK, DeletingIsUnindexed, [Next]_vars PROVE DeletingIsUnindexed'
<1> USE DEF DeletingIsUnindexed
<1>1. CASE Post
  BY <1>1 DEF Post, TypeOK
<1>2. CASE UNCHANGED <<handler, index>>
  BY <1>2
<1>3. ASSUME NEW i \in Saves, Handler(i) PROVE DeletingIsUnindexed'
  <2>1. CASE Admit(i) \/ Commit(i) \/ Delete(i) \/ Crash(i)
    BY <2>1 DEF Admit, Commit, Delete, Crash, Answer, Now, TypeOK
  <2>2. CASE SetValue(i) \/ Unindex(i)
    BY <2>2 DEF SetValue, Unindex, Now, TypeOK
  <2>3. QED
    BY <1>3, <2>1, <2>2 DEF Handler
<1>4. CASE Purge
  BY <1>4 DEF Purge
<1>5. CASE Tab /\ ~Post
  BY <1>2, <1>5 DEF Tab, Answered, PipelineFails, MarkReady, Keep, Acknowledge,
     Effect, Reload, ReadRun, List, Load, store
<1>6. CASE EndRun \/ Verify \/ Deadline \/ UNCHANGED vars
  BY <1>2, <1>6 DEF EndRun, Verify, Deadline, vars, store
<1>7. CASE Lapse
  BY <1>7 DEF Lapse
<1>8. QED
  BY <1>1, <1>3, <1>4, <1>5, <1>6, <1>7 DEF Next

\* Every step keeps the types.
LEMMA NextTyped == TypeInv /\ [Next]_vars => TypeInv'
<1> SUFFICES ASSUME TypeInv, [Next]_vars PROVE TypeInv'
  OBVIOUS
<1>1. CASE EndRun \/ Purge \/ Verify \/ Deadline \/ Lapse
  <2>0. TypeOK
    BY DEF TypeInv
  <2>1. TypeOK'
    <3>1. faults' \in 0..MaxFaults /\ struck' \in SUBSET FaultKinds
      BY <2>0, FaultTyped
    <3>2. CASE EndRun \/ Purge \/ Verify
      BY <2>0, <3>1, <3>2 DEF EndRun, Purge, Verify, TypeOK, tab, store
    <3>3. CASE Deadline
      BY <2>0, <3>1, <3>3 DEF Deadline, TypeOK, tab, store
    <3>4. CASE Lapse
      BY <2>0, <3>1, <3>4 DEF Lapse, TypeOK, tab, server
    <3>5. QED
      BY <1>1, <3>2, <3>3, <3>4
  <2>2. QED
    BY <2>1, UnindexedKept DEF TypeInv
<1>2. CASE UNCHANGED vars
  BY <1>2 DEF vars, tab, store, server, fault, TypeOK, TypeInv, DeletingIsUnindexed
<1>3. CASE Tab \/ \E i \in Saves : Handler(i)
  BY <1>3, TabTyped, HandlerTyped, UnindexedKept DEF TypeInv
<1>4. QED
  BY <1>1, <1>2, <1>3 DEF Next

LEMMA TypeInvariant == Spec => []TypeInv
<1>1. Init => TypeInv
  BY InitTyped DEF Init, TypeInv, DeletingIsUnindexed
<1>2. QED
  BY <1>1, NextTyped, PTL DEF Spec

\* The types of module Delivery hold in every reachable state.
THEOREM TypeCorrect == Spec => []TypeOK
<1>1. TypeInv => TypeOK
  BY DEF TypeInv
<1>2. QED
  BY <1>1, TypeInvariant, PTL

-----------------------------------------------------------------------------
(* What was answered with 201 stays readable *)

\* No request has been made yet for the saves to come.
Fresh ==
    \A i \in Saves : i > step \/ (i = step /\ pc = "save") => handler[i] = "none"

\* A run that takes checkpoints is not being cleaned.  What the browser was
\* told is what its handlers have done, and before the deadline and until the keys
\* are purged every handler finds in the stores what it has put there.
OpenIsUncleaned == Usable => clean = "none"

Kept ==
    clean \in {"none", "pending"} /\ ~due =>
        \A i \in Saves :
            /\ handler[i] = "stored" => i \in values
            /\ handler[i] = "saved" => Readable(i)

SaveInv ==
    /\ Fresh
    /\ OpenIsUncleaned
    /\ \A i \in told : handler[i] = "saved"
    /\ Kept

\* Steps of the tab that neither make a request nor read its answer.
LEMMA IdleTab ==
  ASSUME Tab
  PROVE  \/ Post \/ Answered
         \/ parent' \in {parent, 0} /\ UNCHANGED <<step, told, store>>
  BY DEF Tab, PipelineFails, MarkReady, Keep, Acknowledge, Effect, Reload,
     ReadRun, List, Load

\* Of such a step, what matters to the stores.
LEMMA IdleRun ==
  ASSUME OpenIsUncleaned, Tab, ~Post, ~Answered
  PROVE  /\ pc' # "save"
         /\ tombstone' = tombstone /\ due' = due
         /\ \/ run' = run /\ clean' = clean
            \/ clean' = clean /\ run \in Open /\ run' \in Open /\ (Usable' => Usable)
            \/ /\ run' \notin Open
               /\ clean' = clean \/ (clean = "none" /\ clean' = "pending")
<1>1. CASE PipelineFails
  BY <1>1 DEF PipelineFails, OpenIsUncleaned, Taking, Usable, Open
<1>2. CASE MarkReady
  BY <1>2 DEF MarkReady, Usable, Open
<1>3. CASE Acknowledge
  BY <1>3 DEF Acknowledge, Complete, Open
<1>4. CASE Effect
  BY <1>4 DEF Effect, Complete, Open
<1>5. CASE Keep \/ Reload \/ ReadRun \/ List \/ Load
  BY <1>5 DEF Keep, Show, Reload, ReadRun, List, Load, server
<1>6. QED
  BY <1>1, <1>2, <1>3, <1>4, <1>5 DEF Tab

LEMMA UncleanedKept ==
  ASSUME OpenIsUncleaned, [Next]_vars PROVE OpenIsUncleaned'
<1> USE DEF OpenIsUncleaned, Usable
<1>1. CASE Tab /\ ~Post /\ ~Answered
  BY <1>1, IdleRun DEF Open
<1>2. CASE Post \/ Answered \/ UNCHANGED vars
  BY <1>2 DEF Post, Answered, vars, server
<1>3. CASE \E i \in Saves : Handler(i)
  BY <1>3 DEF Handler, Admit, SetValue, Commit, Unindex, Delete, Crash, server
<1>4. CASE EndRun \/ Purge \/ Verify \/ Deadline \/ Lapse
  BY <1>4 DEF EndRun, Purge, Verify, Deadline, Lapse, Open, server
<1>5. QED
  BY <1>1, <1>2, <1>3, <1>4 DEF Next

\* A request under way changes what is stored for its own save only.
LEMMA HandlerOwn ==
  ASSUME TypeOK, NEW i \in Saves, Handler(i)
  PROVE  /\ handler[i] \notin {"none", "saved"} /\ handler'[i] # "none"
         /\ \A j \in Saves \ {i} :
              /\ handler'[j] = handler[j]
              /\ j \in values' <=> j \in values
              /\ j \in manifest' <=> j \in manifest
         /\ UNCHANGED <<tab, server, under>>
<1>1. handler[i] \notin {"none", "saved"} /\ UNCHANGED <<tab, server, under>>
  BY DEF Handler, Admit, SetValue, Commit, Unindex, Delete, Crash
<1>2. PICK what \in {"admitted", "error", "stored", "saved", "unindex", "delete"} :
        handler' = [handler EXCEPT ![i] = what]
  BY DEF Handler, Admit, SetValue, Commit, Unindex, Delete, Crash, Answer, Now
<1>3. values' \in {values, values \cup {i}, values \ {i}}
      /\ manifest' \in {manifest, manifest \cup {i}}
  BY DEF Handler, Admit, SetValue, Commit, Unindex, Delete, Crash
<1>4. \A j \in Saves : handler'[j] = IF j = i THEN what ELSE handler[j]
  BY <1>2 DEF TypeOK
<1>5. ASSUME NEW j \in Saves \ {i}
      PROVE  (j \in values' <=> j \in values) /\ (j \in manifest' <=> j \in manifest)
  BY <1>3
<1>6. handler'[i] # "none"
  BY <1>2, <1>4
<1>7. QED
  BY <1>1, <1>4, <1>5, <1>6

\* A handler keeps the invariant: only SetValue stores and only Commit saves.
LEMMA HandlerSaves ==
  ASSUME TypeOK, SaveInv, NEW i \in Saves, Handler(i) PROVE SaveInv'
<1>0. /\ handler[i] \notin {"none", "saved"} /\ handler'[i] # "none"
      /\ \A j \in Saves \ {i} :
           /\ handler'[j] = handler[j]
           /\ j \in values' <=> j \in values
           /\ j \in manifest' <=> j \in manifest
      /\ UNCHANGED <<pc, step, told, clean, due>>
  BY HandlerOwn DEF tab, server
<1>1. Fresh'
  BY <1>0 DEF SaveInv, Fresh
<1>2. \A j \in told' : handler'[j] = "saved"
  BY <1>0 DEF SaveInv, TypeOK
<1>3. ASSUME clean \in {"none", "pending"}, ~due
      PROVE  /\ handler'[i] = "stored" => i \in values'
             /\ handler'[i] = "saved" => Readable(i)'
  <2>1. CASE Admit(i) \/ Unindex(i) \/ Delete(i) \/ Crash(i)
    <3>1. handler'[i] \in {"admitted", "error", "delete"}
      BY <2>1 DEF Admit, Unindex, Delete, Crash, Now, TypeOK
    <3>2. QED
      BY <3>1
  <2>2. CASE SetValue(i)
    <3>1. \/ handler'[i] = "error"
          \/ handler'[i] = "stored" /\ values' = values \cup {i}
      BY <2>2 DEF SetValue, Now, TypeOK
    <3>2. QED
      BY <3>1
  <2>3. CASE Commit(i)
    <3>1. \/ handler'[i] = "unindex"
          \/ handler'[i] = "saved" /\ manifest' = manifest \cup {i}
      BY <2>3 DEF Commit, Answer, Now, TypeOK
    <3>2. i \in values /\ values' = values
      BY <1>3, <2>3 DEF Commit, SaveInv, Kept
    <3>3. QED
      BY <3>1, <3>2 DEF Readable
  <2>4. QED
    BY <2>1, <2>2, <2>3 DEF Handler
<1>4. ASSUME clean \in {"none", "pending"}, ~due, NEW j \in Saves \ {i}
      PROVE  /\ handler'[j] = "stored" => j \in values'
             /\ handler'[j] = "saved" => Readable(j)'
  BY <1>0, <1>4 DEF SaveInv, Kept, Readable
<1>5. OpenIsUncleaned'
  BY UncleanedKept DEF SaveInv, Next
<1>6. Kept'
  BY <1>0, <1>3, <1>4 DEF Kept, Readable
<1>7. QED
  BY <1>1, <1>2, <1>5, <1>6 DEF SaveInv

LEMMA NextSaves == TypeOK /\ SaveInv /\ [Next]_vars => SaveInv'
<1> SUFFICES ASSUME TypeOK, SaveInv, [Next]_vars PROVE SaveInv'
  OBVIOUS
<1>1. OpenIsUncleaned'
  BY UncleanedKept DEF SaveInv
<1>2. CASE Post
  <2>1. /\ \A j \in Saves : handler'[j] = IF j = step THEN "arrived" ELSE handler[j]
        /\ step \in Saves /\ handler[step] = "none"
        /\ UNCHANGED <<step, told, values, manifest, clean, due>> /\ pc' = "wait"
    BY <1>2 DEF Post, TypeOK, SaveInv, Fresh, server
  <2>2. Fresh'
    BY <2>1 DEF SaveInv, Fresh, Saves
  <2>3. QED
    BY <1>1, <2>1, <2>2 DEF SaveInv, Kept, Readable, TypeOK
<1>3. CASE Answered
  <2>1. /\ step \in Saves /\ step' = step + 1 /\ pc = "wait"
        /\ UNCHANGED <<handler, values, manifest, clean, due>>
        /\ told' = told \/ (told' = told \cup {step} /\ handler[step] = "saved")
    BY <1>3 DEF Answered, TypeOK, store, server
  <2>2. Fresh'
    BY <2>1, SavesFacts DEF SaveInv, Fresh, Saves
  <2>3. QED
    BY <1>1, <2>1, <2>2 DEF SaveInv, Kept, Readable
<1>4. CASE Tab /\ ~Post /\ ~Answered
  <2>1. /\ UNCHANGED <<step, told, handler, values, manifest>> /\ pc' # "save"
        /\ clean' = clean \/ clean = "none"
        /\ due' = due
    BY <1>4, IdleTab, IdleRun DEF store, SaveInv
  <2>2. QED
    BY <1>1, <2>1 DEF SaveInv, Kept, Fresh, Readable
<1>5. CASE EndRun \/ Purge \/ Verify \/ Deadline \/ Lapse
  <2>1. /\ UNCHANGED <<step, pc, told, handler>>
        /\ \/ /\ UNCHANGED <<values, manifest>> /\ (due' \/ due' = due)
              /\ clean' = clean \/ clean = "none"
           \/ clean' \notin {"none", "pending"}
           \/ due'
    BY <1>5 DEF EndRun, Purge, Verify, Deadline, Lapse, tab, store, server
  <2>2. Kept'
    BY <2>1 DEF SaveInv, Kept, Readable
  <2>3. QED
    BY <1>1, <2>1, <2>2 DEF SaveInv, Fresh
<1>6. CASE UNCHANGED vars
  BY <1>1, <1>6 DEF vars, tab, store, server, SaveInv, Kept, Fresh, Readable
<1>7. QED
  BY <1>2, <1>3, <1>4, <1>5, <1>6, HandlerSaves DEF Next

LEMMA SaveInvariant == Spec => []SaveInv
<1>1. Init => SaveInv
  BY DEF Init, SaveInv, Kept, Fresh, OpenIsUncleaned
<1>2. TypeInv => TypeOK
  BY DEF TypeInv
<1>3. QED
  BY <1>1, <1>2, TypeInvariant, NextSaves, PTL DEF Spec

\* A checkpoint that was answered with 201 can be read until the run's keys are
\* purged or its absolute deadline, whatever its own handler and the later ones go through.
THEOREM SavedIsReadable == Spec => []SavedStaysReadable
<1>1. TypeOK /\ SaveInv => SavedStaysReadable
  BY DEF TypeOK, SaveInv, Kept, SavedStaysReadable
<1>2. TypeInv => TypeOK
  BY DEF TypeInv
<1>3. QED
  BY <1>1, <1>2, TypeInvariant, SaveInvariant, PTL

-----------------------------------------------------------------------------
(* The lineage of the checkpoints *)

\* Parents are always saves the browser was told of, hence listed when a child
\* is committed; a listed save is not posted again.
LineageInv ==
    /\ parent \in told \cup {0}
    /\ \A i \in Saves : under[i] \in told \cup {0}
    /\ \A i \in manifest : handler[i] # "none"
    /\ LineageIsUnbroken

LEMMA CommitKeepsLineage ==
  ASSUME TypeOK, SaveInv, LineageInv, NEW i \in Saves, Handler(i)
  PROVE  LineageIsUnbroken'
<1>1. under' = under
  BY HandlerOwn
<1>2. CASE manifest' = manifest
  BY <1>1, <1>2 DEF LineageInv, LineageIsUnbroken
<1>3. CASE Commit(i) /\ Accepts /\ manifest' = manifest \cup {i}
  <2>1. clean = "none" /\ ~due
    BY <1>3 DEF Accepts, Taking, SaveInv, OpenIsUncleaned
  <2>2. told \subseteq manifest
    BY <2>1 DEF SaveInv, Kept, Readable, TypeOK
  <2>3. QED
    BY <1>1, <1>3, <2>2 DEF LineageInv, LineageIsUnbroken
<1>4. QED
  BY <1>2, <1>3 DEF Handler, Admit, SetValue, Commit, Unindex, Delete, Crash

LEMMA NextLineage == TypeOK /\ SaveInv /\ LineageInv /\ [Next]_vars => LineageInv'
<1> SUFFICES ASSUME TypeOK, SaveInv, LineageInv, [Next]_vars PROVE LineageInv'
  OBVIOUS
<1>1. CASE Post
  <2>1. /\ \A j \in Saves : handler'[j] # "none" \/ handler'[j] = handler[j]
        /\ \A j \in Saves : j # step => under'[j] = under[j]
        /\ step \in Saves /\ handler[step] = "none" /\ under'[step] = parent
        /\ UNCHANGED <<parent, told, manifest>>
    BY <1>1 DEF Post, TypeOK, SaveInv, Fresh
  <2>2. step \notin manifest
    BY <2>1 DEF LineageInv
  <2>3. manifest \subseteq Saves
    BY DEF TypeOK
  <2>4. QED
    BY <2>1, <2>2, <2>3 DEF LineageInv, LineageIsUnbroken
<1>2. CASE Answered
  BY <1>2 DEF Answered, store, LineageInv, LineageIsUnbroken
<1>3. CASE Tab /\ ~Post /\ ~Answered
  BY <1>3, IdleTab DEF store, LineageInv, LineageIsUnbroken
<1>4. ASSUME NEW i \in Saves, Handler(i) PROVE LineageInv'
  <2>1. UNCHANGED <<parent, told, under>>
    BY <1>4, HandlerOwn DEF tab
  <2>2. \A j \in manifest' : handler'[j] # "none"
    <3>1. ASSUME NEW j \in manifest' PROVE handler'[j] # "none"
      <4>1. CASE j = i
        BY <1>4, <4>1, HandlerOwn
      <4>2. CASE j # i
        <5>1. j \in Saves
          BY <1>4 DEF Handler, Admit, SetValue, Commit, Unindex, Delete, Crash,
             TypeOK
        <5>2. QED
          BY <1>4, <4>2, <5>1, HandlerOwn DEF LineageInv
      <4>3. QED
        BY <4>1, <4>2
    <3>2. QED
      BY <3>1
  <2>3. QED
    BY <1>4, <2>1, <2>2, CommitKeepsLineage DEF LineageInv
<1>5. CASE EndRun \/ Purge \/ Verify \/ Deadline \/ Lapse \/ UNCHANGED vars
  BY <1>5 DEF EndRun, Purge, Verify, Deadline, Lapse, vars, tab, store, LineageInv,
     LineageIsUnbroken
<1>6. QED
  BY <1>1, <1>2, <1>3, <1>4, <1>5 DEF Next

\* No listed checkpoint ever has a parent that is not listed, so the filter of
\* latest() never hides an accepted one.
THEOREM LineageHolds == Spec => []LineageIsUnbroken
<1>1. Init => LineageInv
  BY DEF Init, LineageInv, LineageIsUnbroken
<1>2. TypeInv => TypeOK
  BY DEF TypeInv
<1>3. LineageInv => LineageIsUnbroken
  BY DEF LineageInv
<1>4. QED
  BY <1>1, <1>2, <1>3, TypeInvariant, SaveInvariant, NextLineage, PTL DEF Spec
-----------------------------------------------------------------------------
(* What a verified cleanup leaves *)

Harm == struck \cap {"redis", "crash"} # {}

\* Nothing enters a tombstoned run.  Until a Redis call fails, a handler dies or
\* the deadline comes, every value is in the index of its run or about to be
\* deleted.
CleanInv ==
    /\ tombstone <=> clean \in {"purged", "verified"}
    /\ tombstone => index = {}
    /\ ~Harm /\ ~due => \A i \in values \ index : handler[i] = "delete"
    /\ clean = "verified" => manifest = {}

\* What strikes stays recorded.
LEMMA StruckGrows == ASSUME [Next]_vars PROVE struck \subseteq struck'
<1>1. CASE Tab
  BY <1>1 DEF Tab, Post, Answered, PipelineFails, MarkReady, Keep, Show,
     Acknowledge, Effect, Reload, ReadRun, List, Load, Fine, Fault, fault
<1>2. CASE \E i \in Saves : Handler(i)
  BY <1>2 DEF Handler, Admit, SetValue, Commit, Unindex, Delete, Crash, Fine,
     Fault, fault
<1>3. CASE EndRun \/ Purge \/ Verify \/ Deadline \/ Lapse \/ UNCHANGED vars
  BY <1>3 DEF EndRun, Purge, Verify, Deadline, Lapse, vars, fault
<1>4. QED
  BY <1>1, <1>2, <1>3 DEF Next

LEMMA HarmStays == ASSUME [Next]_vars PROVE Harm => Harm'
  BY StruckGrows DEF Harm

\* Without harm, what a handler does to the values and the index.
LEMMA HandlerHarmless ==
  ASSUME TypeOK, CleanInv, NEW i \in Saves, Handler(i), ~Harm', ~due
  PROVE  \A j \in values' \ index' : handler'[j] = "delete"
<1> DEFINE Others == \A j \in Saves \ {i} : handler'[j] = handler[j]
<1>0. Others /\ (\A j \in values \ index : handler[j] = "delete")
  BY HandlerOwn, HarmStays DEF CleanInv, Next
<1>1. CASE Admit(i)
  <2>1. handler[i] = "arrived" /\ UNCHANGED <<values, index>>
    BY <1>1 DEF Admit
  <2>2. QED
    BY <1>0, <2>1 DEF TypeOK
<1>2. CASE SetValue(i)
  <2>1. /\ handler[i] = "admitted"
        /\ \/ values' = values \cup {i} /\ index' = index \cup {i}
           \/ UNCHANGED <<values, index>>
    BY <1>2 DEF SetValue
  <2>2. QED
    BY <1>0, <2>1 DEF TypeOK
<1>3. CASE Commit(i)
  <2>1. handler[i] = "stored" /\ UNCHANGED <<values, index>>
    BY <1>3 DEF Commit
  <2>2. QED
    BY <1>0, <2>1 DEF TypeOK
<1>4. CASE Unindex(i)
  <2>1. ~Fault("redis")
    BY DEF Fault, Harm
  <2>2. handler'[i] = "delete" /\ index' = index \ {i} /\ UNCHANGED values
    BY <1>4, <2>1 DEF Unindex, Now, TypeOK
  <2>3. QED
    BY <1>0, <2>2 DEF TypeOK
<1>5. CASE Delete(i)
  <2>1. ~Fault("redis")
    BY DEF Fault, Harm
  <2>2. values' = values \ {i} /\ UNCHANGED index
    BY <1>5, <2>1 DEF Delete
  <2>3. QED
    BY <1>0, <2>2 DEF TypeOK
<1>6. ~Crash(i)
  BY DEF Crash, Fault, Harm
<1>7. QED
  BY <1>1, <1>2, <1>3, <1>4, <1>5, <1>6 DEF Handler

LEMMA HandlerCleans ==
  ASSUME TypeOK, SaveInv, CleanInv, NEW i \in Saves, Handler(i)
  PROVE  CleanInv'
<1>1. UNCHANGED <<tombstone, clean, due>>
  BY HandlerOwn DEF server
<1>2. tombstone => index' = {}
  BY DEF Handler, Admit, SetValue, Commit, Unindex, Delete, Crash, CleanInv
<1>3. clean = "verified" => manifest' = {}
  <2>1. clean = "verified" => ~Usable
    BY DEF SaveInv, OpenIsUncleaned
  <2>2. manifest' = manifest \/ Usable
    BY DEF Handler, Admit, SetValue, Commit, Accepts, Taking, Unindex, Delete, Crash
  <2>3. QED
    BY <2>1, <2>2 DEF CleanInv
<1>4. QED
  BY <1>1, <1>2, <1>3, HandlerHarmless DEF CleanInv

LEMMA NextCleans == TypeOK /\ SaveInv /\ CleanInv /\ [Next]_vars => CleanInv'
<1> SUFFICES ASSUME TypeOK, SaveInv, CleanInv, [Next]_vars PROVE CleanInv'
  OBVIOUS
<1>1. CASE Post
  <2>1. /\ \A j \in Saves : j # step => handler'[j] = handler[j]
        /\ step \in Saves /\ handler[step] = "none"
        /\ UNCHANGED <<values, index, manifest, tombstone, clean, due>>
    BY <1>1 DEF Post, TypeOK, SaveInv, Fresh, server
  <2>2. QED
    BY <2>1, HarmStays DEF CleanInv, TypeOK
<1>2. CASE Answered \/ UNCHANGED vars
  BY <1>2, HarmStays DEF Answered, vars, store, server, CleanInv
<1>3. CASE Tab /\ ~Post /\ ~Answered
  <2>1. /\ UNCHANGED <<handler, values, index, manifest, tombstone, due>>
        /\ clean' = clean \/ (clean = "none" /\ clean' = "pending")
    BY <1>3, IdleTab, IdleRun DEF store, SaveInv
  <2>2. QED
    BY <2>1, HarmStays DEF CleanInv
<1>4. CASE EndRun \/ Purge \/ Verify \/ Deadline \/ Lapse
  BY <1>4, HarmStays DEF EndRun, Purge, Verify, Deadline, Lapse, tab, store,
     server, CleanInv, TypeOK
<1>5. QED
  BY <1>1, <1>2, <1>3, <1>4, HandlerCleans DEF Next

\* A verified cleanup has left no checkpoint in either store and none comes
\* back, whatever connections and COMMIT replies are lost; a value only when a
\* Redis call failed or a handler died.
THEOREM CleanupIsComplete == Spec => []CleanedLeavesNothing
<1>1. Init => CleanInv
  BY DEF Init, CleanInv
<1>2. TypeInv => TypeOK
  BY DEF TypeInv
<1>3. TypeOK /\ CleanInv => CleanedLeavesNothing
  BY DEF TypeOK, CleanInv, CleanedLeavesNothing, Harm
<1>4. QED
  BY <1>1, <1>2, <1>3, TypeInvariant, SaveInvariant, NextCleans, PTL DEF Spec

-----------------------------------------------------------------------------
(* What recovery chooses *)

Rows(kind) == {j \in Saves : Pipeline[j] = kind /\ revision[j] > 0}

\* A row gets a revision above those of its kind, and keeps it.  While no
\* handler outlives its connection, rows are committed in the order of the saves;
\* while no COMMIT reply is lost, a row is one whose save was answered.
RowInv ==
    /\ \A i \in Saves :
         /\ handler[i] \in {"none", "arrived", "admitted", "stored"} => revision[i] = 0
         /\ revision[i] <= Cardinality(Rows(Pipeline[i]))
    /\ \A i \in manifest : revision[i] > 0
    /\ "reset" \notin struck =>
         /\ \A i \in Saves : i < step => handler[i] \in {"saved", "error"}
         /\ \A i, j \in Saves :
              i < j /\ Pipeline[i] = Pipeline[j] /\ revision[j] > 0
                => revision[i] < revision[j]
    /\ "commit" \notin struck => \A i \in manifest : handler[i] = "saved"

\* The manifest keeps what was answered with 201 until the cleanup is verified.
ManifestInv ==
    /\ run \in Open => clean = "none"
    /\ clean # "verified" => \A i \in Saves : handler[i] = "saved" => i \in manifest
    /\ clean = "verified" => manifest = {}

Before == {"save", "wait", "ready", "hold"}

\* What has been listed is as it was in the manifest.
ListInv ==
    /\ pc \in Before \cup {"recover", "list"} => chosen = {} /\ listed = {}
    /\ pc \in Before \cup {"recover"} => seen = "none"
    /\ told \subseteq listed \/ listed = {}
    /\ \A i \in listed : revision[i] > 0 /\ (under[i] = 0 \/ under[i] \in listed)
    /\ "commit" \notin struck => \A i \in listed : handler[i] = "saved"

\* As long as the run is open, a final report that was saved is the one found.
FinalInv ==
    /\ pc \in Before => session = "none" /\ shown = "none"
    /\ pc \in {"ack", "shown"} => shown # "none"
    /\ pc = "ack" => shown = "final"
    /\ Len(Pipeline) \in told /\ run \in Open =>
         /\ session # "partial" /\ shown # "partial"
         /\ pc = "load" => Len(Pipeline) \in listed


\* A set of numbered elements with a common bound has one of the highest number.
Less == {pair \in Nat \X Nat : pair[1] < pair[2]}

LEMMA LessIsWellFounded == IsWellFoundedOn(Less, Nat)
  BY NatLessThanWellFounded DEF OpToRel, Less

LEMMA HighestExists ==
  ASSUME NEW B \in Nat, NEW S, NEW r, S # {},
         \A i \in S : r[i] \in Nat /\ r[i] <= B
  PROVE  \E i \in S : \A j \in S : r[j] <= r[i]
<1> DEFINE T == {B - r[i] : i \in S}
<1>1. T \subseteq Nat /\ T # {}
  OBVIOUS
<1>2. PICK x \in T : \A y \in T : ~(<<y, x>> \in Less)
  <2>1. \A U : U \subseteq Nat /\ U # {}
               => \E z \in U : \A y \in U : ~(<<y, z>> \in Less)
    BY LessIsWellFounded, WFMin
  <2>2. QED
    BY <1>1, <2>1
<1>3. \A y \in T : ~(y < x)
  BY <1>1, <1>2 DEF Less
<1>4. PICK i \in S : x = B - r[i]
  OBVIOUS
<1>5. ASSUME NEW j \in S PROVE r[j] <= r[i]
  <2>1. B - r[j] \in T
    OBVIOUS
  <2>2. ~(B - r[j] < B - r[i])
    BY <1>3, <1>4, <2>1
  <2>3. r[j] \in Nat /\ r[i] \in Nat
    OBVIOUS
  <2> HIDE DEF T
  <2>4. QED
    BY <2>2, <2>3
<1>6. QED
  BY <1>5

\* The rows of a kind, counted with and without the one that is committed.
LEMMA RowsFinite ==
  ASSUME NEW kind
  PROVE  /\ IsFiniteSet(Rows(kind)) /\ Cardinality(Rows(kind)) \in Nat
         /\ Cardinality(Rows(kind)) <= Cardinality(Saves) /\ Cardinality(Saves) \in Nat
<1>1. IsFiniteSet(Saves)
  BY SavesFacts, FS_Interval DEF Saves
<1>2. Rows(kind) \in SUBSET Saves
  BY DEF Rows
<1>3. QED
  BY <1>1, <1>2, FS_Subset, FS_CardinalityType

\* While rows exist with the revisions of RowInv, each kind has a latest
\* candidate unless it has none.
LEMMA LatestExists ==
  ASSUME TypeOK, RowInv, NEW kind, Candidates(kind) # {}
  PROVE  Latest(kind) # {}
<1>1. \A i \in Candidates(kind) : i \in Saves
  BY DEF Candidates, TypeOK
<1>2. \A i \in Candidates(kind) : revision[i] \in Nat /\ revision[i] <= Cardinality(Saves)
  <2>1. SUFFICES ASSUME NEW i \in Candidates(kind)
                 PROVE  revision[i] \in Nat /\ revision[i] <= Cardinality(Saves)
    OBVIOUS
  <2>2. i \in Saves /\ revision[i] \in Nat
    BY <1>1 DEF TypeOK
  <2>3. revision[i] <= Cardinality(Rows(Pipeline[i]))
    BY <2>2 DEF RowInv
  <2>4. /\ Cardinality(Rows(Pipeline[i])) <= Cardinality(Saves)
        /\ Cardinality(Rows(Pipeline[i])) \in Nat /\ Cardinality(Saves) \in Nat
    BY RowsFinite
  <2>5. QED
    BY <2>2, <2>3, <2>4
<1>3. Cardinality(Saves) \in Nat
  BY RowsFinite
<1>4. PICK i \in Candidates(kind) : \A j \in Candidates(kind) : revision[j] <= revision[i]
  BY <1>2, <1>3, HighestExists
<1>5. QED
  BY <1>4 DEF Latest

\* What a commit does to the rows.
LEMMA CommitRow ==
  ASSUME TypeOK, RowInv, NEW i \in Saves, Commit(i)
  PROVE  /\ \A j \in Saves : j # i => revision'[j] = revision[j]
         /\ \/ revision' = revision /\ manifest' = manifest
            \/ /\ revision'[i] = 1 + Cardinality(Rows(Pipeline[i]))
               /\ manifest' = manifest \cup {i}
         /\ \A j \in Saves : revision'[j] \in Nat
         /\ revision[i] = 0
<1>1. NextRevision(Pipeline[i]) = 1 + Cardinality(Rows(Pipeline[i]))
  BY DEF NextRevision, Rows
<1>2. Cardinality(Rows(Pipeline[i])) \in Nat
  BY RowsFinite
<1>3. \/ revision' = revision /\ manifest' = manifest
      \/ /\ revision' = [revision EXCEPT ![i] = NextRevision(Pipeline[i])]
         /\ manifest' = manifest \cup {i}
  BY DEF Commit
<1>4. handler[i] = "stored" /\ revision[i] = 0
  BY DEF Commit, RowInv
<1>5. QED
  BY <1>1, <1>2, <1>3, <1>4 DEF TypeOK

\* A commit leaves every revision within the number of rows of its kind.
LEMMA CommitBounds ==
  ASSUME TypeOK, RowInv, NEW i \in Saves, Commit(i), NEW j \in Saves
  PROVE  revision'[j] <= Cardinality(Rows(Pipeline[j])')
<1> DEFINE kind == Pipeline[j]
           new == 1 + Cardinality(Rows(Pipeline[i]))
<1>0. /\ \A k \in Saves : k # i => revision'[k] = revision[k]
      /\ revision' = revision \/ revision'[i] = new
      /\ revision'[j] \in Nat /\ revision[i] = 0
  BY CommitRow
<1>1. revision[j] \in Nat /\ revision[j] <= Cardinality(Rows(kind))
  BY DEF TypeOK, RowInv
<1>2. CASE revision' = revision
  BY <1>1, <1>2 DEF Rows
<1>3. CASE revision'[i] = new
  <2>1. Cardinality(Rows(kind)) \in Nat /\ IsFiniteSet(Rows(kind))
        /\ Cardinality(Rows(Pipeline[i])) \in Nat
    BY RowsFinite
  <2>2. i \notin Rows(kind)
    BY <1>0 DEF Rows
  <2>3. CASE Pipeline[i] = kind
    <3>1. Rows(kind)' = Rows(kind) \cup {i}
      <4>1. new > 0
        BY <2>1
      <4>2. QED
        BY <1>0, <1>3, <2>3, <4>1 DEF Rows
    <3>2. Cardinality(Rows(kind)') = Cardinality(Rows(kind)) + 1
      BY <2>1, <2>2, <3>1, FS_AddElement
    <3>3. revision'[j] = revision[j] \/ revision'[j] = 1 + Cardinality(Rows(kind))
      BY <1>0, <1>3, <2>3
    <3>4. QED
      BY <1>1, <2>1, <3>2, <3>3
  <2>4. CASE Pipeline[i] # kind
    <3>1. Rows(kind)' = Rows(kind)
      BY <1>0, <2>4 DEF Rows
    <3>2. revision'[j] = revision[j]
      BY <1>0, <2>4
    <3>3. QED
      BY <1>1, <3>1, <3>2
  <2>5. QED
    BY <2>3, <2>4
<1>4. QED
  BY <1>0, <1>2, <1>3

\* While no handler outlives its connection, the save that is committed is the
\* latest one made.
LEMMA CommitOrders ==
  ASSUME TypeOK, SaveInv, RowInv, NEW i \in Saves, Commit(i), "reset" \notin struck,
         NEW j \in Saves, NEW k \in Saves, j < k, Pipeline[j] = Pipeline[k],
         revision'[k] > 0
  PROVE  revision'[j] < revision'[k]
<1>0. /\ \A m \in Saves : m # i => revision'[m] = revision[m]
      /\ revision' = revision \/ revision'[i] = 1 + Cardinality(Rows(Pipeline[i]))
      /\ \A m \in Saves : revision'[m] \in Nat
      /\ revision[i] = 0
  BY CommitRow
<1>1. \A m \in Saves : m > i => revision[m] = 0
  <2>1. handler[i] = "stored"
    BY DEF Commit
  <2>2. i >= step
    BY <2>1, SavesFacts DEF RowInv, TypeOK
  <2>3. ASSUME NEW m \in Saves, m > i PROVE handler[m] = "none"
    <3>1. m > step
      BY <2>2, <2>3, SavesFacts DEF TypeOK
    <3>2. QED
      BY <3>1 DEF SaveInv, Fresh
  <2>4. QED
    BY <2>3 DEF RowInv
<1>2. revision[k] > 0 /\ revision'[k] = revision[k] => revision[j] < revision[k]
  BY DEF RowInv
<1>3. CASE revision' = revision
  BY <1>2, <1>3
<1>4. CASE revision'[i] = 1 + Cardinality(Rows(Pipeline[i]))
  <2>1. CASE k = i
    <3>1. revision'[j] = revision[j] /\ revision[j] <= Cardinality(Rows(Pipeline[i]))
      BY <1>0, <2>1, SavesFacts DEF RowInv
    <3>2. Cardinality(Rows(Pipeline[i])) \in Nat /\ revision[j] \in Nat
      BY RowsFinite DEF TypeOK
    <3>3. QED
      BY <1>4, <2>1, <3>1, <3>2
  <2>2. CASE k # i
    <3>1. revision'[k] = revision[k] /\ revision[k] > 0
      BY <1>0, <2>2
    <3>2. j # i
      BY <1>1, <3>1, SavesFacts
    <3>3. QED
      BY <1>0, <1>2, <3>1, <3>2
  <2>3. QED
    BY <2>1, <2>2
<1>5. QED
  BY <1>0, <1>3, <1>4

LEMMA HandlerRows ==
  ASSUME TypeOK, SaveInv, RowInv, NEW i \in Saves, Handler(i), struck \subseteq struck'
  PROVE  RowInv'
<1>0. /\ handler[i] \notin {"none", "saved"} /\ handler'[i] # "none"
      /\ \A j \in Saves \ {i} : handler'[j] = handler[j]
      /\ UNCHANGED <<tab, server, under>>
  BY HandlerOwn
<1>1. "reset" \notin struck' => "reset" \notin struck
  OBVIOUS
<1>2. "commit" \notin struck' => "commit" \notin struck
  OBVIOUS
<1>3. "reset" \notin struck' => \A j \in Saves : j < step' => handler'[j] \in {"saved", "error"}
  <2>1. ASSUME "reset" \notin struck', NEW j \in Saves, j < step'
        PROVE  handler'[j] \in {"saved", "error"}
    <3>1. handler[j] \in {"saved", "error"}
      BY <1>0, <1>1, <2>1 DEF RowInv, tab
    <3>2. ~(i = j /\ handler[i] = "error")
      BY DEF Handler, Admit, SetValue, Commit, Unindex, Delete, Crash
    <3>3. QED
      BY <1>0, <3>1, <3>2
  <2>2. QED
    BY <2>1
<1>4. CASE Commit(i)
  <2>0. /\ \A j \in Saves : j # i => revision'[j] = revision[j]
        /\ \/ revision' = revision /\ manifest' = manifest
           \/ /\ revision'[i] = 1 + Cardinality(Rows(Pipeline[i]))
              /\ manifest' = manifest \cup {i}
        /\ \A j \in Saves : revision'[j] \in Nat
    BY <1>4, CommitRow
  <2>1. handler'[i] \in {"saved", "unindex"}
        /\ ("commit" \notin struck' /\ manifest' # manifest => handler'[i] = "saved")
    BY <1>4 DEF Commit, Answer, Now, Fault, TypeOK
  <2>2. \A j \in Saves :
          /\ handler'[j] \in {"none", "arrived", "admitted", "stored"} => revision'[j] = 0
          /\ revision'[j] <= Cardinality(Rows(Pipeline[j])')
    <3>1. ASSUME NEW j \in Saves,
                 handler'[j] \in {"none", "arrived", "admitted", "stored"}
          PROVE  revision'[j] = 0
      BY <1>0, <2>0, <2>1, <3>1 DEF RowInv
    <3>2. \A j \in Saves : revision'[j] <= Cardinality(Rows(Pipeline[j])')
      BY <1>4, CommitBounds
    <3>3. QED
      BY <3>1, <3>2
  <2>3. \A j \in manifest' : revision'[j] > 0
    <3>1. Cardinality(Rows(Pipeline[i])) \in Nat /\ manifest \subseteq Saves
      BY RowsFinite DEF TypeOK
    <3>2. i \notin manifest
      <4>1. revision[i] = 0
        BY <1>4, CommitRow
      <4>2. QED
        BY <4>1 DEF RowInv
    <3>3. QED
      BY <2>0, <3>1, <3>2 DEF RowInv
  <2>4. "reset" \notin struck' =>
          \A j, k \in Saves : j < k /\ Pipeline[j] = Pipeline[k] /\ revision'[k] > 0
            => revision'[j] < revision'[k]
    BY <1>1, <1>4, CommitOrders
  <2>5. "commit" \notin struck' => \A j \in manifest' : handler'[j] = "saved"
    BY <1>0, <1>2, <2>0, <2>1 DEF RowInv, TypeOK
  <2>6. QED
    BY <1>3, <2>2, <2>3, <2>4, <2>5 DEF RowInv
<1>5. CASE ~Commit(i)
  <2>1. UNCHANGED <<revision, manifest>>
    BY <1>5 DEF Handler, Admit, SetValue, Unindex, Delete, Crash
  <2>2. handler'[i] \in {"none", "arrived", "admitted", "stored"}
        => handler[i] \in {"none", "arrived", "admitted", "stored"}
    BY <1>5 DEF Handler, Admit, SetValue, Unindex, Delete, Crash, Now, TypeOK
  <2>3. \A kind : Rows(kind)' = Rows(kind)
    BY <2>1 DEF Rows
  <2>4. \A j \in Saves :
          /\ handler'[j] \in {"none", "arrived", "admitted", "stored"} => revision'[j] = 0
          /\ revision'[j] <= Cardinality(Rows(Pipeline[j])')
    BY <1>0, <2>1, <2>2, <2>3 DEF RowInv
  <2>5. "commit" \notin struck' => \A j \in manifest' : handler'[j] = "saved"
    BY <1>0, <1>2, <2>1 DEF RowInv, TypeOK
  <2>6. QED
    BY <1>1, <1>3, <2>1, <2>4, <2>5 DEF RowInv
<1>6. QED
  BY <1>4, <1>5

LEMMA NextRows == TypeOK /\ SaveInv /\ RowInv /\ [Next]_vars => RowInv'
<1> SUFFICES ASSUME TypeOK, SaveInv, RowInv, [Next]_vars PROVE RowInv'
  OBVIOUS
<1>0. struck \subseteq struck'
  BY StruckGrows
<1>1. CASE Post
  <2>1. /\ \A j \in Saves : handler'[j] = IF j = step THEN "arrived" ELSE handler[j]
        /\ step \in Saves /\ handler[step] = "none"
        /\ UNCHANGED <<step, revision, manifest, struck>>
    BY <1>1 DEF Post, TypeOK, SaveInv, Fresh, fault
  <2>2. \A kind : Rows(kind)' = Rows(kind)
    BY <2>1 DEF Rows
  <2>3. \A j \in Saves :
          /\ handler'[j] \in {"none", "arrived", "admitted", "stored"} => revision'[j] = 0
          /\ revision'[j] <= Cardinality(Rows(Pipeline[j])')
    BY <2>1, <2>2 DEF RowInv
  <2>4. \A j \in Saves : j < step' => handler'[j] = handler[j]
    BY <2>1, SavesFacts
  <2>5. "commit" \notin struck' => \A j \in manifest' : handler'[j] = "saved"
    BY <2>1 DEF RowInv, TypeOK
  <2>6. QED
    BY <2>1, <2>3, <2>4, <2>5 DEF RowInv
<1>2. CASE Answered
  <2>1. /\ step \in Saves /\ step' = step + 1
        /\ UNCHANGED <<handler, revision, manifest>>
        /\ handler[step] \in {"saved", "error"} \/ "reset" \in struck'
    BY <1>2 DEF Answered, Fault, TypeOK, store
  <2>2. \A kind : Rows(kind)' = Rows(kind)
    BY <2>1 DEF Rows
  <2>3. \A j \in Saves : j < step' => j < step \/ j = step
    BY <2>1, SavesFacts DEF Saves
  <2>4. QED
    BY <1>0, <2>1, <2>2, <2>3 DEF RowInv
<1>3. CASE Tab /\ ~Post /\ ~Answered
  <2>1. UNCHANGED <<step, handler, revision, manifest>>
    BY <1>3, IdleTab DEF store
  <2>2. \A kind : Rows(kind)' = Rows(kind)
    BY <2>1 DEF Rows
  <2>3. QED
    BY <1>0, <2>1, <2>2 DEF RowInv
<1>4. CASE EndRun \/ Purge \/ Verify \/ Deadline \/ Lapse \/ UNCHANGED vars
  <2>1. UNCHANGED <<step, handler, revision, struck>> /\ manifest' \subseteq manifest
    BY <1>4 DEF EndRun, Purge, Verify, Deadline, Lapse, vars, tab, store, fault
  <2>2. \A kind : Rows(kind)' = Rows(kind)
    BY <2>1 DEF Rows
  <2>3. QED
    BY <2>1, <2>2 DEF RowInv
<1>5. QED
  BY <1>0, <1>1, <1>2, <1>3, <1>4, HandlerRows DEF Next

\* What a step does to the run and its cleanup.
LEMMA RunMoves ==
  ASSUME SaveInv, ManifestInv, [Next]_vars
  PROVE  /\ run' \in Open => run \in Open /\ clean' = "none"
         /\ clean' # "verified" => clean # "verified"
         /\ clean \in {"purged", "verified"} => clean' \in {"purged", "verified"}
         /\ due => due'
<1> USE DEF ManifestInv
<1>1. CASE Tab /\ ~Post /\ ~Answered
  BY <1>1, IdleRun DEF SaveInv
<1>2. CASE Post \/ Answered \/ UNCHANGED vars
  BY <1>2 DEF Post, Answered, vars, server
<1>3. CASE \E i \in Saves : Handler(i)
  BY <1>3 DEF Handler, Admit, SetValue, Commit, Unindex, Delete, Crash, server
<1>4. CASE EndRun
  BY <1>4 DEF EndRun, Open
<1>5. CASE Purge \/ Verify \/ Deadline \/ Lapse
  BY <1>5 DEF Purge, Verify, Deadline, Lapse, server
<1>6. QED
  BY <1>1, <1>2, <1>3, <1>4, <1>5 DEF Next

LEMMA NextManifest ==
  TypeOK /\ SaveInv /\ CleanInv /\ ManifestInv /\ [Next]_vars => ManifestInv'
<1> SUFFICES ASSUME TypeOK, SaveInv, CleanInv, ManifestInv, [Next]_vars
             PROVE  ManifestInv'
  OBVIOUS
<1>1. run' \in Open => clean' = "none"
  BY RunMoves
<1>2. clean' = "verified" => manifest' = {}
  BY NextCleans DEF CleanInv
<1>3. ASSUME clean' # "verified", NEW j \in Saves, handler'[j] = "saved"
      PROVE  j \in manifest'
  <2>1. ~Verify /\ clean # "verified"
    BY <1>3, RunMoves DEF Verify
  <2>2. handler[j] = "saved" => j \in manifest
    BY <2>1 DEF ManifestInv
  <2>3. CASE Tab
    <3>1. handler'[j] = "arrived" \/ handler'[j] = handler[j]
      BY <2>3, IdleTab DEF Post, Answered, store, TypeOK
    <3>2. manifest' = manifest
      BY <2>3, IdleTab DEF Post, Answered, store
    <3>3. QED
      BY <1>3, <2>2, <3>1, <3>2
  <2>4. ASSUME NEW i \in Saves, Handler(i) PROVE j \in manifest'
    <3>1. manifest \subseteq manifest'
      BY <2>4 DEF Handler, Admit, SetValue, Commit, Unindex, Delete, Crash
    <3>2. CASE j # i
      BY <1>3, <2>2, <2>4, <3>1, <3>2, HandlerOwn
    <3>3. CASE j = i
      <4>1. Commit(i)
        BY <1>3, <2>4, <3>3 DEF Handler, Admit, SetValue, Unindex, Delete, Crash,
           Now, TypeOK
      <4>2. QED
        BY <1>3, <3>3, <4>1 DEF Commit, Answer, Now, TypeOK
    <3>4. QED
      BY <3>2, <3>3
  <2>5. CASE EndRun \/ Purge \/ Deadline \/ Lapse \/ UNCHANGED vars
    BY <1>3, <2>2, <2>5 DEF EndRun, Purge, Deadline, Lapse, vars, tab, store
  <2>6. QED
    BY <2>1, <2>3, <2>4, <2>5 DEF Next
<1>4. QED
  BY <1>1, <1>2, <1>3 DEF ManifestInv

\* Only reading the manifest changes the list, and no later step its entries.
LEMMA NextList ==
  TypeOK /\ SaveInv /\ LineageInv /\ RowInv /\ ManifestInv /\ ListInv /\ [Next]_vars
    => ListInv'
<1> SUFFICES ASSUME TypeOK, SaveInv, LineageInv, RowInv, ManifestInv, ListInv,
                    [Next]_vars
             PROVE  ListInv'
  OBVIOUS
<1>0. struck \subseteq struck'
  BY StruckGrows
<1>1. CASE Post \/ Answered
  <2>1. /\ pc \in Before /\ pc' \in Before /\ UNCHANGED <<seen, listed, chosen>>
    BY <1>1 DEF Post, Answered, Before
  <2>2. QED
    BY <2>1 DEF ListInv, Before
<1>2. CASE Reload
  BY <1>2 DEF Reload, ListInv, Before
<1>3. CASE List
  <2>1. told \subseteq manifest \/ manifest = {}
    BY DEF ManifestInv, SaveInv, TypeOK
  <2>2. /\ \A i \in manifest : revision[i] > 0 /\ (under[i] = 0 \/ under[i] \in manifest)
        /\ "commit" \notin struck => \A i \in manifest : handler[i] = "saved"
    BY DEF RowInv, LineageInv, LineageIsUnbroken
  <2>3. /\ \/ listed' = manifest /\ pc' = "load"
           \/ listed' = listed /\ pc' = "unavailable"
        /\ UNCHANGED <<told, under, revision, handler, chosen>>
    BY <1>3 DEF List, store
  <2>4. QED
    BY <1>0, <2>1, <2>2, <2>3 DEF ListInv, Before
<1>4. CASE Tab /\ ~Post /\ ~Answered /\ ~Reload /\ ~List
  <2>1. UNCHANGED <<told, under, revision, handler, listed>>
    BY <1>4 DEF Tab, PipelineFails, MarkReady, Keep, Acknowledge, Effect, ReadRun,
       Load, store
  <2>2. \/ pc' \in Before \cup {"list"} /\ pc \in Before \cup {"recover"}
           /\ chosen' = chosen /\ (seen' = seen \/ pc' = "list")
        \/ pc' \notin Before \cup {"recover", "list"}
    BY <1>4 DEF Tab, PipelineFails, MarkReady, Keep, Show, Acknowledge, Effect,
       ReadRun, Load, Before
  <2>3. QED
    BY <1>0, <2>1, <2>2 DEF ListInv, Before
<1>5. ASSUME NEW i \in Saves, Handler(i) PROVE ListInv'
  <2>1. UNCHANGED <<pc, told, seen, listed, chosen, under>>
        /\ handler[i] # "saved" /\ \A j \in Saves \ {i} : handler'[j] = handler[j]
    BY <1>5, HandlerOwn DEF tab
  <2>2. ASSUME NEW j \in listed PROVE revision'[j] > 0
    <3>1. j \in Saves /\ revision[j] > 0
      BY DEF ListInv, TypeOK
    <3>2. CASE Commit(i)
      <4>1. revision[i] = 0 /\ \A k \in Saves : k # i => revision'[k] = revision[k]
        BY <3>2, CommitRow
      <4>2. QED
        BY <3>1, <4>1
    <3>3. CASE ~Commit(i)
      BY <1>5, <3>1, <3>3 DEF Handler, Admit, SetValue, Unindex, Delete, Crash
    <3>4. QED
      BY <3>2, <3>3
  <2>3. listed \subseteq Saves
    BY DEF TypeOK
  <2>4. QED
    BY <1>0, <2>1, <2>2, <2>3 DEF ListInv
<1>6. CASE EndRun \/ Purge \/ Verify \/ Deadline \/ Lapse \/ UNCHANGED vars
  <2>1. UNCHANGED <<tab, handler, under, revision, struck>>
    BY <1>6 DEF EndRun, Purge, Verify, Deadline, Lapse, vars, store, fault
  <2>2. QED
    BY <2>1 DEF ListInv, tab
<1>7. QED
  BY <1>1, <1>2, <1>3, <1>4, <1>5, <1>6 DEF Next

\* No save that the browser was told of is later than the one chosen of its kind.
LEMMA LatestIsLast ==
  ASSUME TypeOK, RowInv, ListInv, "reset" \notin struck,
         NEW kind, NEW i \in Latest(kind), NEW j \in told, Pipeline[j] = Pipeline[i]
  PROVE  j <= i
<1>1. i \in listed /\ Pipeline[i] = kind
  BY DEF Latest, Candidates
<1>2. j \in listed
  BY <1>1 DEF ListInv
<1>3. j \in Candidates(kind)
  BY <1>1, <1>2 DEF ListInv, Candidates
<1>4. revision[j] <= revision[i] /\ revision[j] > 0
  BY <1>2, <1>3 DEF Latest, ListInv
<1>5. i \in Saves /\ j \in Saves
  BY <1>1 DEF TypeOK
<1>6. i < j => revision[i] < revision[j]
  BY <1>1, <1>4, <1>5 DEF RowInv
<1>7. revision[i] \in Nat /\ revision[j] \in Nat /\ i \in Nat /\ j \in Nat
  BY <1>5, SavesFacts DEF TypeOK
<1>8. QED
  BY <1>4, <1>6, <1>7

LEMMA NextFaithful ==
  ASSUME TypeOK, SaveInv, RowInv, ManifestInv, ListInv, RecoveryIsFaithful, [Next]_vars
  PROVE  RecoveryIsFaithful'
<1>0. struck \subseteq struck'
  BY StruckGrows
<1>1. ASSUME "reset" \notin struck', NEW i \in chosen', NEW j \in told',
             Pipeline[j] = Pipeline[i]
      PROVE  j <= i
  <2>1. CASE UNCHANGED <<chosen, told>>
    BY <1>0, <1>1, <2>1 DEF RecoveryIsFaithful
  <2>2. CASE Load
    <3>1. told' = told /\ (chosen' = chosen \/ \E kind : i \in Latest(kind))
      <4>1. told' = told
        BY <2>2 DEF Load
      <4>2. chosen' = chosen \/ chosen' = Latest("final_report")
            \/ chosen' = Latest("phase1") \cup Latest("phase2")
            \/ chosen' = (Latest("phase1") \cup Latest("phase2"))
                           \cup (Latest("synthesis") \cup Latest("quality_gate"))
        BY <2>2 DEF Load, Analysis, Additions
      <4>3. QED
        BY <1>1, <4>1, <4>2
    <3>2. QED
      BY <1>0, <1>1, <2>1, <3>1, LatestIsLast
  <2>3. CASE Answered
    <3>1. chosen' = chosen /\ chosen = {}
      BY <2>3 DEF Answered, ListInv, Before
    <3>2. QED
      BY <1>1, <3>1
  <2>4. CASE Reload
    BY <1>1, <2>4 DEF Reload
  <2>5. CASE Tab /\ ~Load /\ ~Answered /\ ~Reload
    BY <2>1, <2>5 DEF Tab, Post, PipelineFails, MarkReady, Keep, Acknowledge,
       Effect, ReadRun, List
  <2>6. CASE \E k \in Saves : Handler(k)
    BY <2>1, <2>6, HandlerOwn DEF tab
  <2>7. CASE EndRun \/ Purge \/ Verify \/ Deadline \/ Lapse \/ UNCHANGED vars
    BY <2>1, <2>7 DEF EndRun, Purge, Verify, Deadline, Lapse, vars, tab
  <2>8. QED
    BY <2>2, <2>3, <2>4, <2>5, <2>6, <2>7 DEF Next
<1>2. ASSUME struck' \cap {"commit", "call"} = {}, ~due', pc' = "unavailable",
             seen' # "none"
      PROVE  clean' \in {"purged", "verified"}
  <2>0. ~due /\ struck \cap {"commit", "call"} = {}
    <3>1. due => due'
      BY RunMoves
    <3>2. QED
      BY <1>0, <1>2, <3>1
  <2>1. SUFFICES clean \in {"purged", "verified"}
    BY RunMoves
  <2>2. CASE pc = "unavailable" /\ seen' = seen
    BY <1>2, <2>0, <2>2 DEF RecoveryIsFaithful
  <2>3. CASE ReadRun
    <3>1. seen = "none" /\ seen' = seen
      BY <1>2, <2>3 DEF ReadRun, ListInv
    <3>2. QED
      BY <1>2, <3>1
  <2>4. CASE Load
    <3>0. ~Fault("call")
      BY <1>2 DEF Fault
    <3>1. \/ ~(Latest("final_report") \subseteq manifest \cap values)
          \/ ~(Analysis \subseteq manifest \cap values)
          \/ ~(Analysis \cup Additions \subseteq manifest \cap values)
      BY <1>2, <2>4, <3>0 DEF Load, Show
    <3>2. PICK i \in listed : ~(i \in manifest /\ i \in values)
      BY <3>1, ChosenListed DEF Analysis, Additions
    <3>3. handler[i] = "saved" /\ i \in Saves
      BY <2>0 DEF ListInv, TypeOK
    <3>4. QED
      BY <2>0, <3>2, <3>3 DEF SaveInv, Kept, Readable, TypeOK
  <2>5. CASE Tab /\ ~ReadRun /\ ~Load
    <3>1. ~Fault("call")
      BY <1>2 DEF Fault
    <3>2. QED
      BY <1>2, <2>5, <3>1 DEF Tab, Post, Answered, PipelineFails, MarkReady, Keep,
         Show, Acknowledge, Effect, Reload, List
  <2>6. CASE \E k \in Saves : Handler(k)
    BY <1>2, <2>2, <2>6, HandlerOwn DEF tab
  <2>7. CASE EndRun \/ Purge \/ Verify \/ Deadline \/ Lapse \/ UNCHANGED vars
    BY <1>2, <2>2, <2>7 DEF EndRun, Purge, Verify, Deadline, Lapse, vars, tab
  <2>8. QED
    BY <2>3, <2>4, <2>5, <2>6, <2>7 DEF Next
<1>3. QED
  BY <1>1, <1>2 DEF RecoveryIsFaithful

\* A final report that was saved and is listed is the one found.
LEMMA FinalIsFound ==
  ASSUME TypeOK, RowInv, ListInv, Len(Pipeline) \in listed
  PROVE  Latest("final_report") # {}
<1>1. Len(Pipeline) \in Candidates("final_report")
  BY PipelineAssumption DEF ListInv, Candidates
<1>2. QED
  BY <1>1, LatestExists

LEMMA NextFinal ==
  TypeOK /\ SaveInv /\ RowInv /\ ManifestInv /\ ListInv /\ FinalInv /\ [Next]_vars
    => FinalInv'
<1> SUFFICES ASSUME TypeOK, SaveInv, RowInv, ManifestInv, ListInv, FinalInv, [Next]_vars
             PROVE  FinalInv'
  OBVIOUS
<1> DEFINE F == Len(Pipeline)
<1>0. run' \in Open => run \in Open /\ clean' = "none"
  BY RunMoves
<1>1. CASE Post \/ Answered \/ MarkReady
  <2>1. pc \in Before /\ pc' \in Before /\ UNCHANGED <<session, shown>>
    BY <1>1 DEF Post, Answered, MarkReady, Before
  <2>2. QED
    BY <2>1 DEF FinalInv, Before
<1>2. CASE PipelineFails
  BY <1>0, <1>2 DEF PipelineFails, FinalInv, Before
<1>3. CASE Keep
  <2>1. /\ session = "none" /\ shown' = "final" /\ session' \in {"none", "final"}
        /\ pc' = "ack"
    BY <1>3 DEF Keep, Show, FinalInv, Before
  <2>2. QED
    BY <2>1 DEF FinalInv, Before
<1>4. CASE Acknowledge \/ Effect \/ ReadRun
  <2>1. /\ pc' \in {"shown", "rest", "list", "unavailable"}
        /\ pc' = "shown" => pc = "ack"
        /\ UNCHANGED <<told, session, shown>>
    BY <1>4 DEF Acknowledge, Effect, ReadRun
  <2>2. QED
    BY <1>0, <2>1 DEF FinalInv, Before
<1>5. CASE Reload
  <2>1. /\ shown' = session /\ UNCHANGED <<told, session>>
        /\ pc' \in {"shown", "recover", "rest"} /\ (pc' = "shown" => session # "none")
    BY <1>5 DEF Reload
  <2>2. QED
    BY <1>0, <2>1 DEF FinalInv, Before
<1>6. CASE List
  <2>1. /\ \/ pc' = "load" /\ listed' = manifest
           \/ pc' = "unavailable"
        /\ UNCHANGED <<told, session, shown, clean>>
    BY <1>6 DEF List, server
  <2>2. clean = "none" /\ F \in told => F \in manifest
    BY DEF ManifestInv, SaveInv, TypeOK
  <2>3. QED
    BY <1>0, <2>1, <2>2 DEF FinalInv, Before
<1>7. CASE Load
  <2>1. /\ pc = "load" /\ UNCHANGED told
        /\ \/ /\ Latest("final_report") # {} /\ shown' = "final"
              /\ session' \in {session, "final"}
              /\ pc' \in {"shown", "ack"}
           \/ /\ Latest("final_report") = {} /\ shown' = "partial"
              /\ session' \in {session, "partial"} /\ pc' = "shown"
           \/ pc' \in {"unavailable", "rest"} /\ UNCHANGED <<session, shown>>
    BY <1>7 DEF Load, Show
  <2>2. F \in told /\ run \in Open => Latest("final_report") # {}
    BY <2>1, FinalIsFound DEF FinalInv
  <2>3. QED
    BY <1>0, <2>1, <2>2 DEF FinalInv, Before
<1>8. CASE \E k \in Saves : Handler(k)
  BY <1>0, <1>8, HandlerOwn DEF tab, FinalInv
<1>9. CASE EndRun \/ Purge \/ Verify \/ Deadline \/ Lapse \/ UNCHANGED vars
  <2>1. UNCHANGED tab
    BY <1>9 DEF EndRun, Purge, Verify, Deadline, Lapse, vars
  <2>2. QED
    BY <1>0, <2>1 DEF tab, FinalInv
<1>10. QED
  BY <1>1, <1>2, <1>3, <1>4, <1>5, <1>6, <1>7, <1>8, <1>9 DEF Next, Tab

\* Everything the choice of a checkpoint rests on.
RecoverInv ==
    /\ TypeOK /\ SaveInv /\ LineageInv /\ CleanInv
    /\ RowInv /\ ManifestInv /\ ListInv /\ FinalInv /\ RecoveryIsFaithful

LEMMA InitRecovers == TypeOK /\ Init => RecoverInv
<1> SUFFICES ASSUME TypeOK, Init PROVE RecoverInv
  OBVIOUS
<1>1. SaveInv /\ LineageInv /\ CleanInv
  BY DEF Init, SaveInv, Kept, Fresh, OpenIsUncleaned, LineageInv, LineageIsUnbroken, CleanInv
<1>2. RowInv
  <2>1. \A i \in Saves : ~(i < step)
    BY SavesFacts DEF Init, Saves
  <2>2. \A i \in Saves : revision[i] = 0 /\ revision[i] <= Cardinality(Rows(Pipeline[i]))
    BY RowsFinite DEF Init
  <2>3. QED
    BY <2>1, <2>2 DEF Init, RowInv
<1>3. ManifestInv /\ ListInv /\ FinalInv /\ RecoveryIsFaithful
  BY DEF Init, ManifestInv, ListInv, FinalInv, RecoveryIsFaithful, Before
<1>4. QED
  BY <1>1, <1>2, <1>3 DEF RecoverInv

LEMMA NextRecovers == TypeInv /\ RecoverInv /\ [Next]_vars => TypeOK' /\ RecoverInv'
<1> SUFFICES ASSUME TypeInv, RecoverInv, [Next]_vars PROVE TypeOK' /\ RecoverInv'
  OBVIOUS
<1>1. TypeOK /\ SaveInv /\ LineageInv /\ CleanInv /\ RowInv /\ ManifestInv /\ ListInv
      /\ FinalInv /\ RecoveryIsFaithful
  BY DEF RecoverInv
<1>2. TypeOK'
  BY NextTyped DEF TypeInv
<1>3. SaveInv' /\ LineageInv' /\ CleanInv'
  BY <1>1, NextSaves, NextLineage, NextCleans
<1>4. RowInv' /\ ManifestInv' /\ ListInv' /\ FinalInv'
  BY <1>1, NextRows, NextManifest, NextList, NextFinal
<1>5. RecoveryIsFaithful'
  BY <1>1, NextFaithful
<1>6. QED
  BY <1>2, <1>3, <1>4, <1>5 DEF RecoverInv

LEMMA RecoverInvariant == Spec => []RecoverInv
<1>1. Init => RecoverInv
  BY InitTyped, InitRecovers
<1>2. TypeInv /\ RecoverInv /\ [Next]_vars => RecoverInv'
  BY NextRecovers
<1>3. QED
  BY <1>1, <1>2, TypeInvariant, PTL DEF Spec

\* What recovery chooses of a kind is no older than the last save of that kind
\* that was answered with 201, while no handler outlives its connection; and
\* before the deadline it fails only once the run has been cleaned, while its own
\* requests go through and no COMMIT reply is lost.
THEOREM RecoveryFaithful == Spec => []RecoveryIsFaithful
<1>1. RecoverInv => RecoveryIsFaithful
  BY DEF RecoverInv
<1>2. QED
  BY <1>1, RecoverInvariant, PTL

\* The run is completed only by the tab that shows its report, and when the final
\* report was saved, it is that one which is shown, after any number of reloads.
THEOREM FinalStaysFinal == Spec => CompletedAsFinal
<1>1. TypeOK /\ RecoverInv /\ [Next]_vars
      => (run # "completed" /\ run' = "completed" /\ Len(Pipeline) \in told
            => shown = "final")
  <2> SUFFICES ASSUME TypeOK, RecoverInv, [Next]_vars, run # "completed",
                      run' = "completed", Len(Pipeline) \in told
               PROVE  shown = "final"
    OBVIOUS
  <2>1. FinalInv /\ shown \in Reports
    BY DEF RecoverInv, TypeOK
  <2>2. CASE Acknowledge
    BY <2>1, <2>2 DEF Acknowledge, FinalInv
  <2>3. CASE Effect
    <3>1. pc = "shown" /\ run = "ready_for_delivery"
      BY <2>3 DEF Effect, Complete
    <3>2. QED
      BY <2>1, <3>1 DEF FinalInv, Reports, Open
  <2>4. ~(Tab /\ ~Acknowledge /\ ~Effect)
    BY DEF Tab, Post, Answered, PipelineFails, MarkReady, Keep, Reload, ReadRun,
       List, Load, server
  <2>5. ~(\E k \in Saves : Handler(k))
    BY HandlerOwn DEF server
  <2>6. ~(EndRun \/ Purge \/ Verify \/ Deadline \/ Lapse \/ UNCHANGED vars)
    BY DEF EndRun, Purge, Verify, Deadline, Lapse, vars, server
  <2>7. QED
    BY <2>2, <2>3, <2>4, <2>5, <2>6 DEF Next
<1>2. TypeInv => TypeOK
  BY DEF TypeInv
<1>3. QED
  BY <1>1, <1>2, TypeInvariant, RecoverInvariant, PTL DEF Spec, CompletedAsFinal

-----------------------------------------------------------------------------
(* The contract of the run *)

\* What a step that leaves both stores alone may do to the run.
LEMMA PhaseMoves ==
  ASSUME UNCHANGED <<index, manifest, tombstone>>,
         clean' = "verified" <=> clean = "verified",
         \/ run' = run
         \/ run = "active" /\ run' \in {"recovery_required", "ready_for_delivery"}
         \/ run' \notin Open
  PROVE  [Contract!Next]_(Contract!contractVars)
<1> USE DEF Open, Contract!contractVars, Contract!Next, Contract!Move,
            Contract!Phases, Contract!Recording
<1>1. CASE run' = run
  BY <1>1
<1>2. CASE run = "active" /\ run' = "recovery_required"
  BY <1>2 DEF Contract!Suspend
<1>3. CASE run = "active" /\ run' = "ready_for_delivery"
  BY <1>3 DEF Contract!Ready
<1>4. CASE run' \notin Open
  BY <1>4 DEF Contract!End
<1>5. QED
  BY <1>1, <1>2, <1>3, <1>4

\* The tab moves the run and leaves the stores to the handlers.
LEMMA TabKeepsContract ==
  ASSUME TypeOK, RecoverInv, Tab PROVE [Contract!Next]_(Contract!contractVars)
<1>1. UNCHANGED <<index, manifest, tombstone>>
  BY DEF Tab, Post, Answered, PipelineFails, MarkReady, Keep, Acknowledge,
     Effect, Reload, ReadRun, List, Load, store, server
<1>2. Usable => clean = "none"
  BY DEF RecoverInv, SaveInv, OpenIsUncleaned
<1>3. CASE PipelineFails
  <2>1. /\ clean' = "verified" <=> clean = "verified"
        /\ run' = run \/ (run = "active" /\ run' = "recovery_required")
           \/ run' = "failed"
    BY <1>2, <1>3 DEF PipelineFails, Taking, Usable
  <2>2. QED
    BY <1>1, <2>1, PhaseMoves DEF Open
<1>4. CASE MarkReady
  BY <1>1, <1>4, PhaseMoves DEF MarkReady
<1>5. CASE Acknowledge \/ Effect
  <2>1. /\ clean' = "verified" <=> clean = "verified"
        /\ run' = run \/ run' = "completed"
    BY <1>5 DEF Acknowledge, Effect, Complete
  <2>2. QED
    BY <1>1, <2>1, PhaseMoves DEF Open
<1>6. CASE Post \/ Answered \/ Keep \/ Reload \/ ReadRun \/ List \/ Load
  <2>1. UNCHANGED <<run, clean>>
    BY <1>6 DEF Post, Answered, Keep, Reload, ReadRun, List, Load, server
  <2>2. QED
    BY <1>1, <2>1, PhaseMoves
<1>7. QED
  BY <1>3, <1>4, <1>5, <1>6 DEF Tab

\* A handler writes under the tombstone's eye, and records under the run's lock.
LEMMA HandlerKeepsContract ==
  ASSUME TypeOK, NEW i \in Saves, Handler(i)
  PROVE  [Contract!Next]_(Contract!contractVars)
<1>0. UNCHANGED <<tombstone, run, clean>>
  BY HandlerOwn DEF server
<1> USE <1>0 DEF Contract!contractVars, Contract!Next
<1>1. CASE SetValue(i)
  <2>1. \/ ~tombstone /\ index' = index \cup {i} /\ UNCHANGED manifest
        \/ UNCHANGED <<index, manifest>>
    BY <1>1 DEF SetValue
  <2>2. QED
    BY <2>1 DEF Contract!Write
<1>2. CASE Commit(i)
  <2>1. \/ Usable /\ manifest' = manifest \cup {i} /\ UNCHANGED index
        \/ UNCHANGED <<index, manifest>>
    BY <1>2 DEF Commit, Accepts, Taking
  <2>2. QED
    BY <2>1 DEF Contract!Record, Contract!Recording, Usable, Open
<1>3. CASE Unindex(i)
  <2>1. index' \in SUBSET index /\ UNCHANGED manifest
    BY <1>3 DEF Unindex
  <2>2. QED
    BY <2>1 DEF Contract!Lose
<1>4. CASE Admit(i) \/ Delete(i) \/ Crash(i)
  <2>1. UNCHANGED <<index, manifest>>
    BY <1>4 DEF Admit, Delete, Crash
  <2>2. QED
    BY <2>1
<1>5. QED
  BY <1>1, <1>2, <1>3, <1>4 DEF Handler

\* Only an ended run is purged, and only a purged one is verified.
LEMMA CleanupKeepsContract ==
  ASSUME TypeOK, RecoverInv, EndRun \/ Purge \/ Verify \/ Deadline \/ Lapse
  PROVE  [Contract!Next]_(Contract!contractVars)
<1>1. CASE EndRun
  BY <1>1, PhaseMoves DEF EndRun, store, Open
<1>2. CASE Purge
  <2>1. run \notin Open
    BY <1>2 DEF Purge, RecoverInv, ManifestInv
  <2>2. /\ tombstone' = TRUE /\ index' = {} /\ UNCHANGED <<manifest, run>>
        /\ clean' # "verified" /\ clean # "verified"
    BY <1>2 DEF Purge
  <2>3. QED
    BY <2>1, <2>2 DEF Contract!Seal, Contract!Next
<1>3. CASE Verify
  <2>1. tombstone
    BY <1>3 DEF Verify, RecoverInv, CleanInv
  <2>2. /\ manifest' = {} /\ clean' = "verified"
        /\ UNCHANGED <<index, tombstone, run>>
    BY <1>3 DEF Verify
  <2>3. QED
    BY <2>1, <2>2 DEF Contract!Verify, Contract!Next
<1>4. CASE Deadline
  BY <1>4, PhaseMoves DEF Deadline, store
<1>5. CASE Lapse
  <2>1. index' \in SUBSET index /\ UNCHANGED <<manifest, tombstone, run, clean>>
    BY <1>5 DEF Lapse, server
  <2>2. QED
    BY <2>1 DEF Contract!Lose, Contract!Next
<1>6. QED
  BY <1>1, <1>2, <1>3, <1>4, <1>5

\* The checkpoints of a run keep its contract, for every pipeline and every
\* number of reloads and faults: written only until the run is sealed, recorded
\* only while it goes on, sealed only when it is over.
THEOREM DeliveryKeepsContract == Spec => KeepsContract
<1>1. Init => Contract!Init
  BY DEF Init, Contract!Init, Open
<1>2. TypeOK /\ RecoverInv /\ [Next]_vars => [Contract!Next]_(Contract!contractVars)
  <2> SUFFICES ASSUME TypeOK, RecoverInv, [Next]_vars
               PROVE  [Contract!Next]_(Contract!contractVars)
    OBVIOUS
  <2>1. CASE UNCHANGED vars
    BY <2>1, PhaseMoves DEF vars, store, server
  <2>2. QED
    BY <2>1, TabKeepsContract, HandlerKeepsContract, CleanupKeepsContract DEF Next
<1>3. TypeInv => TypeOK
  BY DEF TypeInv
<1>4. QED
  BY <1>1, <1>2, <1>3, TypeInvariant, RecoverInvariant, PTL
  DEF Spec, KeepsContract, Contract!Spec

=============================================================================
