--------------------------- MODULE CatalogueProofs --------------------------
(* Theorems about Catalogue, for any number of definitions, administrators,    *)
(* sweeps and saves.                                                           *)
EXTENDS Catalogue, FiniteSetTheorems, SequenceTheorems, TLAPS

(* The types of the rows, and of what a request or a sweep remembers.          *)
Definition == [recurs : BOOLEAN, active : BOOLEAN, archived : BOOLEAN, nextDue : Nat,
               scheduledAs : BOOLEAN, overlapped : BOOLEAN]
Instance == [def : Definitions, scheduledFor : Nat, auto : BOOLEAN, open : BOOLEAN,
             version : Nat]
Config == [cap : Caps, base : Nat, copied : Nat]

Archiving     == [at : {"ARCHIVING"}, def : Definitions]
Reactivating  == [at : {"REACTIVATING"}, def : Definitions, recurs : BOOLEAN]
Replacing     == [at : {"REPLACING"}, def : Definitions, seen : SUBSET Nat]
Materializing == [at : {"MATERIALIZING"}, def : Definitions, open : Nat, version : Nat]
Editing       == [at : {"EDITING"}, expected : Nat]
Saving        == [at : {"SAVING"}, version : Nat, values : Config]
Complete      == [at : {"COMPLETING"}, occurrence : Nat, recurs : BOOLEAN, day : Nat]
Call == {Free} \cup Archiving \cup Reactivating \cup Replacing \cup Materializing
           \cup Editing \cup Saving \cup Complete

Scanned == [at : {"SCANNED"}, todo : SUBSET Definitions, read : [Definitions -> Definition],
            def : Definitions \cup {Nobody}, open : Nat, cap : Nat]
Counted == [at : {"COUNTED"}, todo : SUBSET Definitions, read : [Definitions -> Definition],
            def : Definitions, open : Nat, cap : Nat]
Sweeping == Scanned \cup Counted

TypeInv ==
    /\ today \in Nat /\ edits \in Nat
    /\ defs \in [Definitions -> Definition]
    /\ instances \in Seq(Instance)
    /\ rules \in [Definitions -> SUBSET Nat]
    /\ configs \in Seq(Config) /\ Len(configs) \in Nat \ {0}
    /\ calls \in [Calls -> Call]
    /\ sweeps \in [Sweeps -> {Resting} \cup Sweeping]

(* A request that has come to a point remembers what it needs there.           *)
LEMMA CallShapes ==
    ASSUME TypeInv, NEW c \in Calls
    PROVE  /\ calls[c].at = "ARCHIVING" => calls[c] \in Archiving
           /\ calls[c].at = "REACTIVATING" => calls[c] \in Reactivating
           /\ calls[c].at = "REPLACING" => calls[c] \in Replacing
           /\ calls[c].at = "MATERIALIZING" => calls[c] \in Materializing
           /\ calls[c].at = "EDITING" => calls[c] \in Editing
           /\ calls[c].at = "SAVING" => calls[c] \in Saving
           /\ calls[c].at = "COMPLETING" => calls[c] \in Complete
<1>1. calls[c] \in Call
  BY DEF TypeInv
<1> QED  BY <1>1 DEF Call, Free, Archiving, Reactivating, Replacing, Materializing, Editing, Saving,
                        Complete

LEMMA SweepShapes ==
    ASSUME TypeInv, NEW s \in Sweeps
    PROVE  /\ sweeps[s].at = "SCANNED" => sweeps[s] \in Scanned
           /\ sweeps[s].at = "COUNTED" => sweeps[s] \in Counted
<1>1. sweeps[s] \in {Resting} \cup Sweeping
  BY DEF TypeInv
<1> QED  BY <1>1 DEF Resting, Sweeping, Scanned, Counted

(* The rows a count is about are finitely many.                                *)
LEMMA Counts ==
    ASSUME TypeInv, NEW d \in Definitions
    PROVE  /\ IsFiniteSet({i \in DOMAIN instances : instances[i].def = d /\ instances[i].open})
           /\ OpenOf(d) \in Nat
           /\ Current \in Nat \ {0} /\ Current \in DOMAIN configs
           /\ configs[Current] \in Config
<1>1. IsFiniteSet(1 .. Len(instances)) /\ DOMAIN instances = 1 .. Len(instances)
  BY FS_Interval DEF TypeInv
<1>2. IsFiniteSet({i \in DOMAIN instances : instances[i].def = d /\ instances[i].open})
  BY <1>1, FS_Subset
<1>3. OpenOf(d) \in Nat
  BY <1>2, FS_CardinalityType DEF OpenOf
<1>4. Current \in Nat \ {0} /\ Current \in DOMAIN configs /\ configs[Current] \in Config
  BY DEF TypeInv, Current
<1> QED  BY <1>2, <1>3, <1>4

(* What creating and closing do to the occurrences.                            *)
LEMMA Created ==
    ASSUME TypeInv, NEW x \in Instance, instances' = Append(instances, x)
    PROVE  /\ instances' \in Seq(Instance)
           /\ Len(instances') = Len(instances) + 1 /\ Len(instances) \in Nat
           /\ DOMAIN instances = 1 .. Len(instances)
           /\ DOMAIN instances' = 1 .. (Len(instances) + 1)
           /\ \A i \in DOMAIN instances : instances'[i] = instances[i]
           /\ instances'[Len(instances) + 1] = x
BY DEF TypeInv

Closed(i) == instances' = [instances EXCEPT ![i].open = FALSE]

LEMMA ClosedOne ==
    ASSUME TypeInv, NEW i \in DOMAIN instances, Closed(i)
    PROVE  /\ instances' \in Seq(Instance)
           /\ DOMAIN instances' = DOMAIN instances
           /\ \A j \in DOMAIN instances :
                 instances'[j] = IF j = i THEN [instances[i] EXCEPT !.open = FALSE]
                                 ELSE instances[j]
           /\ instances[i] \in Instance
<1>1. i \in 1 .. Len(instances) /\ DOMAIN instances = 1 .. Len(instances)
  BY DEF TypeInv
<1>2. instances[i] \in Instance
  BY <1>1, ElementOfSeq DEF TypeInv
<1> DEFINE x == [instances[i] EXCEPT !.open = FALSE]
<1>3. x \in Instance
  BY <1>2 DEF Instance
<1>4. instances' = [instances EXCEPT ![i] = x]
  BY DEF Closed
<1> HIDE DEF x
<1>5. /\ instances' \in Seq(Instance) /\ Len(instances') = Len(instances)
      /\ \A j \in 1 .. Len(instances) : instances'[j] = IF j = i THEN x ELSE instances[j]
  BY <1>1, <1>3, <1>4, ExceptSeq DEF TypeInv
<1>6. DOMAIN instances' = 1 .. Len(instances')
  BY <1>5, LenProperties
<1> QED  BY <1>1, <1>2, <1>5, <1>6 DEF x

(* What a request does to the memory of the requests.                          *)
LEMMA CallsType ==
    ASSUME TypeInv, NEW c \in Calls, NEW r \in Call, calls' = [calls EXCEPT ![c] = r]
    PROVE  calls' \in [Calls -> Call]
BY DEF TypeInv

LEMMA ReplyType ==
    ASSUME TypeInv, NEW c \in Calls, Reply(c)
    PROVE  calls' \in [Calls -> Call]
BY DEF TypeInv, Reply, Call

LEMMA AdvanceType ==
    ASSUME TypeInv, NEW s \in Sweeps, NEW d, sweeps[s] \in Sweeping, Advance(s, d)
    PROVE  sweeps' \in [Sweeps -> {Resting} \cup Sweeping]
<1> DEFINE w == IF sweeps[s].todo = {d} THEN Resting
                ELSE [sweeps[s] EXCEPT !.at = "SCANNED", !.todo = sweeps[s].todo \ {d}]
<1>1. sweeps' = [sweeps EXCEPT ![s] = w]
  BY DEF Advance
<1>2. w \in {Resting} \cup Sweeping
  <2>1. CASE sweeps[s].todo = {d}
    BY <2>1
  <2>2. CASE sweeps[s].todo # {d}
    <3>1. w \in Scanned
      BY <2>2 DEF Sweeping, Scanned, Counted
    <3> HIDE DEF w
    <3> QED  BY <3>1 DEF Sweeping
  <2> QED  BY <2>1, <2>2
<1> HIDE DEF w
<1> QED  BY <1>1, <1>2 DEF TypeInv

(* What a completion leaves in the row of its definition.                      *)
Rescheduled(row, r) ==
    [row EXCEPT !.nextDue = NextOccurrence(r.recurs, r.day), !.scheduledAs = r.recurs,
                !.overlapped = row.overlapped \/ r.day # today]

LEMMA CompletedRow ==
    ASSUME TypeInv, NEW c \in Calls, NEW i \in DOMAIN instances, CompleteCommit(c, i)
    PROVE  /\ calls[c] \in Complete /\ instances[i].def \in Definitions
           /\ defs' \in [Definitions -> Definition]
           /\ \A d \in Definitions :
                 defs'[d] = IF d = instances[i].def THEN Rescheduled(defs[d], calls[c])
                            ELSE defs[d]
<1> DEFINE e == instances[i].def
           new == Rescheduled(defs[e], calls[c])
<1>1. calls[c] \in Complete /\ e \in Definitions /\ defs \in [Definitions -> Definition]
  <2>1. calls[c] \in Complete
    BY CallShapes DEF CompleteCommit, Completing
  <2>2. instances[i] \in Instance
    BY ElementOfSeq, LenProperties DEF TypeInv
  <2> QED  BY <2>1, <2>2 DEF TypeInv, Instance
<1>2. defs' = [defs EXCEPT ![e] = new]
  BY <1>1 DEF CompleteCommit, Rescheduled
<1>3. new \in Definition
  <2>1. calls[c].recurs \in BOOLEAN /\ calls[c].day \in Nat /\ defs[e] \in Definition
    BY <1>1 DEF Complete
  <2>2. NextOccurrence(calls[c].recurs, calls[c].day) \in Nat
    BY <2>1 DEF NextOccurrence, Never
  <2> QED  BY <2>1, <2>2 DEF Rescheduled, Definition
<1> HIDE DEF e, new
<1>4. /\ defs' \in [Definitions -> Definition]
      /\ \A d \in Definitions : defs'[d] = IF d = e THEN new ELSE defs[d]
  BY <1>1, <1>2, <1>3
<1> QED  BY <1>1, <1>4 DEF e, new

LEMMA TypeStep ==
    ASSUME TypeInv, [Next]_vars
    PROVE  TypeInv'
<1>1. ASSUME NEW d \in Definitions, NEW recurs \in BOOLEAN, NEW active \in BOOLEAN,
             EditDefinition(d, recurs, active)
      PROVE  TypeInv'
  <2> DEFINE row == [defs[d] EXCEPT !.recurs = recurs, !.active = active]
  <2>1. defs[d] \in Definition
    BY DEF TypeInv
  <2>2. row \in Definition
    BY <2>1 DEF Definition
  <2>3. defs' = [defs EXCEPT ![d] = row]
    BY <1>1, <2>1 DEF EditDefinition, TypeInv
  <2> HIDE DEF row
  <2>4. defs' \in [Definitions -> Definition]
    BY <2>2, <2>3 DEF TypeInv
  <2> QED  BY <1>1, <2>4 DEF EditDefinition, TypeInv
<1>2. ASSUME NEW c \in Calls, NEW d \in Definitions,
             ArchiveCheck(c, d) \/ ReactivateCheck(c, d) \/ ReplaceDelete(c, d)
             \/ MaterializeCheck(c, d)
      PROVE  TypeInv'
  <2>1. UNCHANGED <<today, defs, instances, rules, configs, edits, sweeps>>
    BY <1>2 DEF ArchiveCheck, ReactivateCheck, ReplaceDelete, MaterializeCheck
  <2>2. /\ [at |-> "ARCHIVING", def |-> d] \in Call
        /\ [at |-> "REACTIVATING", def |-> d, recurs |-> defs[d].recurs] \in Call
        /\ [at |-> "REPLACING", def |-> d, seen |-> rules[d]] \in Call
        /\ [at |-> "MATERIALIZING", def |-> d, open |-> OpenOf(d), version |-> Current] \in Call
    <3>1. [at |-> "ARCHIVING", def |-> d] \in Archiving
      BY DEF Archiving
    <3>2. [at |-> "REACTIVATING", def |-> d, recurs |-> defs[d].recurs] \in Reactivating
      BY DEF Reactivating, TypeInv, Definition
    <3>3. [at |-> "REPLACING", def |-> d, seen |-> rules[d]] \in Replacing
      BY DEF Replacing, TypeInv
    <3>4. [at |-> "MATERIALIZING", def |-> d, open |-> OpenOf(d), version |-> Current]
             \in Materializing
      BY Counts DEF Materializing
    <3> QED  BY <3>1, <3>2, <3>3, <3>4 DEF Call
  <2>3. calls' \in [Calls -> Call]
    BY <1>2, <2>2, CallsType DEF ArchiveCheck, ReactivateCheck, ReplaceDelete, MaterializeCheck
  <2> QED  BY <2>1, <2>3 DEF TypeInv
<1>3. ASSUME NEW c \in Calls, ArchiveWrite(c)
      PROVE  TypeInv'
  <2>1. calls[c] \in Archiving /\ calls' \in [Calls -> Call]
    BY <1>3, CallShapes, ReplyType DEF ArchiveWrite
  <2>2. calls[c].def \in Definitions
    BY <2>1 DEF Archiving
  <2>3. defs' \in [Definitions -> Definition]
    BY <1>3, <2>2 DEF ArchiveWrite, TypeInv, Definition, Never
  <2> QED  BY <1>3, <2>1, <2>3 DEF ArchiveWrite, TypeInv
<1>4. ASSUME NEW c \in Calls, ReactivateWrite(c)
      PROVE  TypeInv'
  <2>1. calls[c] \in Reactivating /\ calls' \in [Calls -> Call]
    BY <1>4, CallShapes, ReplyType DEF ReactivateWrite
  <2>2. calls[c].def \in Definitions /\ calls[c].recurs \in BOOLEAN
    BY <2>1 DEF Reactivating
  <2>3. ScheduleFromNow(calls[c].recurs) \in Nat
    BY DEF ScheduleFromNow, NextOccurrence, Never, TypeInv
  <2>4. defs' \in [Definitions -> Definition]
    BY <1>4, <2>2, <2>3 DEF ReactivateWrite, TypeInv, Definition
  <2> QED  BY <1>4, <2>1, <2>4 DEF ReactivateWrite, TypeInv
<1>5. ASSUME NEW c \in Calls, ReplaceCommit(c)
      PROVE  TypeInv'
  <2>1. calls[c] \in Replacing /\ calls' \in [Calls -> Call]
    BY <1>5, CallShapes, ReplyType DEF ReplaceCommit
  <2>2. rules' \in [Definitions -> SUBSET Nat]
    BY <1>5, <2>1 DEF ReplaceCommit, Replaced, Replacing, TypeInv
  <2> QED  BY <1>5, <2>1, <2>2 DEF ReplaceCommit, TypeInv
<1>6. ASSUME NEW c \in Calls, MaterializeCreate(c)
      PROVE  TypeInv'
  <2>1. calls[c] \in Materializing /\ calls' \in [Calls -> Call]
    BY <1>6, CallShapes, ReplyType DEF MaterializeCreate
  <2>2. [NewInstance(calls[c].def, today, FALSE) EXCEPT !.version = calls[c].version] \in Instance
    BY <2>1 DEF NewInstance, Instance, Materializing, TypeInv
  <2>3. instances' \in Seq(Instance)
    BY <1>6, <2>2 DEF MaterializeCreate, TypeInv
  <2> QED  BY <1>6, <2>1, <2>3 DEF MaterializeCreate, TypeInv
<1>7. ASSUME NEW i \in DOMAIN instances, Close(i)
      PROVE  TypeInv'
  <2>1. instances' \in Seq(Instance)
    BY <1>7, ClosedOne DEF Close, Closed
  <2> QED  BY <1>7, <2>1 DEF Close, TypeInv
<1>16. ASSUME NEW c \in Calls, NEW i \in DOMAIN instances, CompleteStart(c, i)
       PROVE  TypeInv'
  <2> DEFINE d == instances[i].def
             r == [at |-> "COMPLETING", occurrence |-> i, recurs |-> defs[d].recurs,
                   day |-> today]
  <2>1. d \in Definitions /\ i \in Nat
    <3>1. instances[i] \in Instance /\ i \in 1 .. Len(instances)
      BY ElementOfSeq, LenProperties DEF TypeInv
    <3> QED  BY <3>1, LenProperties DEF TypeInv, Instance
  <2>2. defs[d].recurs \in BOOLEAN /\ today \in Nat
    BY <2>1 DEF TypeInv, Definition
  <2>3. r \in Call
    BY <2>1, <2>2 DEF Complete, Call
  <2>4. calls' = [calls EXCEPT ![c] = r]
    BY <1>16 DEF CompleteStart
  <2> HIDE DEF r
  <2>5. calls' \in [Calls -> Call]
    BY <2>3, <2>4, CallsType
  <2> QED  BY <1>16, <2>5 DEF CompleteStart, TypeInv
<1>17. ASSUME NEW c \in Calls, NEW i \in DOMAIN instances, CompleteCommit(c, i)
       PROVE  TypeInv'
  <2>1. calls[c] \in Complete /\ calls' \in [Calls -> Call]
    BY <1>17, CallShapes, ReplyType DEF CompleteCommit, Completing
  <2>2. instances' \in Seq(Instance)
    BY <1>17, ClosedOne DEF CompleteCommit, Closed
  <2>3. defs' \in [Definitions -> Definition]
    BY <1>17, CompletedRow
  <2> QED  BY <1>17, <2>1, <2>2, <2>3 DEF CompleteCommit, TypeInv
<1>8. ASSUME NEW c \in Calls, OpenForm(c)
      PROVE  TypeInv'
  <2>1. [at |-> "EDITING", expected |-> Current] \in Editing
    BY DEF Editing, Current, TypeInv
  <2>2. calls' \in [Calls -> Call]
    BY <1>8, <2>1, CallsType DEF OpenForm, Call
  <2> QED  BY <1>8, <2>2 DEF OpenForm, TypeInv
<1>9. ASSUME NEW c \in Calls, NEW cap \in Caps, SaveCheck(c, cap)
      PROVE  TypeInv'
  <2>1. calls[c] \in Editing
    BY <1>9, CallShapes DEF SaveCheck
  <2>2. [at |-> "SAVING", version |-> Current + 1,
         values |-> [cap |-> cap, base |-> calls[c].expected, copied |-> 0]] \in Saving
    BY <2>1 DEF Saving, Config, Editing, Current, TypeInv
  <2>3. calls' \in [Calls -> Call]
    BY <1>9, <2>2, CallsType, ReplyType DEF SaveCheck, Call
  <2> QED  BY <1>9, <2>3 DEF SaveCheck, TypeInv
<1>10. ASSUME NEW c \in Calls, NEW v \in DOMAIN configs, RollbackCheck(c, v)
       PROVE  TypeInv'
  <2>1. [at |-> "SAVING", version |-> Current + 1,
         values |-> [cap |-> configs[v].cap, base |-> Current, copied |-> v]] \in Saving
    <3>1. configs[v] \in Config /\ v \in Nat /\ Current \in Nat
      BY ElementOfSeq, Counts DEF TypeInv, Current
    <3> QED  BY <3>1 DEF Saving, Config
  <2>2. calls' \in [Calls -> Call]
    BY <1>10, <2>1, CallsType DEF RollbackCheck, Call
  <2> QED  BY <1>10, <2>2 DEF RollbackCheck, TypeInv
<1>11. ASSUME NEW c \in Calls, SaveInsert(c)
       PROVE  TypeInv'
  <2>1. calls[c] \in Saving /\ calls' \in [Calls -> Call]
    BY <1>11, CallShapes, ReplyType DEF SaveInsert
  <2>2. calls[c].values \in Config
    BY <2>1 DEF Saving
  <2>3. configs' \in Seq(Config) /\ Len(configs') \in Nat \ {0}
    BY <1>11, <2>2 DEF SaveInsert, TypeInv
  <2> QED  BY <1>11, <2>1, <2>3 DEF SaveInsert, TypeInv
<1>12. ASSUME NEW s \in Sweeps, SweepStart(s)
       PROVE  TypeInv'
  <2> DEFINE w == [at |-> "SCANNED", todo |-> {d \in Definitions : Due(d)},
                   read |-> defs, def |-> Nobody, open |-> 0, cap |-> 0]
  <2>1. w \in Scanned
    BY DEF Scanned, TypeInv
  <2>2. sweeps' = [sweeps EXCEPT ![s] = w]
    BY <1>12 DEF SweepStart
  <2> HIDE DEF w
  <2>3. sweeps' \in [Sweeps -> {Resting} \cup Sweeping]
    BY <2>1, <2>2 DEF TypeInv, Sweeping
  <2> QED  BY <1>12, <2>3 DEF SweepStart, TypeInv
<1>13. ASSUME NEW s \in Sweeps, NEW d \in Definitions, SweepCount(s, d)
       PROVE  TypeInv'
  <2>1. sweeps[s] \in Scanned
    BY <1>13, SweepShapes DEF SweepCount
  <2>2. configs[Current].cap \in Nat /\ OpenOf(d) \in Nat
    BY Counts, CatalogueAssumption DEF Config
  <2> DEFINE w == [sweeps[s] EXCEPT !.at = "COUNTED", !.def = d, !.open = OpenOf(d),
                                    !.cap = configs[Current].cap]
  <2>3. w \in Counted
    BY <2>1, <2>2 DEF Scanned, Counted
  <2>4. sweeps' = [sweeps EXCEPT ![s] = w] \/ Advance(s, d)
    BY <1>13 DEF SweepCount
  <2> HIDE DEF w
  <2>5. sweeps' \in [Sweeps -> {Resting} \cup Sweeping]
    <3>1. CASE Advance(s, d)
      BY <2>1, <3>1, AdvanceType DEF Sweeping
    <3>2. CASE sweeps' = [sweeps EXCEPT ![s] = w]
      BY <2>3, <3>2 DEF TypeInv, Sweeping
    <3> QED  BY <2>4, <3>1, <3>2
  <2> QED  BY <1>13, <2>5 DEF SweepCount, TypeInv
<1>14. ASSUME NEW s \in Sweeps, SweepCreate(s)
       PROVE  TypeInv'
  <2>1. sweeps[s] \in Counted
    BY <1>14, SweepShapes DEF SweepCreate
  <2> DEFINE d == sweeps[s].def
             row == sweeps[s].read[d]
  <2>2. d \in Definitions /\ row \in Definition
    BY <2>1 DEF Counted
  <2>3. NewInstance(d, row.nextDue, TRUE) \in Instance /\ NextAfterSweep(row) \in Nat
    <3>1. row.nextDue \in Nat /\ row.recurs \in BOOLEAN
      BY <2>2 DEF Definition
    <3>2. NextAfterSweep(row) \in Nat
      BY <3>1 DEF NextAfterSweep, NextOccurrence, Never
    <3>3. Current \in Nat
      BY <2>2, Counts
    <3> HIDE DEF d, row
    <3> QED  BY <2>2, <3>1, <3>2, <3>3 DEF NewInstance, Instance
  <2>4. instances' \in Seq(Instance)
    <3>1. instances' = Append(instances, NewInstance(d, row.nextDue, TRUE))
      BY <1>14 DEF SweepCreate
    <3> HIDE DEF d, row
    <3> QED  BY <2>3, <3>1, Created
  <2>5. defs' \in [Definitions -> Definition]
    <3> DEFINE was == defs[d]
               new == [was EXCEPT !.nextDue = NextAfterSweep(row), !.scheduledAs = row.recurs,
                         !.overlapped = was.overlapped \/ row.nextDue # was.nextDue]
    <3>1. defs' = [defs EXCEPT ![d] = new]
      BY <1>14, <2>2 DEF SweepCreate, TypeInv
    <3>2. was \in Definition
      BY <2>2 DEF TypeInv
    <3>3. row.recurs \in BOOLEAN
      BY <2>2 DEF Definition
    <3> HIDE DEF d, row, was
    <3>4. new \in Definition
      BY <2>3, <3>2, <3>3 DEF Definition
    <3> HIDE DEF new
    <3> QED  BY <2>2, <3>1, <3>4 DEF TypeInv
  <2>6. sweeps' \in [Sweeps -> {Resting} \cup Sweeping]
    BY <1>14, <2>1, AdvanceType DEF SweepCreate, Sweeping
  <2> QED  BY <1>14, <2>4, <2>5, <2>6 DEF SweepCreate, TypeInv
<1>15. CASE Midnight \/ Crash \/ UNCHANGED vars
  BY <1>15 DEF Midnight, Crash, vars, TypeInv, Call
<1> QED  BY <1>1, <1>2, <1>3, <1>4, <1>5, <1>6, <1>7, <1>8, <1>9, <1>10, <1>11, <1>12, <1>13,
            <1>14, <1>15, <1>16, <1>17 DEF Next

(* The types of rows, requests and sweeps hold in every history.               *)
THEOREM CatalogueTypes == Spec => []TypeInv
<1>1. ASSUME Init PROVE TypeInv
  <2>1. defs \in [Definitions -> Definition]
    BY <1>1 DEF Init, NewDefinition, NextOccurrence, Never, Definition
  <2>2. configs \in Seq(Config) /\ Len(configs) \in Nat \ {0}
    <3>1. configs = <<[cap |-> FirstCap, base |-> 0, copied |-> 0]>>
      BY <1>1 DEF Init
    <3>2. [cap |-> FirstCap, base |-> 0, copied |-> 0] \in Config
      BY CatalogueAssumption DEF Config
    <3> QED  BY <3>1, <3>2
  <2>3. instances \in Seq(Instance)
    BY <1>1 DEF Init
  <2> QED  BY <1>1, <2>1, <2>2, <2>3 DEF Init, TypeInv, Call
<1>2. TypeInv /\ [Next]_vars => TypeInv'
  BY TypeStep
<1> QED  BY <1>1, <1>2, PTL DEF Spec
-----------------------------------------------------------------------------
(* What a request remembers is still true of the versions when it acts: they   *)
(* are only appended to.                                                       *)
Remembers(c) ==
    /\ calls[c].at = "MATERIALIZING" =>
         /\ calls[c].version \in 1 .. Current
         /\ calls[c].open < configs[calls[c].version].cap
    /\ calls[c].at = "SAVING" =>
         LET new == calls[c].values IN
         /\ calls[c].version \in 1 .. (Current + 1) /\ new.base = calls[c].version - 1
         /\ new.copied # 0 =>
              new.copied < calls[c].version /\ new.cap = configs[new.copied].cap

VersionInv == EditsBuildOnWhatWasSeen /\ \A c \in Calls : Remembers(c)

(* A version is never changed, and at most one is added.                       *)
LEMMA VersionsStay ==
    ASSUME TypeInv, [Next]_vars
    PROVE  /\ Current \in Nat /\ Current' \in Nat /\ Current <= Current'
           /\ DOMAIN configs = 1 .. Current /\ DOMAIN configs' = 1 .. Current'
           /\ \A v \in 1 .. Current : configs'[v] = configs[v]
           /\ \/ configs' = configs
              \/ \E c \in Calls : SaveInsert(c) /\ calls[c].version = Current + 1
                    /\ configs' = Append(configs, calls[c].values)
<1>1. DOMAIN configs = 1 .. Current /\ Current \in Nat
  BY DEF TypeInv, Current
<1>2. CASE configs' = configs
  BY <1>1, <1>2 DEF Current
<1>3. ASSUME NEW c \in Calls, SaveInsert(c), configs' # configs
      PROVE  /\ calls[c].version = Current + 1
             /\ configs' = Append(configs, calls[c].values)
             /\ Current' = Current + 1 /\ DOMAIN configs' = 1 .. Current'
             /\ \A v \in 1 .. Current : configs'[v] = configs[v]
  <2>1. configs' = Append(configs, calls[c].values) /\ calls[c].version = Current + 1
    BY <1>3 DEF SaveInsert
  <2>2. calls[c].values \in Config
    BY <1>3, CallShapes DEF SaveInsert, Saving
  <2> QED  BY <2>1, <2>2 DEF TypeInv, Current
<1>4. configs' = configs \/ \E c \in Calls : SaveInsert(c)
  BY DEF Next, EditDefinition, ArchiveCheck, ArchiveWrite, ReactivateCheck, ReactivateWrite,
         ReplaceDelete, ReplaceCommit, MaterializeCheck, MaterializeCreate, OpenForm, SaveCheck,
         RollbackCheck, CompleteStart, CompleteCommit, Close, SweepStart, SweepCount,
         SweepCreate, Midnight, Crash, vars
<1> QED  BY <1>1, <1>2, <1>3, <1>4

(* The steps that create or close an occurrence.                               *)
LEMMA OccurrenceSteps ==
    ASSUME [Next]_vars
    PROVE  \/ instances' = instances
           \/ \E c \in Calls : MaterializeCreate(c)
           \/ \E s \in Sweeps : SweepCreate(s)
           \/ \E j \in DOMAIN instances : Closed(j)
BY DEF Next, Close, CompleteStart, CompleteCommit, Closed, EditDefinition, ArchiveCheck, ArchiveWrite, ReactivateCheck, ReactivateWrite,
       ReplaceDelete, ReplaceCommit, MaterializeCheck, OpenForm, SaveCheck, SaveInsert,
       RollbackCheck, SweepStart, SweepCount, Midnight, Crash, vars

LEMMA RemembersStep ==
    ASSUME TypeInv, VersionInv, [Next]_vars, NEW c \in Calls
    PROVE  Remembers(c)'
<1>1. /\ Current \in Nat /\ Current' \in Nat /\ Current <= Current'
      /\ \A v \in 1 .. Current : configs'[v] = configs[v]
  BY VersionsStay
<1>2. calls \in [Calls -> Call] /\ Remembers(c)
  BY DEF TypeInv, VersionInv
<1>3. CASE calls'[c] = calls[c]
  <2>1. calls[c].at = "SAVING" => calls[c] \in Saving /\ calls[c].values \in Config
    BY CallShapes DEF Saving
  <2>2. calls[c].at = "SAVING" => calls[c].values.copied \in Nat /\ calls[c].version \in Nat
    BY <2>1 DEF Saving, Config
  <2> QED  BY <1>1, <1>2, <1>3, <2>2 DEF Remembers
<1>4. CASE calls'[c].at \notin {"MATERIALIZING", "SAVING"}
  BY <1>4 DEF Remembers
<1>5. ASSUME Reply(c) \/ Crash PROVE Remembers(c)'
  BY <1>2, <1>4, <1>5 DEF Reply, Crash, Free
<1>6. ASSUME NEW d \in Calls, calls' = [calls EXCEPT ![d] = calls'[d]], d # c
      PROVE  Remembers(c)'
  BY <1>2, <1>3, <1>6
<1>7. ASSUME NEW d \in Definitions, MaterializeCheck(c, d)
      PROVE  Remembers(c)'
  <2>1. /\ calls'[c] = [at |-> "MATERIALIZING", def |-> d, open |-> OpenOf(d), version |-> Current]
        /\ OpenOf(d) < configs[Current].cap /\ Current' = Current /\ configs' = configs
    BY <1>2, <1>7 DEF MaterializeCheck, Fits, Current
  <2>2. Current \in Nat \ {0}
    BY Counts
  <2>3. Current \in 1 .. Current
    BY <2>2
  <2>4. configs'[Current] = configs[Current]
    BY <2>1
  <2>5. calls'[c].version = Current /\ calls'[c].open = OpenOf(d) /\ calls'[c].at = "MATERIALIZING"
    BY <2>1
  <2> QED  BY <2>1, <2>3, <2>4, <2>5 DEF Remembers
<1>8. ASSUME NEW cap \in Caps, SaveCheck(c, cap)
      PROVE  Remembers(c)'
  <2>1. CASE Reply(c)
    BY <1>5, <2>1
  <2>2. CASE ~Reply(c)
    <3>1. /\ calls[c].expected = Current /\ configs' = configs /\ Current' = Current
          /\ calls'[c] = [at |-> "SAVING", version |-> Current + 1,
                          values |-> [cap |-> cap, base |-> calls[c].expected, copied |-> 0]]
      BY <1>2, <1>8, <2>2 DEF SaveCheck, ExpectedIsCurrent, Current
    <3> QED  BY <1>1, <3>1 DEF Remembers
  <2> QED  BY <2>1, <2>2
<1>9. ASSUME NEW v \in DOMAIN configs, RollbackCheck(c, v)
      PROVE  Remembers(c)'
  <2>1. /\ configs' = configs /\ Current' = Current
        /\ calls'[c] = [at |-> "SAVING", version |-> Current + 1,
                        values |-> [cap |-> configs[v].cap, base |-> Current, copied |-> v]]
    BY <1>2, <1>9 DEF RollbackCheck, Current
  <2>2. v \in 1 .. Current
    BY VersionsStay
  <2> QED  BY <1>1, <2>1, <2>2 DEF Remembers
<1>10. CASE \E d \in Definitions :
               ArchiveCheck(c, d) \/ ReactivateCheck(c, d) \/ ReplaceDelete(c, d)
  BY <1>2, <1>4, <1>10 DEF ArchiveCheck, ReactivateCheck, ReplaceDelete
<1>11. CASE OpenForm(c) \/ \E i \in DOMAIN instances : CompleteStart(c, i)
  BY <1>2, <1>4, <1>11 DEF OpenForm, CompleteStart
<1>12. CASE \/ ArchiveWrite(c) \/ ReactivateWrite(c) \/ ReplaceCommit(c)
            \/ MaterializeCreate(c) \/ SaveInsert(c)
            \/ \E i \in DOMAIN instances : CompleteCommit(c, i)
  BY <1>5, <1>12 DEF ArchiveWrite, ReactivateWrite, ReplaceCommit, MaterializeCreate, SaveInsert,
                     CompleteCommit
<1>13. ASSUME NEW e \in Calls, e # c,
              \/ \E d \in Definitions : ArchiveCheck(e, d) \/ ReactivateCheck(e, d)
                    \/ ReplaceDelete(e, d) \/ MaterializeCheck(e, d)
              \/ ArchiveWrite(e) \/ ReactivateWrite(e) \/ ReplaceCommit(e)
              \/ MaterializeCreate(e) \/ SaveInsert(e) \/ OpenForm(e)
              \/ \E cap \in Caps : SaveCheck(e, cap)
              \/ \E v \in DOMAIN configs : RollbackCheck(e, v)
              \/ \E i \in DOMAIN instances : CompleteStart(e, i) \/ CompleteCommit(e, i)
       PROVE  Remembers(c)'
  BY <1>2, <1>3, <1>13
     DEF ArchiveCheck, ReactivateCheck, ReplaceDelete, MaterializeCheck, ArchiveWrite,
         ReactivateWrite, ReplaceCommit, MaterializeCreate, SaveInsert, OpenForm, SaveCheck,
         RollbackCheck, CompleteStart, CompleteCommit, Reply
<1>14. CASE UNCHANGED calls
  BY <1>3, <1>14
<1>15. ASSUME NEW s \in Sweeps,
              SweepStart(s) \/ SweepCreate(s) \/ \E d \in Definitions : SweepCount(s, d)
       PROVE  UNCHANGED calls
  BY <1>15 DEF SweepStart, SweepCreate, SweepCount
<1>16. (\/ \E d \in Definitions, recurs, active \in BOOLEAN : EditDefinition(d, recurs, active)
        \/ \E i \in DOMAIN instances : Close(i)
        \/ Midnight \/ UNCHANGED vars) => UNCHANGED calls
  BY DEF EditDefinition, Close, Midnight, vars
<1> QED  BY <1>5, <1>7, <1>8, <1>9, <1>10, <1>11, <1>12, <1>13, <1>14, <1>15, <1>16 DEF Next

LEMMA VersionStep ==
    ASSUME TypeInv, VersionInv, [Next]_vars
    PROVE  VersionInv'
<1>1. /\ Current \in Nat /\ Current' \in Nat /\ Current <= Current'
      /\ DOMAIN configs = 1 .. Current /\ DOMAIN configs' = 1 .. Current'
      /\ \A v \in 1 .. Current : configs'[v] = configs[v]
  BY VersionsStay
<1>2. ASSUME NEW v \in DOMAIN configs'
      PROVE  /\ configs'[v].base = v - 1
             /\ configs'[v].copied # 0 =>
                   /\ configs'[v].copied < v
                   /\ configs'[v].cap = configs'[configs'[v].copied].cap
  <2>1. CASE v \in 1 .. Current
    <3>1. configs[v] \in Config /\ v \in Nat
      BY <1>1, <2>1, ElementOfSeq DEF TypeInv, Current
    <3>2. configs[v].copied \in Nat
      BY <3>1 DEF Config
    <3>3. /\ configs[v].base = v - 1
          /\ configs[v].copied # 0 =>
                configs[v].copied < v /\ configs[v].cap = configs[configs[v].copied].cap
      BY <1>1, <2>1 DEF VersionInv, EditsBuildOnWhatWasSeen
    <3>4. configs[v].copied # 0 => configs[v].copied \in 1 .. Current
      BY <1>1, <2>1, <3>1, <3>2, <3>3
    <3> QED  BY <1>1, <2>1, <3>3, <3>4
  <2>2. CASE v \notin 1 .. Current
    <3>1. PICK c \in Calls : SaveInsert(c) /\ calls[c].version = Current + 1
                             /\ configs' = Append(configs, calls[c].values)
      BY <1>1, <2>2, VersionsStay
    <3>2. calls[c].at = "SAVING" /\ calls[c] \in Saving /\ calls[c].values \in Config
      BY <3>1, CallShapes DEF SaveInsert, Saving
    <3>3. v = Current + 1 /\ configs'[v] = calls[c].values
      BY <1>1, <2>2, <3>1, <3>2 DEF TypeInv, Current
    <3>4. calls[c].values.copied \in Nat
      BY <3>2 DEF Config
    <3>5. Remembers(c)
      BY DEF VersionInv
    <3> QED  BY <1>1, <3>1, <3>2, <3>3, <3>4, <3>5 DEF Remembers
  <2> QED  BY <2>1, <2>2
<1>3. ASSUME NEW i \in DOMAIN instances'
      PROVE  instances'[i].version \in DOMAIN configs'
  <2>1. \A j \in DOMAIN instances : instances[j].version \in 1 .. Current'
    BY <1>1 DEF VersionInv, EditsBuildOnWhatWasSeen
  <2>2. CASE instances' = instances
    BY <1>1, <1>3, <2>1, <2>2
  <2>3. ASSUME NEW x \in Instance, instances' = Append(instances, x),
               x.version \in 1 .. Current
        PROVE  instances'[i].version \in DOMAIN configs'
    <3>1. CASE i \in DOMAIN instances
      BY <1>1, <2>1, <2>3, <3>1, Created
    <3>2. CASE i \notin DOMAIN instances
      <4>1. i = Len(instances) + 1
        BY <1>3, <2>3, <3>2, Created
      <4> QED  BY <1>1, <2>3, <4>1, Created
    <3> QED  BY <3>1, <3>2
  <2>4. ASSUME NEW c \in Calls, MaterializeCreate(c)
        PROVE  instances'[i].version \in DOMAIN configs'
    <3> DEFINE x == [NewInstance(calls[c].def, today, FALSE) EXCEPT !.version = calls[c].version]
    <3>1. calls[c] \in Materializing /\ calls[c].version \in 1 .. Current
      BY <2>4, CallShapes DEF MaterializeCreate, VersionInv, Remembers
    <3>2. x \in Instance /\ x.version = calls[c].version
      BY <3>1 DEF NewInstance, Instance, Materializing, TypeInv
    <3>3. instances' = Append(instances, x)
      BY <2>4 DEF MaterializeCreate
    <3> HIDE DEF x
    <3> QED  BY <2>3, <3>1, <3>2, <3>3
  <2>5. ASSUME NEW s \in Sweeps, SweepCreate(s)
        PROVE  instances'[i].version \in DOMAIN configs'
    <3> DEFINE d == sweeps[s].def
               row == sweeps[s].read[d]
               x == NewInstance(d, row.nextDue, TRUE)
    <3>1. d \in Definitions /\ row \in Definition
      BY <2>5, SweepShapes DEF SweepCreate, Counted
    <3> HIDE DEF d, row
    <3>2. row.nextDue \in Nat /\ Current \in 1 .. Current
      BY <1>1, <3>1, Counts DEF Definition
    <3>3. x.version = Current /\ x \in Instance
      BY <3>1, <3>2 DEF NewInstance, Instance
    <3>4. instances' = Append(instances, x)
      BY <2>5 DEF SweepCreate, d, row
    <3> HIDE DEF x
    <3> QED  BY <2>3, <3>2, <3>3, <3>4
  <2>6. ASSUME NEW j \in DOMAIN instances, Closed(j)
        PROVE  instances'[i].version \in DOMAIN configs'
    <3>1. i \in DOMAIN instances /\ instances[j] \in Instance
          /\ \/ instances'[i] = instances[i]
             \/ /\ i = j
                /\ instances'[i] = [instances[i] EXCEPT !.open = FALSE]
      BY <1>3, <2>6, ClosedOne
    <3>2. instances'[i].version = instances[i].version
      BY <3>1 DEF Instance
    <3> QED  BY <1>1, <2>1, <3>1, <3>2
  <2> QED  BY <2>2, <2>4, <2>5, <2>6, OccurrenceSteps
<1> QED  BY <1>2, <1>3, RemembersStep DEF VersionInv, EditsBuildOnWhatWasSeen

LEMMA VersionsAlwaysHold == Spec => [](TypeInv /\ VersionInv)
<1>1. ASSUME Init, TypeInv PROVE VersionInv
  <2>1. configs = <<[cap |-> FirstCap, base |-> 0, copied |-> 0]>>
    BY <1>1 DEF Init
  <2>2. \A c \in Calls : calls[c] = Free
    BY <1>1 DEF Init
  <2>3. DOMAIN instances = {} /\ DOMAIN configs = {1}
    BY <1>1, <2>1 DEF Init
  <2> QED  BY <2>1, <2>2, <2>3 DEF VersionInv, EditsBuildOnWhatWasSeen, Remembers, Free
<1>2. TypeInv /\ VersionInv /\ [Next]_vars => VersionInv'
  BY VersionStep
<1> QED  BY <1>1, <1>2, CatalogueTypes, PTL DEF Spec

(* Whatever administrators save, roll back and materialize at the same time, a *)
(* version builds on the one its editor saw, a rollback is an exact copy, and  *)
(* every occurrence keeps the version it was created under (updateConfig.ts:   *)
(* the comparison and the unique key on the version number).                   *)
THEOREM EditsAlwaysBuildOnWhatWasSeen == Spec => []EditsBuildOnWhatWasSeen
<1>1. VersionInv => EditsBuildOnWhatWasSeen
  BY DEF VersionInv
<1> QED  BY <1>1, VersionsAlwaysHold, PTL
-----------------------------------------------------------------------------
(* A definition whose rule repeated when it was last scheduled, and that is not *)
(* archived, has a next due date.                                              *)
ScheduleInv ==
    \A d \in Definitions :
        ~defs[d].archived /\ defs[d].scheduledAs => defs[d].nextDue # Never

(* What the steps that write a definition leave in its row.                    *)
RowEdited(d) ==
    /\ \E recurs, active \in BOOLEAN : EditDefinition(d, recurs, active)
    /\ \E recurs, active \in BOOLEAN :
          defs'[d] = [defs[d] EXCEPT !.recurs = recurs, !.active = active]

RowArchived(d, c) ==
    /\ ArchiveWrite(c)
    /\ defs'[d] = [defs[d] EXCEPT !.archived = TRUE, !.active = FALSE, !.nextDue = Never]

RowReactivated(d, c) ==
    /\ ReactivateWrite(c) /\ calls[c] \in Reactivating
    /\ defs'[d] = [defs[d] EXCEPT !.archived = FALSE, !.active = TRUE,
                                  !.nextDue = ScheduleFromNow(calls[c].recurs),
                                  !.scheduledAs = calls[c].recurs]

RowSwept(d, s) ==
    /\ SweepCreate(s) /\ sweeps[s] \in Counted /\ sweeps[s].def = d
    /\ LET row == sweeps[s].read[d] IN
       defs'[d] = [defs[d] EXCEPT !.nextDue = NextAfterSweep(row), !.scheduledAs = row.recurs,
                      !.overlapped = defs[d].overlapped \/ row.nextDue # defs[d].nextDue]

RowCompleted(d, c) ==
    /\ calls[c] \in Complete /\ defs'[d] = Rescheduled(defs[d], calls[c])

LEMMA SweptRow ==
    ASSUME TypeInv, NEW s \in Sweeps, SweepCreate(s), NEW d \in Definitions
    PROVE  IF sweeps[s].def = d THEN RowSwept(d, s) ELSE defs'[d] = defs[d]
<1> DEFINE e == sweeps[s].def
           row == sweeps[s].read[e]
           new == [defs[e] EXCEPT !.nextDue = NextAfterSweep(row),
                      !.scheduledAs = row.recurs,
                      !.overlapped = defs[e].overlapped \/ row.nextDue # defs[e].nextDue]
<1>1. sweeps[s] \in Counted /\ e \in Definitions /\ defs \in [Definitions -> Definition]
  BY SweepShapes DEF SweepCreate, Counted, TypeInv
<1>2. defs' = [defs EXCEPT ![e] = new]
  BY <1>1 DEF SweepCreate
<1>3. CASE d = e
  <2>1. defs'[d] = new
    BY <1>1, <1>2, <1>3
  <2> QED  BY <1>1, <1>3, <2>1 DEF RowSwept
<1>4. CASE d # e
  <2> HIDE DEF new
  <2>1. defs'[d] = defs[d]
    BY <1>1, <1>2, <1>4
  <2> QED  BY <1>4, <2>1
<1> QED  BY <1>3, <1>4

LEMMA DefinitionSteps ==
    ASSUME TypeInv, [Next]_vars, NEW d \in Definitions
    PROVE  \/ defs'[d] = defs[d]
           \/ RowEdited(d)
           \/ \E c \in Calls : RowArchived(d, c) \/ RowReactivated(d, c) \/ RowCompleted(d, c)
           \/ \E s \in Sweeps : RowSwept(d, s)
<1>0. defs \in [Definitions -> Definition]
  BY DEF TypeInv
<1>1. ASSUME NEW e \in Definitions, NEW recurs \in BOOLEAN, NEW active \in BOOLEAN,
             EditDefinition(e, recurs, active), defs'[d] # defs[d]
      PROVE  RowEdited(d)
  <2>1. d = e /\ defs'[d] = [defs[d] EXCEPT !.recurs = recurs, !.active = active]
    BY <1>0, <1>1 DEF EditDefinition, Definition
  <2>2. EditDefinition(d, recurs, active)
    BY <1>1, <2>1
  <2> QED  BY <2>1, <2>2 DEF RowEdited
<1>2. ASSUME NEW c \in Calls, ArchiveWrite(c)
      PROVE  defs'[d] = defs[d] \/ RowArchived(d, c)
  <2> DEFINE row == [defs[calls[c].def] EXCEPT !.archived = TRUE, !.active = FALSE,
                                               !.nextDue = Never]
  <2>1. defs' = [defs EXCEPT ![calls[c].def] = row]
    BY <1>2 DEF ArchiveWrite
  <2>2. CASE d = calls[c].def
    <3>1. defs'[d] = row
      BY <1>0, <2>1, <2>2
    <3> QED  BY <1>2, <2>2, <3>1 DEF RowArchived
  <2>3. CASE d # calls[c].def
    <3> HIDE DEF row
    <3> QED  BY <1>0, <2>1, <2>3
  <2> QED  BY <2>2, <2>3
<1>3. ASSUME NEW c \in Calls, ReactivateWrite(c)
      PROVE  defs'[d] = defs[d] \/ RowReactivated(d, c)
  <2> DEFINE row == [defs[calls[c].def] EXCEPT !.archived = FALSE, !.active = TRUE,
                                               !.nextDue = ScheduleFromNow(calls[c].recurs),
                                               !.scheduledAs = calls[c].recurs]
  <2>1. calls[c] \in Reactivating
    BY <1>3, CallShapes DEF ReactivateWrite
  <2>2. defs' = defs \/ defs' = [defs EXCEPT ![calls[c].def] = row]
    BY <1>3 DEF ReactivateWrite
  <2>3. CASE d = calls[c].def
    <3>1. defs'[d] = defs[d] \/ defs'[d] = row
      BY <1>0, <2>2, <2>3
    <3> QED  BY <1>3, <2>1, <2>3, <3>1 DEF RowReactivated
  <2>4. CASE d # calls[c].def
    <3> HIDE DEF row
    <3>1. defs'[d] = defs[d]
      BY <1>0, <2>2, <2>4
    <3> QED  BY <2>1, <3>1
  <2> QED  BY <2>3, <2>4
<1>4. ASSUME NEW s \in Sweeps, SweepCreate(s)
      PROVE  defs'[d] = defs[d] \/ RowSwept(d, s)
  BY <1>4, SweptRow
<1>5. \/ defs' = defs
      \/ \E e \in Definitions, recurs, active \in BOOLEAN : EditDefinition(e, recurs, active)
      \/ \E c \in Calls : ArchiveWrite(c) \/ ReactivateWrite(c)
      \/ \E s \in Sweeps : SweepCreate(s)
      \/ \E c \in Calls, i \in DOMAIN instances : CompleteCommit(c, i)
  BY DEF Next, ArchiveCheck, ReactivateCheck, ReplaceDelete, ReplaceCommit, MaterializeCheck,
         MaterializeCreate, OpenForm, SaveCheck, SaveInsert, RollbackCheck, CompleteStart, Close,
         SweepStart, SweepCount, Midnight, Crash, vars
<1>6. ASSUME NEW c \in Calls, NEW i \in DOMAIN instances, CompleteCommit(c, i)
      PROVE  defs'[d] = defs[d] \/ RowCompleted(d, c)
  BY <1>6, CompletedRow DEF RowCompleted
<1> QED  BY <1>1, <1>2, <1>3, <1>4, <1>5, <1>6

(* A definition that is to repeat is found again by the sweep: whatever        *)
(* archives, reactivations, sweeps and stops there were, only an edit that made *)
(* it repeat can leave it without a due date (admin.ts warns of stranding).    *)
THEOREM OnlyEditsEverStrand == Spec => []OnlyEditsStrand
<1>1. Init => ScheduleInv
  BY DEF Init, NewDefinition, NextOccurrence, ScheduleInv, Never
<1>2. ASSUME TypeInv, ScheduleInv, [Next]_vars PROVE ScheduleInv'
  <2> SUFFICES ASSUME NEW d \in Definitions, ~defs'[d].archived, defs'[d].scheduledAs
               PROVE  defs'[d].nextDue # Never
    BY DEF ScheduleInv
  <2>1. defs[d] \in Definition /\ today \in Nat
    BY <1>2 DEF TypeInv
  <2>2. ~defs[d].archived /\ defs[d].scheduledAs => defs[d].nextDue # Never
    BY <1>2 DEF ScheduleInv
  <2>3. CASE defs'[d] = defs[d]
    BY <2>2, <2>3
  <2>4. CASE RowEdited(d)
    BY <2>1, <2>2, <2>4 DEF RowEdited, Definition
  <2>5. ASSUME NEW c \in Calls, RowArchived(d, c) PROVE defs'[d].nextDue # Never
    BY <2>1, <2>5 DEF RowArchived, Definition
  <2>6. ASSUME NEW c \in Calls, RowReactivated(d, c) PROVE defs'[d].nextDue # Never
    <3>1. calls[c].recurs \in BOOLEAN
      BY <2>6 DEF RowReactivated, Reactivating
    <3> QED  BY <2>1, <2>6, <3>1
             DEF RowReactivated, Definition, ScheduleFromNow, NextOccurrence, Never
  <2>7. ASSUME NEW s \in Sweeps, RowSwept(d, s) PROVE defs'[d].nextDue # Never
    <3> DEFINE row == sweeps[s].read[d]
    <3>1. row \in Definition
      BY <2>7 DEF RowSwept, Counted
    <3>2. defs'[d].nextDue = NextAfterSweep(row) /\ defs'[d].scheduledAs = row.recurs
      BY <2>1, <2>7 DEF RowSwept, Definition
    <3> HIDE DEF row
    <3> QED  BY <3>1, <3>2 DEF Definition, NextAfterSweep, NextOccurrence, Never
  <2>8. ASSUME NEW c \in Calls, RowCompleted(d, c) PROVE defs'[d].nextDue # Never
    <3>1. calls[c].recurs \in BOOLEAN /\ calls[c].day \in Nat
      BY <2>8 DEF RowCompleted, Complete
    <3>2. /\ defs'[d].nextDue = NextOccurrence(calls[c].recurs, calls[c].day)
          /\ defs'[d].scheduledAs = calls[c].recurs
      BY <2>1, <2>8 DEF RowCompleted, Rescheduled, Definition
    <3> QED  BY <3>1, <3>2 DEF NextOccurrence, Never
  <2> QED  BY <1>2, <2>3, <2>4, <2>5, <2>6, <2>7, <2>8, DefinitionSteps
<1>3. ScheduleInv => OnlyEditsStrand
  BY DEF ScheduleInv, OnlyEditsStrand
<1> QED  BY <1>1, <1>2, <1>3, CatalogueTypes, PTL DEF Spec
-----------------------------------------------------------------------------
(* What a sweep remembers: the definitions it has left to do were due when it   *)
(* read them, and a count it acts on was below the cap it read.                *)
Scheduled(s) ==
    LET w == sweeps[s] IN
    w.at \in {"SCANNED", "COUNTED"} =>
        /\ \A d \in w.todo : w.read[d].nextDue \in 1 .. today
        /\ w.at = "COUNTED" => w.def \in w.todo /\ w.open < w.cap

ScanInv == \A s \in Sweeps : Scheduled(s)

LEMMA TodayStep ==
    ASSUME TypeInv, [Next]_vars
    PROVE  today \in Nat /\ today' \in Nat /\ today <= today'
<1>1. UNCHANGED today \/ Midnight
  BY DEF Next, EditDefinition, ArchiveCheck, ArchiveWrite, ReactivateCheck, ReactivateWrite,
         ReplaceDelete, ReplaceCommit, MaterializeCheck, MaterializeCreate, OpenForm, SaveCheck,
         RollbackCheck, SaveInsert, CompleteStart, CompleteCommit, Close, SweepStart, SweepCount,
         SweepCreate, Crash, vars
<1>2. today \in Nat
  BY DEF TypeInv
<1>3. today' = today \/ today' = today + 1
  BY <1>1 DEF Midnight
<1> QED  BY <1>2, <1>3

LEMMA ScanStep ==
    ASSUME TypeInv, ScanInv, [Next]_vars
    PROVE  ScanInv'
<1> SUFFICES ASSUME NEW s \in Sweeps PROVE Scheduled(s)'
  BY DEF ScanInv
<1>1. sweeps \in [Sweeps -> {Resting} \cup Sweeping] /\ Scheduled(s)
  BY DEF TypeInv, ScanInv
<1>2. today \in Nat /\ today' \in Nat /\ today <= today'
  BY TodayStep
<1>3. CASE sweeps'[s] = sweeps[s]
  BY <1>1, <1>2, <1>3 DEF Scheduled
<1>4. CASE sweeps'[s] = Resting
  BY <1>4 DEF Scheduled, Resting
<1>5. ASSUME NEW d, sweeps[s].at \in {"SCANNED", "COUNTED"}, Advance(s, d)
      PROVE  Scheduled(s)'
  <2>1. CASE sweeps[s].todo = {d}
    BY <1>1, <1>4, <1>5, <2>1 DEF Advance
  <2>2. CASE sweeps[s].todo # {d}
    <3> DEFINE w == [sweeps[s] EXCEPT !.at = "SCANNED", !.todo = sweeps[s].todo \ {d}]
    <3>1. sweeps'[s] = w
      BY <1>1, <1>5, <2>2 DEF Advance
    <3>2. sweeps[s] \in Scanned \cup Counted
      BY <1>5, SweepShapes
    <3>3. w.at = "SCANNED" /\ w.todo = sweeps[s].todo \ {d} /\ w.read = sweeps[s].read
      BY <3>2 DEF Scanned, Counted
    <3> HIDE DEF w
    <3> QED  BY <1>1, <1>2, <1>5, <3>1, <3>3 DEF Scheduled
  <2> QED  BY <2>1, <2>2
<1>6. ASSUME SweepStart(s) PROVE Scheduled(s)'
  <2>1. sweeps'[s] = [at |-> "SCANNED", todo |-> {d \in Definitions : Due(d)},
                      read |-> defs, def |-> Nobody, open |-> 0, cap |-> 0]
    BY <1>1, <1>6 DEF SweepStart
  <2>2. \A d \in Definitions : Due(d) => defs[d].nextDue \in 1 .. today'
    BY <1>2 DEF Due, Never, TypeInv, Definition
  <2> QED  BY <2>1, <2>2 DEF Scheduled
<1>7. ASSUME NEW d \in Definitions, SweepCount(s, d) PROVE Scheduled(s)'
  <2>1. sweeps[s].at = "SCANNED" /\ d \in sweeps[s].todo /\ sweeps[s] \in Scanned
    BY <1>7, SweepShapes DEF SweepCount
  <2>2. CASE Advance(s, d)
    BY <1>5, <2>1, <2>2
  <2>3. CASE ~Advance(s, d)
    <3> DEFINE cap == configs[Current].cap
               w == [sweeps[s] EXCEPT !.at = "COUNTED", !.def = d, !.open = OpenOf(d),
                                      !.cap = cap]
    <3>1. sweeps'[s] = w /\ OpenOf(d) < cap
      BY <1>1, <1>7, <2>3 DEF SweepCount, Fits
    <3> HIDE DEF cap
    <3>2. /\ w.at = "COUNTED" /\ w.def = d /\ w.open = OpenOf(d) /\ w.cap = cap
          /\ w.todo = sweeps[s].todo /\ w.read = sweeps[s].read
      BY <2>1 DEF Scanned
    <3> HIDE DEF w
    <3> QED  BY <1>1, <1>2, <2>1, <3>1, <3>2 DEF Scheduled
  <2> QED  BY <2>2, <2>3
<1>8. ASSUME SweepCreate(s) PROVE Scheduled(s)'
  BY <1>5, <1>8 DEF SweepCreate
<1>9. CASE Crash
  BY <1>4, <1>9 DEF Crash
<1>10. ASSUME NEW e \in Sweeps, e # s,
              SweepStart(e) \/ SweepCreate(e) \/ \E d \in Definitions : SweepCount(e, d)
       PROVE  sweeps'[s] = sweeps[s]
  BY <1>1, <1>10 DEF SweepStart, SweepCreate, SweepCount, Advance
<1>11. \/ UNCHANGED sweeps \/ Crash
       \/ \E e \in Sweeps : \/ SweepStart(e) \/ SweepCreate(e)
                            \/ \E d \in Definitions : SweepCount(e, d)
  BY DEF Next, EditDefinition, ArchiveCheck, ArchiveWrite, ReactivateCheck, ReactivateWrite,
         ReplaceDelete, ReplaceCommit, MaterializeCheck, MaterializeCreate, OpenForm, SaveCheck,
         RollbackCheck, SaveInsert, CompleteStart, CompleteCommit, Close, Midnight, vars
<1> QED  BY <1>3, <1>6, <1>7, <1>8, <1>9, <1>10, <1>11

(* The rows of a definition are finitely many.                                 *)
RulesInv == \A d \in Definitions : IsFiniteSet(rules[d])

LEMMA RulesStep ==
    ASSUME TypeInv, RulesInv, [Next]_vars, NEW d \in Definitions
    PROVE  /\ \/ rules'[d] = rules[d]
              \/ \E c \in Calls : /\ ReplaceCommit(c) /\ calls[c].def = d
                                  /\ rules'[d] = (rules[d] \ calls[c].seen) \cup {edits + 1}
           /\ IsFiniteSet(rules[d]) /\ IsFiniteSet(rules'[d])
<1>1. rules \in [Definitions -> SUBSET Nat] /\ IsFiniteSet(rules[d])
  BY DEF TypeInv, RulesInv
<1>2. UNCHANGED rules \/ \E c \in Calls : ReplaceCommit(c)
  BY DEF Next, EditDefinition, ArchiveCheck, ArchiveWrite, ReactivateCheck, ReactivateWrite,
         ReplaceDelete, MaterializeCheck, MaterializeCreate, OpenForm, SaveCheck,
         RollbackCheck, SaveInsert, CompleteStart, CompleteCommit, Close, SweepStart, SweepCount,
         SweepCreate, Midnight, Crash, vars
<1>3. ASSUME NEW c \in Calls, ReplaceCommit(c), rules'[d] # rules[d]
      PROVE  /\ calls[c].def = d
             /\ rules'[d] = (rules[d] \ calls[c].seen) \cup {edits + 1}
             /\ IsFiniteSet(rules'[d])
  <2>1. calls[c].def = d /\ rules'[d] = (rules[d] \ calls[c].seen) \cup {edits + 1}
    BY <1>1, <1>3 DEF ReplaceCommit, Replaced
  <2>2. IsFiniteSet(rules[d] \ calls[c].seen)
    BY <1>1, FS_Subset
  <2> QED  BY <2>1, <2>2, FS_AddElement
<1> QED  BY <1>1, <1>2, <1>3

LEMMA RulesMix ==
    ASSUME TypeInv, RulesInv, [Next]_vars, NEW d \in Definitions,
           Cardinality(rules[d]) <= 1, Cardinality(rules'[d]) > 1
    PROVE  \E c \in Calls : ReplaceCommit(c) /\ calls[c].def = d /\ calls[c].seen # rules[d]
<1>1. Cardinality(rules[d]) \in Nat /\ Cardinality(rules'[d]) \in Nat
  BY RulesStep, FS_CardinalityType
<1>2. rules'[d] # rules[d]
  BY <1>1
<1>3. PICK c \in Calls : /\ ReplaceCommit(c) /\ calls[c].def = d
                         /\ rules'[d] = (rules[d] \ calls[c].seen) \cup {edits + 1}
  BY <1>2, RulesStep
<1>4. ASSUME calls[c].seen = rules[d] PROVE FALSE
  <2>1. rules'[d] = {edits + 1}
    BY <1>3, <1>4
  <2>2. Cardinality(rules'[d]) = 1
    BY <2>1, FS_Singleton
  <2> QED  BY <2>2
<1> QED  BY <1>3, <1>4

(* Only a creation raises the number of open occurrences, and only of its       *)
(* definition.                                                                 *)
LEMMA OnlyCreationsOpen ==
    ASSUME TypeInv, [Next]_vars, NEW d \in Definitions, OpenOf(d)' > OpenOf(d)
    PROVE  \/ \E c \in Calls : MaterializeCreate(c) /\ calls[c].def = d
           \/ \E s \in Sweeps : SweepCreate(s) /\ sweeps[s].def = d
<1> DEFINE Opened(rows) == {i \in DOMAIN rows : rows[i].def = d /\ rows[i].open}
<1>1. /\ OpenOf(d) = Cardinality(Opened(instances))
      /\ OpenOf(d)' = Cardinality(Opened(instances'))
  BY DEF OpenOf
<1>2. IsFiniteSet(Opened(instances)) /\ OpenOf(d) \in Nat
  BY Counts
<1>3. ASSUME Opened(instances') \subseteq Opened(instances) PROVE FALSE
  <2>1. OpenOf(d)' <= OpenOf(d)
    BY <1>1, <1>2, <1>3, FS_Subset
  <2>2. OpenOf(d)' \in Nat
    BY <1>1, <1>2, <1>3, FS_Subset, FS_CardinalityType
  <2> QED  BY <1>2, <2>1, <2>2
<1>4. ASSUME NEW x \in Instance, instances' = Append(instances, x), x.def # d PROVE FALSE
  <2>1. Opened(instances') \subseteq Opened(instances)
    BY <1>4, Created
  <2> QED  BY <1>3, <2>1
<1>5. ASSUME NEW c \in Calls, MaterializeCreate(c), calls[c].def # d PROVE FALSE
  <2> DEFINE x == [NewInstance(calls[c].def, today, FALSE) EXCEPT !.version = calls[c].version]
  <2>1. calls[c] \in Materializing /\ today \in Nat /\ Current \in Nat
    BY <1>5, CallShapes, Counts DEF MaterializeCreate, TypeInv
  <2>2. x \in Instance /\ x.def = calls[c].def
    BY <2>1 DEF NewInstance, Instance, Materializing
  <2>3. instances' = Append(instances, x)
    BY <1>5 DEF MaterializeCreate
  <2> HIDE DEF x
  <2> QED  BY <1>4, <1>5, <2>2, <2>3
<1>6. ASSUME NEW s \in Sweeps, SweepCreate(s), sweeps[s].def # d PROVE FALSE
  <2> DEFINE row == sweeps[s].read[sweeps[s].def]
             x == NewInstance(sweeps[s].def, row.nextDue, TRUE)
  <2>1. sweeps[s].def \in Definitions /\ row \in Definition
    BY <1>6, SweepShapes DEF SweepCreate, Counted
  <2>2. instances' = Append(instances, x)
    BY <1>6 DEF SweepCreate
  <2> HIDE DEF row
  <2>3. row.nextDue \in Nat /\ Current \in Nat
    BY <2>1, Counts DEF Definition
  <2>4. x \in Instance /\ x.def = sweeps[s].def
    BY <2>1, <2>3 DEF NewInstance, Instance
  <2> HIDE DEF x
  <2> QED  BY <1>4, <1>6, <2>2, <2>4
<1>7. ASSUME NEW j \in DOMAIN instances, Closed(j) PROVE FALSE
  <2>1. DOMAIN instances' = DOMAIN instances
    BY <1>7, ClosedOne
  <2>2. ASSUME NEW i \in DOMAIN instances, instances'[i].def = d, instances'[i].open
        PROVE  instances[i].def = d /\ instances[i].open
    <3>1. CASE i # j
      BY <1>7, <2>2, <3>1, ClosedOne
    <3>2. CASE i = j
      <4>1. instances'[i] = [instances[i] EXCEPT !.open = FALSE] /\ instances[i] \in Instance
        BY <1>7, <3>2, ClosedOne
      <4> QED  BY <2>2, <4>1 DEF Instance
    <3> QED  BY <3>1, <3>2
  <2>3. Opened(instances') \subseteq Opened(instances)
    BY <2>1, <2>2
  <2> QED  BY <1>3, <2>3
<1>8. CASE instances' = instances
  BY <1>3, <1>8
<1> QED  BY <1>5, <1>6, <1>7, <1>8, OccurrenceSteps

(* A creation past the cap acts on a count or a version that is no longer true. *)
LEMMA CapStep ==
    ASSUME TypeInv, VersionInv, ScanInv, [Next]_vars, NEW d \in Definitions,
           Exceeded(d), OpenOf(d)' > OpenOf(d)
    PROVE  \/ \E c \in Calls :
                 /\ MaterializeCreate(c) /\ calls[c].def = d
                 /\ calls[c].open < OpenOf(d) \/ calls[c].version < Current
           \/ \E s \in Sweeps :
                 /\ SweepCreate(s) /\ sweeps[s].def = d
                 /\ sweeps[s].open < OpenOf(d) \/ sweeps[s].cap # configs[Current].cap
<1>1. OpenOf(d) \in Nat /\ Current \in Nat /\ configs[Current].cap \in Nat
  BY Counts, CatalogueAssumption DEF Config
<1>2. configs[Current].cap <= OpenOf(d)
  BY <1>1 DEF Exceeded
<1>3. ASSUME NEW c \in Calls, MaterializeCreate(c)
      PROVE  calls[c].open < OpenOf(d) \/ calls[c].version < Current
  <2>1. /\ calls[c].version \in 1 .. Current
        /\ calls[c].open < configs[calls[c].version].cap
    BY <1>3 DEF MaterializeCreate, VersionInv, Remembers
  <2>2. calls[c].open \in Nat
    BY <1>3, CallShapes DEF MaterializeCreate, Materializing
  <2>3. CASE calls[c].version = Current
    BY <1>1, <1>2, <2>1, <2>2, <2>3
  <2>4. CASE calls[c].version # Current
    BY <1>1, <2>1, <2>4
  <2> QED  BY <2>3, <2>4
<1>4. ASSUME NEW s \in Sweeps, SweepCreate(s)
      PROVE  sweeps[s].open < OpenOf(d) \/ sweeps[s].cap # configs[Current].cap
  <2>1. sweeps[s].open < sweeps[s].cap
    BY <1>4 DEF SweepCreate, ScanInv, Scheduled
  <2>2. sweeps[s].open \in Nat
    BY <1>4, SweepShapes DEF SweepCreate, Counted
  <2> QED  BY <1>1, <1>2, <2>1, <2>2
<1> QED  BY <1>3, <1>4, OnlyCreationsOpen

(* Where an occurrence of the sweep comes from.                                *)
LEMMA SweptOccurrences ==
    ASSUME TypeInv, [Next]_vars, NEW i \in DOMAIN instances', instances'[i].auto
    PROVE  \/ /\ i \in DOMAIN instances /\ instances[i].auto
              /\ instances'[i].def = instances[i].def
              /\ instances'[i].scheduledFor = instances[i].scheduledFor
           \/ /\ i = Len(instances) + 1 /\ i \notin DOMAIN instances
              /\ \E s \in Sweeps :
                    /\ SweepCreate(s) /\ instances'[i].def = sweeps[s].def
                    /\ instances'[i].scheduledFor = sweeps[s].read[sweeps[s].def].nextDue
<1>1. CASE instances' = instances
  BY <1>1
<1>2. ASSUME NEW c \in Calls, MaterializeCreate(c)
      PROVE  i \in DOMAIN instances /\ instances'[i] = instances[i]
  <2> DEFINE x == [NewInstance(calls[c].def, today, FALSE) EXCEPT !.version = calls[c].version]
  <2>1. calls[c] \in Materializing /\ today \in Nat /\ Current \in Nat
    <3>1. calls[c] \in Materializing /\ today \in Nat
      BY <1>2, CallShapes DEF MaterializeCreate, TypeInv
    <3>2. calls[c].def \in Definitions
      BY <3>1 DEF Materializing
    <3> QED  BY <3>1, <3>2, Counts
  <2>2. x \in Instance /\ ~x.auto
    BY <2>1 DEF NewInstance, Instance, Materializing
  <2>3. instances' = Append(instances, x)
    BY <1>2 DEF MaterializeCreate
  <2> HIDE DEF x
  <2> QED  BY <2>2, <2>3, Created
<1>3. ASSUME NEW s \in Sweeps, SweepCreate(s), i \notin DOMAIN instances
      PROVE  /\ i = Len(instances) + 1
             /\ instances'[i].def = sweeps[s].def
             /\ instances'[i].scheduledFor = sweeps[s].read[sweeps[s].def].nextDue
  <2> DEFINE row == sweeps[s].read[sweeps[s].def]
             x == NewInstance(sweeps[s].def, row.nextDue, TRUE)
  <2>1. sweeps[s].def \in Definitions /\ row \in Definition
    BY <1>3, SweepShapes DEF SweepCreate, Counted
  <2>2. instances' = Append(instances, x)
    BY <1>3 DEF SweepCreate
  <2>3. x.scheduledFor = row.nextDue
    BY DEF NewInstance
  <2>4. row.nextDue \in Nat /\ Current \in Nat
    BY <2>1, Counts DEF Definition
  <2> HIDE DEF row
  <2>5. x \in Instance /\ x.def = sweeps[s].def
    BY <2>1, <2>4 DEF NewInstance, Instance
  <2> HIDE DEF x
  <2>6. i = Len(instances) + 1 /\ instances'[i] = x
    BY <1>3, <2>2, <2>5, Created
  <2> QED  BY <2>3, <2>5, <2>6 DEF row
<1>4. ASSUME NEW s \in Sweeps, SweepCreate(s), i \in DOMAIN instances
      PROVE  instances'[i] = instances[i]
  <2> DEFINE x == NewInstance(sweeps[s].def, sweeps[s].read[sweeps[s].def].nextDue, TRUE)
  <2>1. instances' = Append(instances, x)
    BY <1>4 DEF SweepCreate
  <2> HIDE DEF x
  <2> QED  BY <1>4, <2>1 DEF TypeInv
<1>5. ASSUME NEW j \in DOMAIN instances, Closed(j)
      PROVE  /\ i \in DOMAIN instances /\ instances'[i].auto = instances[i].auto
             /\ instances'[i].def = instances[i].def
             /\ instances'[i].scheduledFor = instances[i].scheduledFor
  <2>1. CASE i # j
    BY <1>5, <2>1, ClosedOne
  <2>2. CASE i = j
    <3>1. instances'[i] = [instances[i] EXCEPT !.open = FALSE] /\ instances[i] \in Instance
      BY <1>5, <2>2, ClosedOne
    <3> QED  BY <1>5, <2>2, <3>1, ClosedOne DEF Instance
  <2> QED  BY <2>1, <2>2
<1> QED  BY <1>1, <1>2, <1>3, <1>4, <1>5, OccurrenceSteps

(* A definition on which no sweep acted late: what the sweep materialized lies  *)
(* before the due date to come, and no two occurrences share theirs.           *)
InStep(d) ==
    ~defs[d].overlapped =>
        /\ \A i \in DOMAIN instances : instances[i].auto /\ instances[i].def = d =>
              /\ instances[i].scheduledFor <= today
              /\ defs[d].nextDue # Never => instances[i].scheduledFor < defs[d].nextDue
        /\ \A i, j \in DOMAIN instances :
              /\ i # j /\ instances[i].auto /\ instances[j].auto
              /\ instances[i].def = d /\ instances[j].def = d
              => instances[i].scheduledFor # instances[j].scheduledFor

SeriesInv == \A d \in Definitions : InStep(d)

LEMMA SeriesStep ==
    ASSUME TypeInv, ScanInv, SeriesInv, [Next]_vars, NEW d \in Definitions
    PROVE  InStep(d)'
<1> DEFINE Mine(i) == i \in DOMAIN instances /\ instances[i].auto /\ instances[i].def = d
<1> SUFFICES ASSUME ~defs'[d].overlapped
             PROVE  /\ \A i \in DOMAIN instances' : instances'[i].auto /\ instances'[i].def = d =>
                          /\ instances'[i].scheduledFor <= today'
                          /\ defs'[d].nextDue # Never =>
                                instances'[i].scheduledFor < defs'[d].nextDue
                    /\ \A i, j \in DOMAIN instances' :
                          /\ i # j /\ instances'[i].auto /\ instances'[j].auto
                          /\ instances'[i].def = d /\ instances'[j].def = d
                          => instances'[i].scheduledFor # instances'[j].scheduledFor
  BY DEF InStep
<1>1. defs[d] \in Definition /\ today \in Nat /\ today' \in Nat /\ today <= today'
  BY TodayStep DEF TypeInv
<1>2. ASSUME NEW s \in Sweeps, RowSwept(d, s)
      PROVE  /\ ~defs[d].overlapped
             /\ sweeps[s].read[d].nextDue = defs[d].nextDue /\ defs[d].nextDue \in 1 .. today
             /\ defs'[d].nextDue \in {Never, defs[d].nextDue + 1}
  <2> DEFINE row == sweeps[s].read[d]
  <2>1. d \in sweeps[s].todo /\ row.nextDue \in 1 .. today
    BY <1>2 DEF RowSwept, SweepCreate, ScanInv, Scheduled
  <2>2. /\ defs'[d].nextDue = NextAfterSweep(row)
        /\ defs'[d].overlapped = (defs[d].overlapped \/ row.nextDue # defs[d].nextDue)
    BY <1>1, <1>2 DEF RowSwept, Definition
  <2> HIDE DEF row
  <2>3. ~defs[d].overlapped /\ row.nextDue = defs[d].nextDue
    BY <2>2
  <2> QED  BY <2>1, <2>2, <2>3 DEF row, NextAfterSweep, NextOccurrence
<1>3. ~defs[d].overlapped
  <2>1. CASE RowEdited(d)
    BY <1>1, <2>1 DEF RowEdited, Definition
  <2>2. ASSUME NEW c \in Calls, RowArchived(d, c) \/ RowReactivated(d, c)
        PROVE  ~defs[d].overlapped
    BY <1>1, <2>2 DEF RowArchived, RowReactivated, Definition
  <2>3. ASSUME NEW c \in Calls, RowCompleted(d, c)
        PROVE  ~defs[d].overlapped
    BY <1>1, <2>3 DEF RowCompleted, Rescheduled, Definition
  <2> QED  BY <1>2, <2>1, <2>2, <2>3, DefinitionSteps
<1>4. ASSUME NEW i, Mine(i)
      PROVE  /\ instances[i].scheduledFor \in Nat /\ instances[i].scheduledFor <= today
             /\ defs[d].nextDue # Never => instances[i].scheduledFor < defs[d].nextDue
  <2>1. instances[i] \in Instance
    BY <1>4, ElementOfSeq DEF TypeInv
  <2> QED  BY <1>3, <1>4, <2>1 DEF SeriesInv, InStep, Instance
<1>5. ASSUME NEW i, Mine(i), defs'[d].nextDue # Never
      PROVE  instances[i].scheduledFor < defs'[d].nextDue
  <2>1. CASE defs'[d] = defs[d]
    BY <1>4, <1>5, <2>1
  <2>2. CASE RowEdited(d)
    <3>1. defs'[d].nextDue = defs[d].nextDue
      BY <1>1, <2>2 DEF RowEdited, Definition
    <3> QED  BY <1>4, <1>5, <3>1
  <2>3. ASSUME NEW c \in Calls, RowArchived(d, c) PROVE FALSE
    BY <1>1, <1>5, <2>3 DEF RowArchived, Definition
  <2>4. ASSUME NEW c \in Calls, RowReactivated(d, c)
        PROVE  instances[i].scheduledFor < defs'[d].nextDue
    <3>1. defs'[d].nextDue = ScheduleFromNow(calls[c].recurs)
      BY <1>1, <2>4 DEF RowReactivated, Definition
    <3>2. defs'[d].nextDue = today + 1
      BY <1>5, <3>1 DEF ScheduleFromNow, NextOccurrence
    <3> QED  BY <1>1, <1>4, <1>5, <3>2
  <2>5. ASSUME NEW s \in Sweeps, RowSwept(d, s)
        PROVE  instances[i].scheduledFor < defs'[d].nextDue
    <3>1. defs[d].nextDue \in 1 .. today /\ defs'[d].nextDue = defs[d].nextDue + 1
      BY <1>2, <1>5, <2>5
    <3>2. defs[d].nextDue # Never
      BY <1>1, <3>1 DEF Never
    <3> QED  BY <1>1, <1>4, <1>5, <3>1, <3>2
  <2>6. ASSUME NEW c \in Calls, RowCompleted(d, c)
        PROVE  instances[i].scheduledFor < defs'[d].nextDue
    <3>1. /\ defs'[d].nextDue = NextOccurrence(calls[c].recurs, calls[c].day)
          /\ calls[c].day = today
      BY <1>1, <2>6 DEF RowCompleted, Rescheduled, Definition
    <3>2. defs'[d].nextDue = today + 1
      BY <1>5, <3>1 DEF NextOccurrence
    <3> QED  BY <1>1, <1>4, <1>5, <3>2
  <2> QED  BY <2>1, <2>2, <2>3, <2>4, <2>5, <2>6, DefinitionSteps
<1>6. ASSUME NEW i \in DOMAIN instances', instances'[i].auto, instances'[i].def = d
      PROVE  \/ Mine(i) /\ instances'[i].scheduledFor = instances[i].scheduledFor
             \/ /\ i = Len(instances) + 1 /\ instances'[i].scheduledFor = defs[d].nextDue
                /\ defs[d].nextDue \in 1 .. today
                /\ defs'[d].nextDue \in {Never, defs[d].nextDue + 1}
  <2>1. ASSUME NEW s \in Sweeps, SweepCreate(s), sweeps[s].def = d
        PROVE  /\ sweeps[s].read[d].nextDue = defs[d].nextDue /\ defs[d].nextDue \in 1 .. today
               /\ defs'[d].nextDue \in {Never, defs[d].nextDue + 1}
    BY <1>2, <2>1, SweptRow
  <2> QED  BY <1>6, <2>1, SweptOccurrences
<1>7. ASSUME NEW i \in DOMAIN instances', instances'[i].auto, instances'[i].def = d
      PROVE  /\ instances'[i].scheduledFor <= today'
             /\ defs'[d].nextDue # Never => instances'[i].scheduledFor < defs'[d].nextDue
  <2>1. CASE Mine(i) /\ instances'[i].scheduledFor = instances[i].scheduledFor
    BY <1>1, <1>4, <1>5, <2>1
  <2>2. CASE /\ instances'[i].scheduledFor = defs[d].nextDue /\ defs[d].nextDue \in 1 .. today
             /\ defs'[d].nextDue \in {Never, defs[d].nextDue + 1}
    BY <1>1, <2>2
  <2> QED  BY <1>6, <1>7, <2>1, <2>2
<1>8. ASSUME NEW i \in DOMAIN instances', NEW j \in DOMAIN instances', i # j,
             instances'[i].auto, instances'[j].auto, instances'[i].def = d, instances'[j].def = d
      PROVE  instances'[i].scheduledFor # instances'[j].scheduledFor
  <2>1. ASSUME Mine(i), Mine(j) PROVE instances[i].scheduledFor # instances[j].scheduledFor
    BY <1>3, <1>8, <2>1 DEF SeriesInv, InStep
  <2>2. ASSUME NEW k, Mine(k), defs[d].nextDue \in 1 .. today
        PROVE  instances[k].scheduledFor # defs[d].nextDue
    <3>1. defs[d].nextDue # Never /\ defs[d].nextDue \in Nat
      BY <1>1, <2>2 DEF Never
    <3> QED  BY <1>4, <2>2, <3>1
  <2> QED  BY <1>6, <1>8, <2>1, <2>2
<1> QED  BY <1>7, <1>8

(* The slips of overlapping requests are the only ones: rows of two saves mix,  *)
(* a cap is passed and an occurrence is repeated only where two requests or     *)
(* sweeps overlapped (admin.ts and runAssignmentSweep.ts read in one statement  *)
(* and write in another), an occurrence also where a completion that began      *)
(* before midnight committed after it (completeTask.ts).                       *)
THEOREM OnlyOverlapEverMisleads == Spec => OnlyOverlapMisleads
<1> DEFINE Inv == TypeInv /\ VersionInv /\ RulesInv /\ ScanInv /\ SeriesInv
<1>1. Init => RulesInv /\ ScanInv /\ SeriesInv
  BY FS_EmptySet
     DEF Init, RulesInv, ScanInv, Scheduled, SeriesInv, InStep, Resting
<1>2. RulesInv /\ TypeInv /\ [Next]_vars => RulesInv'
  BY RulesStep DEF RulesInv
<1>3. SeriesInv /\ TypeInv /\ ScanInv /\ [Next]_vars => SeriesInv'
  BY SeriesStep DEF SeriesInv
<1>4. Spec => [](TypeInv /\ VersionInv)
  BY VersionsAlwaysHold
<1>5. Spec => []Inv
  BY <1>1, <1>2, <1>3, <1>4, ScanStep, PTL DEF Spec
<1>6. Inv /\ [Next]_vars =>
         [\A d \in Definitions : Cardinality(rules[d]) <= 1 /\ Cardinality(rules[d])' > 1 =>
            \E c \in Calls : ReplaceCommit(c) /\ calls[c].def = d
                                /\ calls[c].seen # rules[d]]_vars
  BY RulesMix
<1>7. Inv /\ [Next]_vars =>
         [\A d \in Definitions : Exceeded(d) /\ OpenOf(d)' > OpenOf(d) =>
            \/ \E c \in Calls :
                  /\ MaterializeCreate(c) /\ calls[c].def = d
                  /\ calls[c].open < OpenOf(d) \/ calls[c].version < Current
            \/ \E s \in Sweeps :
                  /\ SweepCreate(s) /\ sweeps[s].def = d
                  /\ sweeps[s].open < OpenOf(d) \/ sweeps[s].cap # configs[Current].cap]_vars
  BY CapStep
<1>8. Inv => OccurrencesRepeatOnlyAfterOverlap
  <2> SUFFICES ASSUME Inv, NEW i \in DOMAIN instances, NEW j \in DOMAIN instances, i # j,
                      instances[i].auto, instances[j].auto, instances[i].def = instances[j].def,
                      instances[i].scheduledFor = instances[j].scheduledFor
               PROVE  defs[instances[i].def].overlapped
    BY DEF OccurrencesRepeatOnlyAfterOverlap
  <2>1. instances[i].def \in Definitions
    <3>1. instances \in Seq(Instance)
      BY DEF TypeInv
    <3>2. instances[i] \in Instance
      BY <3>1
    <3> QED  BY <3>2 DEF Instance
  <2> QED  BY <2>1 DEF SeriesInv, InStep
<1> QED  BY <1>5, <1>6, <1>7, <1>8, PTL
         DEF Spec, OnlyOverlapMisleads, RulesMixOnlyInOverlap, CapYieldsOnlyToOverlap
=============================================================================
