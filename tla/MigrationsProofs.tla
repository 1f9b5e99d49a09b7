-------------------------- MODULE MigrationsProofs --------------------------
(***************************************************************************)
(* Safety of Migrations for any set of processes, any number of migrations *)
(* and any references between their tables.                                *)
(***************************************************************************)
EXTENDS Migrations, TLAPS

(* What process m has behind it is in the ledger, and stays there. *)
Passed(m) == at[m] \notin Stopped => 1 .. next[m] - 1 \subseteq applied

(* The inductive invariant. *)
Inv ==
    /\ Consistent
    /\ \A m \in Migrators : Passed(m)
    /\ DoneIsComplete

(* The last migration ends the loop with nothing left out. *)
LEMMA Advances ==
    ASSUME Inv, NEW m \in Migrators,
           at[m] \notin Stopped,
           applied' \subseteq Registry,
           applied \subseteq applied',
           next[m] \in applied',
           Advance(m)
    PROVE  /\ at' \in [Migrators -> Places]
           /\ next' \in [Migrators -> Registry]
           /\ \A q \in Migrators : Passed(q)'
           /\ DoneIsComplete'
  <1>1. /\ next \in [Migrators -> Registry]
        /\ at \in [Migrators -> Places]
        /\ next[m] \in 1 .. Count
        /\ applied \subseteq Registry
    BY DEF Inv, Consistent, TypeOK, Registry
  <1>2. 1 .. next[m] \subseteq applied'
    <2>1. 1 .. next[m] - 1 \subseteq applied
      BY DEF Inv, Passed
    <2> QED
      BY <1>1, <2>1
  <1>3. /\ at' \in [Migrators -> Places]
        /\ next' \in [Migrators -> Registry]
    BY <1>1, CountAssumption DEF Advance, Goes, Places, Registry
  <1>4. \A q \in Migrators : Passed(q)'
    <2> SUFFICES ASSUME NEW q \in Migrators PROVE Passed(q)'
      OBVIOUS
    <2>1. CASE q = m
      BY <1>1, <1>2, <2>1 DEF Passed, Advance, Goes, Stopped
    <2>2. CASE q # m
      <3>1. at'[q] = at[q] /\ next'[q] = next[q]
        BY <1>1, <2>2 DEF Advance, Goes
      <3> QED
        BY <3>1 DEF Inv, Passed
    <2> QED
      BY <2>1, <2>2
  <1>5. DoneIsComplete'
    <2> SUFFICES ASSUME NEW q \in Migrators, at'[q] = "done" PROVE applied' = Registry
      BY DEF DoneIsComplete
    <2>1. CASE q = m
      <3>1. next[m] = Count
        BY <1>1, <2>1 DEF Advance, Goes
      <3> QED
        BY <1>2, <3>1 DEF Registry
    <2>2. CASE q # m
      <3>1. at[q] = "done"
        BY <1>1, <2>2 DEF Advance, Goes
      <3> QED
        BY <3>1 DEF Inv, DoneIsComplete
    <2> QED
      BY <2>1, <2>2
  <1> QED
    BY <1>3, <1>4, <1>5

(* A step of process m that leaves the ledger and m's position alone, and  *)
(* does not end with success.                                              *)
LEMMA Stays ==
    ASSUME Inv, NEW m \in Migrators, NEW place \in Places \ {"done"},
           at[m] \notin Stopped,
           Goes(m, place),
           database' \in BOOLEAN, ledger' \in BOOLEAN, crashes' \in 0 .. MaxCrashes,
           UNCHANGED <<applied, tables, next>>
    PROVE  Inv'
  <1>1. at \in [Migrators -> Places]
    BY DEF Inv, Consistent, TypeOK
  <1>2. \A q \in Migrators : at'[q] = IF q = m THEN place ELSE at[q]
    BY <1>1 DEF Goes
  <1>3. Consistent'
    BY <1>1 DEF Inv, Consistent, TypeOK, LedgerIsSchema, Goes
  <1>4. \A q \in Migrators : Passed(q)'
    BY <1>2 DEF Inv, Passed
  <1>5. DoneIsComplete'
    BY <1>2 DEF Inv, DoneIsComplete
  <1> QED
    BY <1>3, <1>4, <1>5 DEF Inv
-----------------------------------------------------------------------------
LEMMA InitHolds == Init => Inv
  <1> SUFFICES ASSUME Init PROVE Inv
    OBVIOUS
  <1>1. 1 \in Registry /\ crashes \in 0 .. MaxCrashes
    BY CountAssumption, CrashesAssumption DEF Init, Registry
  <1>2. \A m \in Migrators : at[m] = "off"
    BY DEF Init
  <1>3. Consistent
    BY <1>1 DEF Init, Consistent, TypeOK, LedgerIsSchema, Places
  <1> QED
    BY <1>2, <1>3 DEF Inv, Passed, DoneIsComplete, Stopped

LEMMA StepHolds ==
    ASSUME Inv, [Next]_vars
    PROVE  Inv'
  <1> USE DEF Stopped, Places
  <1>1. /\ database \in BOOLEAN /\ ledger \in BOOLEAN
        /\ crashes \in 0 .. MaxCrashes
        /\ at \in [Migrators -> Places] /\ next \in [Migrators -> Registry]
        /\ applied \subseteq Registry /\ tables = applied
    BY DEF Inv, Consistent, TypeOK, LedgerIsSchema
  <1>2. ASSUME NEW m \in Migrators, Start(m)
        PROVE  Inv'
    <2>1. next' \in [Migrators -> Registry] /\ at' \in [Migrators -> Places]
      BY <1>1, <1>2, CountAssumption DEF Start, Goes, Registry
    <2>2. \A q \in Migrators : Passed(q)'
      <3> SUFFICES ASSUME NEW q \in Migrators PROVE Passed(q)'
        OBVIOUS
      <3>1. CASE q = m
        <4>1. next'[q] = 1 /\ 1 .. 1 - 1 = {}
          BY <1>1, <1>2, <3>1 DEF Start
        <4> QED
          BY <4>1 DEF Passed
      <3>2. CASE q # m
        <4>1. at'[q] = at[q] /\ next'[q] = next[q] /\ applied' = applied
          BY <1>1, <1>2, <3>2 DEF Start, Goes
        <4> QED
          BY <4>1 DEF Inv, Passed
      <3> QED
        BY <3>1, <3>2
    <2>3. DoneIsComplete'
      BY <1>1, <1>2 DEF Start, Goes, Inv, DoneIsComplete
    <2> QED
      BY <1>1, <1>2, <2>1, <2>2, <2>3 DEF Start, Inv, Consistent, TypeOK, LedgerIsSchema
  <1>3. ASSUME NEW m \in Migrators, Crash(m)
        PROVE  Inv'
    <2>1. crashes' \in 0 .. MaxCrashes
      BY <1>1, <1>3, CrashesAssumption DEF Crash
    <2> QED
      BY <1>1, <1>3, <2>1, Stays DEF Crash
  <1>4. ASSUME NEW m \in Migrators, FindDatabase(m)
        PROVE  Inv'
    BY <1>1, <1>4, Stays DEF FindDatabase
  <1>5. ASSUME NEW m \in Migrators, CreateDatabase(m)
        PROVE  Inv'
    BY <1>1, <1>5, Stays DEF CreateDatabase
  <1>6. ASSUME NEW m \in Migrators, FindLedger(m)
        PROVE  Inv'
    BY <1>1, <1>6, Stays DEF FindLedger
  <1>7. ASSUME NEW m \in Migrators, CreateLedger(m)
        PROVE  Inv'
    BY <1>1, <1>7, Stays DEF CreateLedger
  <1>8. ASSUME NEW m \in Migrators, FindMigration(m)
        PROVE  Inv'
    <2>1. CASE next[m] \in applied /\ Advance(m)
      BY <1>1, <1>8, <2>1, Advances DEF FindMigration, Inv, Consistent, TypeOK, LedgerIsSchema
    <2>2. CASE Goes(m, "create") /\ UNCHANGED next
      BY <1>1, <1>8, <2>2, Stays DEF FindMigration
    <2> QED
      BY <1>8, <2>1, <2>2 DEF FindMigration
  <1>9. ASSUME NEW m \in Migrators, CreateTable(m)
        PROVE  Inv'
    <2>1. Goes(m, "record") \/ Goes(m, "failed")
      BY <1>9 DEF CreateTable
    <2> QED
      BY <1>1, <1>9, <2>1, Stays DEF CreateTable
  <1>10. ASSUME NEW m \in Migrators, Record(m)
         PROVE  Inv'
    <2>1. CASE Goes(m, "failed") /\ UNCHANGED <<applied, tables, next>>
      BY <1>1, <1>10, <2>1, Stays DEF Record
    <2>2. CASE /\ applied' = applied \cup {next[m]}
               /\ tables' = tables \cup {next[m]}
               /\ Advance(m)
      <3>1. applied' \subseteq Registry /\ next[m] \in applied' /\ tables' = applied'
        BY <1>1, <2>2
      <3> QED
        BY <1>1, <1>10, <2>2, <3>1, Advances
        DEF Record, Inv, Consistent, TypeOK, LedgerIsSchema
    <2> QED
      BY <1>10, <2>1, <2>2 DEF Record
  <1>11. CASE UNCHANGED vars
    BY <1>11
    DEF vars, Inv, Consistent, TypeOK, LedgerIsSchema, Passed, DoneIsComplete
  <1> QED
    BY <1>2, <1>3, <1>4, <1>5, <1>6, <1>7, <1>8, <1>9, <1>10, <1>11 DEF Next, Step

LEMMA Invariance == Spec => []Inv
  <1>1. Inv /\ [Next]_vars => Inv'
    BY StepHolds
  <1> QED
    BY <1>1, InitHolds, PTL DEF Spec
-----------------------------------------------------------------------------
(* The ledger names exactly the migrations that are in the schema, however *)
(* many processes overlap and wherever they die.                           *)
THEOREM LedgerMatchesSchema == Spec => []Consistent
  <1>1. Inv => Consistent
    BY DEF Inv
  <1> QED
    BY <1>1, Invariance, PTL

(* Exit status 0 of migrate means that the schema is complete.             *)
THEOREM SuccessIsComplete == Spec => []DoneIsComplete
  <1>1. Inv => DoneIsComplete
    BY DEF Inv
  <1> QED
    BY <1>1, Invariance, PTL
-----------------------------------------------------------------------------
(* A process that nothing the others have done so far can make fail.  It   *)
(* may lose this, but only to the one that overtakes it, which then leads. *)
Leads(m) ==
    \/ at[m] \in {"off", "start", "connect", "look", "done"}
    \/ at[m] = "make_database" /\ ~database
    \/ at[m] = "make_ledger" /\ ~ledger
    \/ at[m] \in {"create", "record"} /\ next[m] \notin applied

OneLeads == crashes = 0 => \E m \in Migrators : Leads(m)

LEMMA LeadPasses ==
    ASSUME Inv, OneLeads, [Next]_vars,
           \A i \in Registry : References[i] \subseteq 1 .. i - 1
    PROVE  OneLeads'
  <1> USE DEF Stopped
  <1>1. /\ at \in [Migrators -> Places] /\ next \in [Migrators -> Registry]
        /\ tables = applied /\ crashes \in 0 .. MaxCrashes
        /\ \A m \in Migrators : Passed(m)
    BY DEF Inv, Consistent, TypeOK, LedgerIsSchema
  <1>2. CASE \E q \in Migrators : Crash(q)
    <2>1. crashes' # 0
      BY <1>1, <1>2, CrashesAssumption DEF Crash
    <2> QED
      BY <2>1 DEF OneLeads
  <1>3. CASE UNCHANGED vars
    BY <1>3 DEF vars, OneLeads, Leads
  <1>4. ASSUME NEW q \in Migrators, Start(q) \/ Step(q)
        PROVE  OneLeads'
    <2>1. CASE crashes # 0
      <3>1. crashes' = crashes
        BY <1>4 DEF Start, Step, FindDatabase, CreateDatabase, FindLedger, CreateLedger,
                    FindMigration, CreateTable, Record
      <3> QED
        BY <2>1, <3>1 DEF OneLeads
    <2>2. CASE crashes = 0
      <3>1. PICK m \in Migrators : Leads(m)
        BY <2>2 DEF OneLeads
      <3>2. CASE q = m
        <4>1. References[next[m]] \subseteq applied \/ at[m] # "create"
          BY <1>1 DEF Passed
        <4>2. Leads(m)'
          <5>1. CASE Start(m)
            BY <1>1, <5>1 DEF Start, Goes, Leads
          <5>2. CASE FindDatabase(m) \/ CreateDatabase(m)
            BY <1>1, <3>1, <5>2 DEF FindDatabase, CreateDatabase, Goes, Leads
          <5>3. CASE FindLedger(m) \/ CreateLedger(m)
            BY <1>1, <3>1, <5>3 DEF FindLedger, CreateLedger, Goes, Leads
          <5>4. CASE FindMigration(m)
            BY <1>1, <5>4 DEF FindMigration, Advance, Goes, Leads
          <5>5. CASE CreateTable(m)
            BY <1>1, <3>1, <4>1, <5>5 DEF CreateTable, Goes, Leads
          <5>6. CASE Record(m)
            BY <1>1, <3>1, <5>6 DEF Record, Advance, Goes, Leads
          <5> QED
            BY <1>4, <3>2, <5>1, <5>2, <5>3, <5>4, <5>5, <5>6 DEF Step
        <4> QED
          BY <4>2 DEF OneLeads
      <3>3. CASE q # m
        <4>1. at'[m] = at[m] /\ next'[m] = next[m]
          BY <1>1, <1>4, <3>3 DEF Start, Step, FindDatabase, CreateDatabase, FindLedger,
             CreateLedger, FindMigration, CreateTable, Record, Advance, Goes
        <4>2. CASE UNCHANGED <<database, ledger, applied>>
          BY <3>1, <4>1, <4>2 DEF OneLeads, Leads
        <4>3. CASE CreateDatabase(q)
          <5>1. Leads(m)' \/ Leads(q)'
            BY <1>1, <3>1, <4>1, <4>3 DEF CreateDatabase, Goes, Leads
          <5> QED
            BY <5>1 DEF OneLeads
        <4>4. CASE CreateLedger(q)
          <5>1. Leads(m)' \/ Leads(q)'
            BY <1>1, <3>1, <4>1, <4>4 DEF CreateLedger, Goes, Leads
          <5> QED
            BY <5>1 DEF OneLeads
        <4>5. CASE Record(q)
          <5>1. Leads(m)' \/ Leads(q)'
            BY <1>1, <3>1, <4>1, <4>5 DEF Record, Advance, Goes, Leads
          <5> QED
            BY <5>1 DEF OneLeads
        <4> QED
          BY <1>4, <4>2, <4>3, <4>4, <4>5
          DEF Start, Step, FindDatabase, FindLedger, FindMigration, CreateTable
      <3> QED
        BY <3>2, <3>3
    <2> QED
      BY <2>1, <2>2
  <1> QED
    BY <1>2, <1>3, <1>4 DEF Next

(* Processes that migrate at the same time fail on each other's work, but  *)
(* not all of them, in any number and with any registry in which a table   *)
(* refers only to earlier ones.                                            *)
THEOREM LeaderGetsThrough ==
    ASSUME Migrators # {}, \A i \in Registry : References[i] \subseteq 1 .. i - 1
    PROVE  Spec => []OneGetsThrough
  <1>1. Init => OneLeads
    BY DEF Init, OneLeads, Leads
  <1>2. Inv /\ OneLeads /\ [Next]_vars => OneLeads'
    BY LeadPasses
  <1>3. OneLeads => OneGetsThrough
    BY DEF OneLeads, Leads, OneGetsThrough
  <1> QED
    BY <1>1, <1>2, <1>3, Invariance, PTL DEF Spec
=============================================================================
