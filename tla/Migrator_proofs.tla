--------------------------- MODULE Migrator_proofs ---------------------------
(***************************************************************************)
(* Proofs about Migrator for any finite set of migrations and any number   *)
(* of commands and faults.                                                 *)
(***************************************************************************)
EXTENDS Migrator, FiniteSetTheorems, WellFoundedInduction, TLAPS

-----------------------------------------------------------------------------
(* The least and the greatest of some versions. *)

(* Among any subsets of a finite set there is a smallest one. *)
LEMMA SmallestOf ==
  ASSUME NEW S, IsFiniteSet(S), NEW B, B \subseteq SUBSET S, B # {}
  PROVE  \E U \in B : \A V \in B : V \subseteq U => V = U
<1>1. IsWellFoundedOn(StrictSubsetOrdering(S), SUBSET S)
  BY FS_StrictSubsetOrderingWellFounded, FS_FiniteSubsetsOfFinite
<1>2. PICK U \in B : \A V \in B : ~(<<V, U>> \in StrictSubsetOrdering(S))
  BY <1>1, WFMin
<1> QED
  BY <1>2 DEF StrictSubsetOrdering

LEMMA SmallestValue ==
  ASSUME NEW S, IsFiniteSet(S), S # {}, NEW f \in [S -> SUBSET S]
  PROVE  \E m \in S : \A x \in S : f[x] \subseteq f[m] => f[x] = f[m]
<1>1. PICK B : B = {T \in SUBSET S : \E x \in S : T = f[x]}
  OBVIOUS
<1>2. B \subseteq SUBSET S /\ B # {} /\ \A x \in S : f[x] \in B
  BY <1>1
<1>3. PICK U \in B : \A V \in B : V \subseteq U => V = U
  BY <1>2, SmallestOf
<1>4. PICK m \in S : U = f[m]
  BY <1>1
<1> QED
  BY <1>2, <1>3, <1>4

LEMMA MaxOfFinite ==
  ASSUME NEW S, IsFiniteSet(S), S # {}
  PROVE  S \subseteq Nat => Max(S) \in S /\ \A x \in S : x <= Max(S)
<1>1. PICK f : f = [x \in S |-> {y \in S : y >= x}]
  OBVIOUS
<1>2. f \in [S -> SUBSET S]
  BY <1>1
<1>3. PICK m \in S : \A x \in S : f[x] \subseteq f[m] => f[x] = f[m]
  BY <1>2, SmallestValue
<1> SUFFICES ASSUME S \subseteq Nat PROVE Max(S) \in S /\ \A x \in S : x <= Max(S)
  OBVIOUS
<1>4. ASSUME NEW x \in S PROVE x <= m
  <2>1. SUFFICES ASSUME x > m PROVE FALSE
    OBVIOUS
  <2>2. \A y \in S : y \in Nat
    OBVIOUS
  <2>3. f[x] = {y \in S : y >= x} /\ f[m] = {y \in S : y >= m}
    BY <1>1
  <2>4. m \in f[m] /\ m \notin f[x]
    BY <2>1, <2>2, <2>3
  <2>5. ASSUME NEW y \in S, y >= x PROVE y >= m
    <3>1. x \in Nat /\ y \in Nat /\ m \in Nat
      BY <2>2
    <3> QED
      BY <2>1, <2>5, <3>1
  <2>6. f[x] \subseteq f[m]
    BY <2>3, <2>5
  <2>7. f[x] = f[m]
    BY <1>3, <2>6
  <2> QED
    BY <2>4, <2>7
<1> QED
  BY <1>4 DEF Max

LEMMA MinOfFinite ==
  ASSUME NEW S, IsFiniteSet(S), S # {}
  PROVE  S \subseteq Nat => Min(S) \in S /\ \A x \in S : Min(S) <= x
<1>1. PICK f : f = [x \in S |-> {y \in S : y <= x}]
  OBVIOUS
<1>2. f \in [S -> SUBSET S]
  BY <1>1
<1>3. PICK m \in S : \A x \in S : f[x] \subseteq f[m] => f[x] = f[m]
  BY <1>2, SmallestValue
<1> SUFFICES ASSUME S \subseteq Nat PROVE Min(S) \in S /\ \A x \in S : Min(S) <= x
  OBVIOUS
<1>4. ASSUME NEW x \in S PROVE m <= x
  <2>1. SUFFICES ASSUME x < m PROVE FALSE
    OBVIOUS
  <2>2. \A y \in S : y \in Nat
    OBVIOUS
  <2>3. f[x] = {y \in S : y <= x} /\ f[m] = {y \in S : y <= m}
    BY <1>1
  <2>4. m \in f[m] /\ m \notin f[x]
    BY <2>1, <2>2, <2>3
  <2>5. ASSUME NEW y \in S, y <= x PROVE y <= m
    <3>1. x \in Nat /\ y \in Nat /\ m \in Nat
      BY <2>2
    <3> QED
      BY <2>1, <2>5, <3>1
  <2>6. f[x] \subseteq f[m]
    BY <2>3, <2>5
  <2>7. f[x] = f[m]
    BY <1>3, <2>6
  <2> QED
    BY <2>4, <2>7
<1> QED
  BY <1>4 DEF Min

(* Versions, and rows with version 0, have a least and a greatest. *)
LEMMA Extremes ==
  ASSUME NEW S \in SUBSET (Versions \cup {0}), S # {}
  PROVE  /\ S \subseteq Nat
         /\ Min(S) \in S /\ \A x \in S : Min(S) <= x
         /\ Max(S) \in S /\ \A x \in S : x <= Max(S)
<1>1. Versions \cup {0} \subseteq Nat /\ IsFiniteSet(Versions \cup {0})
  BY MigratorAssumption, FS_AddElement DEF MigratorAssumption
<1>2. S \subseteq Nat /\ IsFiniteSet(S)
  BY <1>1, FS_Subset
<1> QED
  BY <1>2, MinOfFinite, MaxOfFinite

LEMMA VersionsPositive ==
  /\ 0 \notin Versions
  /\ \A v \in Versions : v \in Nat /\ v > 0
  BY MigratorAssumption DEF MigratorAssumption

-----------------------------------------------------------------------------
(***************************************************************************)
(* The invariant.  RecordAccuracy speaks of the time between commands; it  *)
(* holds there because while a command runs the schema and the records     *)
(* differ by what is unsure (torn or crossed), by the one version that it  *)
(* has run and not recorded, or by what reshard has still to put back.     *)
(***************************************************************************)

Names == {"none", "up", "up-by-one", "down", "down-to", "reset", "rerun", "reshard", "status"}

CommandFits(c) ==
    c \in [name : Names, target : Versions \cup {0}, files : SUBSET Versions,
           outOfOrder : BOOLEAN]

CmdFits ==
    /\ CommandFits(cmd)
    /\ step \notin {"ok", "failed"} => cmd.files # {}
    /\ step = "status" => cmd.name \in {"reset", "rerun", "status"}
    /\ step \in {"reopen", "read", "truncate", "fill"} => cmd.name = "reshard"
    /\ step \in {"plan down", "down", "down record"} => cmd.name # "up"

TodoFits ==
    /\ step \in {"up", "up record", "down", "down record"} => todo # {}
    /\ step = "up record" => Min(todo) \in tables
    /\ step = "down record" => Max(todo) \notin tables

Differing(s, t) == (s \ t) \cup (t \ s)

Unrecorded ==
    CASE step = "up record" -> {Min(todo)}
      [] step = "down record" -> {Max(todo)}
      [] OTHER -> {}

(* What is left to go up is not below what is known to be applied, unless  *)
(* the command may go out of order, and an up leaves nothing out.          *)
UpFits ==
    /\ cmd.outOfOrder \/ \A w \in Known, v \in todo : w <= v
    /\ cmd.name \in {"up", "rerun"} => Wanted \subseteq tables \cup Unsure \cup stale \cup todo

(* What is known to be applied is left to go down, or below what is. *)
DownFits == \A w \in Known : w \in todo \/ \A v \in todo : w < v

(* Between the reading of the rows and their deletion: what reshard will   *)
(* put back differs from the schema by rows it should not have read, and   *)
(* by those that came too late.                                            *)
ReadFits ==
    /\ deleting \cup stale \subseteq todo
    /\ unseen \cap todo = {}
    /\ rows \cup UnderWay \subseteq todo \cup unseen \cup {0}
    /\ Differing(tables, todo \cup UnderWay)
         \subseteq Unsure \cup stale \cup ((unseen \cap rows) \ UnderWay)

FillFits ==
    /\ deleting = {} /\ stale \subseteq todo
    /\ Differing(tables, (todo \cup rows \cup UnderWay) \ {0}) \subseteq Unsure \cup stale

Accurate ==
    /\ step # "fill" => Differing(tables, Settled) \subseteq Unsure \cup Unrecorded
    /\ step \in {"up", "up record"} => UpFits
    /\ step \in {"down", "down record"} => DownFits
    /\ step = "truncate" => ReadFits
    /\ step = "fill" => FillFits

MigratorInv == MigratorTypeOK /\ CmdFits /\ TodoFits /\ Accurate

-----------------------------------------------------------------------------
(* The commands, and how one goes on. *)

LEMMA CommandShape ==
  ASSUME NEW name \in Names, NEW targets \in SUBSET (Versions \cup {0}),
         NEW orders \in SUBSET BOOLEAN, NEW c \in Command(name, targets, orders)
  PROVE  CommandFits(c) /\ c.files # {}
<1>1. c \in [name : {name}, target : targets, files : (SUBSET Versions) \ {{}}, outOfOrder : orders]
  BY DEF Command
<1>2. c.files \in (SUBSET Versions) \ {{}}
  BY <1>1
<1>3. c.name \in Names /\ c.target \in Versions \cup {0} /\ c.outOfOrder \in BOOLEAN
  BY <1>1
<1>4. c = [name |-> c.name, target |-> c.target, files |-> c.files, outOfOrder |-> c.outOfOrder]
  BY <1>1
<1>5. c.files \in SUBSET Versions /\ c.files # {}
  BY <1>2
<1>6. PICK n \in Names, t \in Versions \cup {0}, f \in SUBSET Versions, o \in BOOLEAN :
        c = [name |-> n, target |-> t, files |-> f, outOfOrder |-> o]
  BY <1>3, <1>4, <1>5
<1> QED
  BY <1>5, <1>6 DEF CommandFits

LEMMA CommandsFit ==
  ASSUME NEW c \in Commands
  PROVE  CommandFits(c) /\ c.files # {}
<1>1. Versions # {} => Max(Versions) \in Versions
  BY Extremes
<1>2. c \in UpCmd \/ c \in UpByOneCmd => c.files \in (SUBSET Versions) \ {{}}
  BY DEF UpCmd, UpByOneCmd, Command
<1>3. ASSUME c \in UpCmd \/ c \in UpByOneCmd PROVE CommandFits(c) /\ c.files # {}
  <2>a. Versions # {}
    BY <1>2, <1>3
  <2>1. {Max(Versions)} \in SUBSET (Versions \cup {0})
    BY <1>1, <2>a
  <2>2. c \in Command("up", {Max(Versions)}, BOOLEAN) \/ c \in Command("up-by-one", {Max(Versions)}, BOOLEAN)
    BY <1>3 DEF UpCmd, UpByOneCmd
  <2> QED
    BY <2>1, <2>2, CommandShape DEF Names
<1>4. ASSUME c \in UpToCmd \/ c \in DownToCmd PROVE CommandFits(c) /\ c.files # {}
  <2>1. c \in Command("up", Versions, BOOLEAN) \/ c \in Command("down-to", Versions \cup {0}, {FALSE})
    BY <1>4 DEF UpToCmd, DownToCmd
  <2>2. Versions \in SUBSET (Versions \cup {0})
    OBVIOUS
  <2> QED
    BY <2>1, <2>2, CommandShape DEF Names
<1>5. ASSUME c \in DownCmd \/ c \in ResetCmd \/ c \in RerunCmd \/ c \in ReshardCmd \/ c \in StatusCmd
      PROVE  CommandFits(c) /\ c.files # {}
  <2>1. \/ c \in Command("down", {0}, {FALSE}) \/ c \in Command("reset", {0}, {FALSE})
        \/ c \in Command("rerun", {0}, BOOLEAN) \/ c \in Command("reshard", {0}, {FALSE})
        \/ c \in Command("status", {0}, {FALSE})
    BY <1>5 DEF DownCmd, ResetCmd, RerunCmd, ReshardCmd, StatusCmd
  <2>2. {0} \in SUBSET (Versions \cup {0})
    OBVIOUS
  <2> QED
    BY <2>1, <2>2, CommandShape DEF Names
<1> QED
  BY <1>3, <1>4, <1>5 DEF Commands

LEMMA NoCommandFits == CommandFits(NoCommand)
  BY DEF CommandFits, NoCommand, Names

LEMMA Retarget ==
  ASSUME CommandFits(cmd), NEW t \in Versions \cup {0}
  PROVE  /\ CommandFits([cmd EXCEPT !.target = t])
         /\ [cmd EXCEPT !.target = t].name = cmd.name
         /\ [cmd EXCEPT !.target = t].files = cmd.files
  BY DEF CommandFits

MigratorFits == MigratorTypeOK /\ CmdFits /\ TodoFits

LEMMA EndFits ==
  ASSUME NEW r \in {"ok", "failed"}, End(r)
  PROVE  CmdFits' /\ TodoFits' /\ cmd' \in Commands \cup {NoCommand}
<1>1. step' = r /\ cmd' = NoCommand
  BY DEF End
<1>2. CmdFits'
  BY <1>1, NoCommandFits DEF CmdFits, CommandFits
<1> QED
  BY <1>1, <1>2 DEF TodoFits

LEMMA ProceedCases ==
  ASSUME NEW d, NEW left, Proceed(d, left)
  PROVE  \/ left # {} /\ step' = d /\ cmd' = cmd
         \/ /\ left = {} /\ d = "down" /\ cmd.name = "rerun"
            /\ step' = "plan up" /\ cmd' = [cmd EXCEPT !.target = Max(Versions)]
         \/ left = {} /\ ~(d = "down" /\ cmd.name = "rerun") /\ End("ok")
  BY DEF Proceed

(* Going on is as the invariant has it when what is left is versions, and  *)
(* the command is one of those that go that way.                           *)
LEMMA ProceedFits ==
  ASSUME MigratorFits, NEW d \in {"up", "down"}, Proceed(d, todo'), cmd.files # {},
         d = "down" => cmd.name # "up"
  PROVE  /\ CmdFits' /\ TodoFits'
         /\ cmd' \in Commands \cup {NoCommand} \/ cmd'.name \in {"reset", "rerun"}
         /\ step' \in {"up", "down", "plan up", "ok"}
         /\ cmd'.name = cmd.name \/ step' = "ok"
<1>1. CommandFits(cmd)
  BY DEF MigratorFits, CmdFits, CommandFits
<1>2. CASE todo' # {} /\ step' = d /\ cmd' = cmd
  BY <1>1, <1>2 DEF MigratorFits, MigratorTypeOK, CmdFits, CommandFits, TodoFits
<1>3. CASE /\ cmd.name = "rerun"
           /\ step' = "plan up" /\ cmd' = [cmd EXCEPT !.target = Max(Versions)]
  <2>1. Versions # {}
    BY <1>1 DEF CommandFits
  <2>2. PICK top \in Versions : top = Max(Versions)
    BY <2>1, Extremes
  <2>3. cmd' = [cmd EXCEPT !.target = top]
    BY <1>3, <2>2
  <2>4. CommandFits(cmd') /\ cmd'.name = cmd.name /\ cmd'.files = cmd.files
    BY <1>1, <2>3, Retarget
  <2>5. CmdFits'
    BY <1>3, <2>4 DEF CmdFits, CommandFits
  <2> QED
    BY <1>3, <2>4, <2>5 DEF TodoFits
<1>4. CASE End("ok")
  BY <1>4, EndFits DEF End
<1> QED
  BY <1>2, <1>3, <1>4, ProceedCases

-----------------------------------------------------------------------------
(* The version table. *)

LEMMA Inserted ==
  ASSUME MigratorTypeOK, NEW v \in Versions \cup {0}, Insert(v)
  PROVE  /\ rows' \subseteq Versions \cup {0}
         /\ sending' \in [Versions \cup {0} -> Nat]
         /\ deleting' \subseteq rows' \ {0}
         /\ Settled' = Settled \cup ({v} \ {0})
         /\ UnderWay \subseteq UnderWay'
         /\ v = 0 => UnderWay' = UnderWay /\ rows' \subseteq rows \cup {0} /\ deleting' = deleting
<1>1. CASE /\ rows' = rows \cup {v}
           /\ deleting' = deleting \ {v}
           /\ UNCHANGED sending
  <2>1. UnderWay' = UnderWay
    BY <1>1 DEF UnderWay
  <2>2. rows' \ deleting' = (rows \ deleting) \cup {v}
    BY <1>1
  <2>3. Settled' = Settled \cup ({v} \ {0})
    BY <2>1, <2>2 DEF Settled
  <2> QED
    BY <1>1, <2>1, <2>3 DEF MigratorTypeOK
<1>2. CASE /\ sending' = [sending EXCEPT ![v] = @ + 1]
           /\ UNCHANGED <<rows, deleting>>
  <2>a. sending \in [Versions \cup {0} -> Nat] /\ sending[v] \in Nat
    BY DEF MigratorTypeOK
  <2>b. PICK k \in Nat : k = sending[v] + 1
    BY <2>a
  <2>c. sending' = [sending EXCEPT ![v] = k]
    BY <1>2, <2>b
  <2>1. sending' \in [Versions \cup {0} -> Nat]
    BY <2>a, <2>c
  <2>2. \A w \in Versions \cup {0} : sending'[w] > 0 <=> sending[w] > 0 \/ w = v
    BY <2>a, <2>b, <2>c
  <2>3. UnderWay' = UnderWay \cup ({v} \ {0})
    BY <2>2, VersionsPositive DEF UnderWay
  <2>4. Settled' = Settled \cup ({v} \ {0})
    BY <1>2, <2>3 DEF Settled
  <2> QED
    BY <1>2, <2>1, <2>3, <2>4 DEF MigratorTypeOK
<1> QED
  BY <1>1, <1>2 DEF Insert

LEMMA Deleted ==
  ASSUME MigratorTypeOK, NEW v \in Versions, Delete(v)
  PROVE  /\ rows' = rows /\ sending' = sending
         /\ deleting' \subseteq rows' \ {0}
         /\ Settled \ {v} \subseteq Settled' /\ Settled' \subseteq Settled
         /\ v \notin UnderWay => v \notin Settled'
<1>1. rows' = rows /\ sending' = sending /\ deleting' = deleting \cup ({v} \cap rows)
  BY DEF Delete
<1>2. UnderWay' = UnderWay
  BY <1>1 DEF UnderWay
<1> QED
  BY <1>1, <1>2, VersionsPositive DEF MigratorTypeOK, Settled

LEMMA Arrived ==
  ASSUME MigratorTypeOK, NEW v \in Versions \cup {0}, Arrive(v)
  PROVE  /\ rows' \subseteq Versions \cup {0}
         /\ sending' \in [Versions \cup {0} -> Nat]
         /\ deleting' \subseteq rows' \ {0}
         /\ Settled' = Settled
         /\ UnderWay' \subseteq UnderWay /\ UnderWay \subseteq UnderWay' \cup {v}
         /\ v # 0 => v \in UnderWay
         /\ rows' = rows \cup {v} /\ deleting' \subseteq deleting
<1>1. /\ sending[v] > 0 /\ sending' = [sending EXCEPT ![v] = @ - 1]
      /\ rows' = rows \cup {v} /\ deleting' = deleting \ {v}
  BY DEF Arrive
<1>a. sending \in [Versions \cup {0} -> Nat] /\ sending[v] \in Nat
  BY DEF MigratorTypeOK
<1>b. PICK k \in Nat : k = sending[v] - 1
  BY <1>1, <1>a
<1>c. sending' = [sending EXCEPT ![v] = k]
  BY <1>1, <1>b
<1>2. sending' \in [Versions \cup {0} -> Nat]
  BY <1>a, <1>c
<1>3. \A w \in Versions : (sending'[w] > 0 => sending[w] > 0) /\ (w # v => sending'[w] = sending[w])
  BY <1>1, <1>a, <1>b, <1>c
<1>4. UnderWay' \subseteq UnderWay /\ UnderWay \subseteq UnderWay' \cup {v} /\ (v # 0 => v \in UnderWay)
  BY <1>1, <1>3 DEF UnderWay
<1>5. Settled' = Settled
  BY <1>1, <1>4 DEF Settled
<1> QED
  BY <1>1, <1>2, <1>4, <1>5 DEF MigratorTypeOK

LEMMA Mutated ==
  ASSUME MigratorTypeOK, NEW v \in Versions \cup {0}, Mutate(v)
  PROVE  /\ deleting # {}
         /\ rows' \subseteq rows /\ sending' = sending
         /\ deleting' \subseteq rows' \ {0} /\ deleting' \subseteq deleting
         /\ Settled' = Settled
         /\ UnderWay' = UnderWay
<1>1. /\ v \in deleting /\ deleting' = deleting \ {v} /\ rows' = rows \ {v} /\ sending' = sending
  BY DEF Mutate
<1>2. UnderWay' = UnderWay
  BY <1>1 DEF UnderWay
<1>3. Settled' = Settled
  BY <1>1, <1>2 DEF Settled
<1> QED
  BY <1>1, <1>2, <1>3 DEF MigratorTypeOK

LEMMA TableCreated ==
  ASSUME MigratorTypeOK, CreateVersionTable
  PROVE  /\ rows' \subseteq Versions \cup {0}
         /\ sending' \in [Versions \cup {0} -> Nat]
         /\ deleting' \subseteq rows' \ {0}
         /\ Settled' = Settled
         /\ UnderWay' = UnderWay
<1>1. CASE Insert(0)
  BY <1>1, Inserted
<1>2. CASE UNCHANGED <<rows, sending, deleting>>
  BY <1>2 DEF Settled, UnderWay, MigratorTypeOK
<1> QED
  BY <1>1, <1>2 DEF CreateVersionTable

-----------------------------------------------------------------------------
(* Every action keeps types, commands and what is left to do as they must  *)
(* be.                                                                     *)

FitsDefs ==
    /\ tables \subseteq Versions /\ todo \subseteq Versions
    /\ CommandFits(cmd)
    /\ todo # {} => /\ Min(todo) \in Versions /\ Max(todo) \in Versions
                    /\ Min(todo) \in todo /\ Max(todo) \in todo
                    /\ \A x \in todo : Min(todo) <= x /\ x <= Max(todo)

LEMMA FitsGives ==
  ASSUME MigratorFits
  PROVE  FitsDefs
<1>1. tables \subseteq Versions /\ todo \subseteq Versions /\ CommandFits(cmd)
  BY DEF MigratorFits, MigratorTypeOK, CmdFits
<1> QED
  BY <1>1, Extremes DEF FitsDefs

LEMMA StartFits ==
  ASSUME MigratorFits, NEW c \in Commands, Start(c)
  PROVE  MigratorFits'
<1>1. CommandFits(c) /\ c.files # {}
  BY CommandsFit
<1>b. MaxCommands \in Nat
  BY MigratorAssumption DEF MigratorAssumption
<1>a. commands \in 0 .. MaxCommands /\ commands < MaxCommands /\ commands' = commands + 1
  BY DEF MigratorFits, MigratorTypeOK, Start
<1>2. cmd' = c /\ step' = "store" /\ commands' \in 0 .. MaxCommands
  BY <1>a, <1>b DEF Start
<1>3. CmdFits' /\ TodoFits'
  BY <1>1, <1>2 DEF CmdFits, CommandFits, TodoFits
<1> QED
  BY <1>2, <1>3 DEF MigratorFits, MigratorTypeOK, Start, dbVars, history

LEMMA BackgroundFits ==
  ASSUME MigratorFits, NEW v \in Versions \cup {0}, Arrive(v) \/ Mutate(v)
  PROVE  MigratorFits'
<1>1. /\ rows' \subseteq Versions \cup {0}
      /\ sending' \in [Versions \cup {0} -> Nat]
      /\ deleting' \subseteq rows' \ {0}
  BY Arrived, Mutated DEF MigratorFits, MigratorTypeOK
<1>2. UNCHANGED <<tables, cmd, step, todo, commands, faults, history>>
  BY DEF Arrive, Mutate
<1>3. CmdFits' /\ TodoFits'
  BY <1>2 DEF MigratorFits, CmdFits, CommandFits, TodoFits
<1> QED
  BY <1>1, <1>2, <1>3 DEF MigratorFits, MigratorTypeOK, history

LEMMA NewStoreFits ==
  ASSUME MigratorFits, NewStore
  PROVE  MigratorFits'
<1>1. /\ rows' \subseteq Versions \cup {0}
      /\ sending' \in [Versions \cup {0} -> Nat]
      /\ deleting' \subseteq rows' \ {0}
  BY TableCreated DEF MigratorFits, NewStore
<1>2. UNCHANGED <<tables, cmd, todo, commands, faults, history>>
  BY DEF NewStore
<1>3. step \in {"store", "reopen"}
  BY DEF NewStore
<1>4. /\ step' = "read" => step = "reopen"
      /\ step' = "reopen" => cmd.name = "reshard"
      /\ step' = "status" => cmd.name \in {"reset", "rerun", "status"}
      /\ step' = "plan down" => cmd.name # "up"
      /\ step' \in {"read", "reopen", "status", "plan up", "plan down"}
  BY DEF NewStore
<1>5. CmdFits' /\ TodoFits'
  BY <1>2, <1>3, <1>4 DEF MigratorFits, CmdFits, CommandFits, TodoFits
<1> QED
  BY <1>1, <1>2, <1>4, <1>5 DEF MigratorFits, MigratorTypeOK, history

LEMMA StatusFits ==
  ASSUME MigratorFits, Status
  PROVE  MigratorFits'
<1>1. End("ok")
  BY DEF Status
<1>2. CmdFits' /\ TodoFits' /\ cmd' \in Commands \cup {NoCommand} /\ step' = "ok"
  BY <1>1, EndFits DEF End
<1> QED
  BY <1>2 DEF MigratorFits, MigratorTypeOK, Status, dbVars, history

LEMMA ResetFits ==
  ASSUME MigratorFits, Reset
  PROVE  MigratorFits'
<1>1. CommandFits(cmd) /\ cmd.files # {} /\ cmd.name \in {"reset", "rerun"}
  BY DEF MigratorFits, CmdFits, Reset
<1>2. PICK t \in Versions : t = Min(cmd.files)
  <2>1. cmd.files \subseteq Versions
    BY <1>1 DEF CommandFits
  <2> QED
    BY <1>1, <2>1, Extremes
<1>3. cmd' = [cmd EXCEPT !.target = t] /\ step' = "plan down"
  BY <1>2 DEF Reset
<1>4. CommandFits(cmd') /\ cmd'.name = cmd.name /\ cmd'.files = cmd.files
  BY <1>1, <1>3, Retarget
<1>5. CmdFits' /\ TodoFits'
  BY <1>1, <1>3, <1>4 DEF CmdFits, CommandFits, TodoFits
<1> QED
  BY <1>1, <1>3, <1>4, <1>5 DEF MigratorFits, MigratorTypeOK, Reset, dbVars, history

LEMMA RefuseFits ==
  ASSUME MigratorFits, Refuse
  PROVE  MigratorFits'
<1>1. End("failed")
  BY DEF Refuse
<1>2. CmdFits' /\ TodoFits' /\ cmd' \in Commands \cup {NoCommand} /\ step' = "failed"
  BY <1>1, EndFits DEF End
<1>3. UNCHANGED <<dbVars, todo, commands, faults, history>>
  BY DEF Refuse
<1> QED
  BY <1>2, <1>3 DEF MigratorFits, MigratorTypeOK, dbVars, history

LEMMA LookFits ==
  ASSUME MigratorTypeOK, Look
  PROVE  stale' \subseteq Versions /\ unseen' \subseteq Versions
<1>1. deleting \subseteq Versions /\ UnderWay \subseteq Versions
  BY DEF MigratorTypeOK, UnderWay
<1> QED
  BY <1>1 DEF Look

(* The bounds of what there is to do, before a plan. *)
LEMMA PendingIn ==
  ASSUME MigratorFits
  PROVE  /\ Pending \subseteq Versions
         /\ Pending # {} => Min(Pending) \in Pending
<1>1. Pending \subseteq Versions
  BY DEF MigratorFits, CmdFits, CommandFits, Pending
<1> QED
  BY <1>1, Extremes

LEMMA AppliedIn ==
  ASSUME MigratorFits
  PROVE  /\ Applied \subseteq Versions
         /\ \A v \in Applied : v \in rows /\ v > cmd.target
         /\ Applied # {} => Max(Applied) \in Applied /\ \A v \in Applied : v <= Max(Applied)
<1>1. CommandFits(cmd) /\ rows \subseteq Versions \cup {0}
  BY DEF MigratorFits, MigratorTypeOK, CmdFits
<1>2. cmd.target \in Nat
  BY <1>1, VersionsPositive DEF CommandFits
<1>3. \A v \in Applied : v \in rows /\ v > cmd.target
  BY DEF Applied, ListMigrations
<1>4. 0 \notin Applied
  BY <1>2, <1>3
<1>5. Applied \subseteq Versions
  BY <1>1, <1>3, <1>4
<1> QED
  BY <1>3, <1>5, Extremes

LEMMA PlanUpFits ==
  ASSUME MigratorFits, PlanUp
  PROVE  MigratorFits'
<1>1. /\ step = "plan up" /\ CanGoUp
      /\ todo' = IF ByOne THEN {Min(Pending)} ELSE Pending
      /\ Proceed("up", todo')
      /\ Look
      /\ UNCHANGED <<dbVars, commands, faults, torn, crossed>>
  BY DEF PlanUp, Plan
<1>2. todo' \subseteq Versions
  BY <1>1, PendingIn DEF CanGoUp
<1>3. cmd.files # {}
  BY <1>1 DEF MigratorFits, CmdFits
<1>4. /\ CmdFits' /\ TodoFits'
      /\ cmd' \in Commands \cup {NoCommand} \/ cmd'.name \in {"reset", "rerun"}
      /\ step' \in {"up", "down", "plan up", "ok"}
  BY <1>1, <1>3, ProceedFits
<1>5. stale' \subseteq Versions /\ unseen' \subseteq Versions
  BY <1>1, LookFits DEF MigratorFits
<1> QED
  BY <1>1, <1>2, <1>4, <1>5, VersionsPositive DEF MigratorFits, MigratorTypeOK, dbVars, history

LEMMA PlanDownFits ==
  ASSUME MigratorFits, PlanDown
  PROVE  MigratorFits'
<1>1. /\ step = "plan down" /\ CanGoDown
      /\ todo' = IF ByOne THEN {Max(Applied)} ELSE Applied
      /\ Proceed("down", todo')
      /\ Look
      /\ UNCHANGED <<dbVars, commands, faults, torn, crossed>>
  BY DEF PlanDown, Plan
<1>2. todo' \subseteq Versions
  BY <1>1, AppliedIn DEF CanGoDown
<1>3. cmd.files # {} /\ cmd.name # "up"
  BY <1>1 DEF MigratorFits, CmdFits
<1>4. /\ CmdFits' /\ TodoFits'
      /\ cmd' \in Commands \cup {NoCommand} \/ cmd'.name \in {"reset", "rerun"}
      /\ step' \in {"up", "down", "plan up", "ok"}
  BY <1>1, <1>3, ProceedFits
<1>5. stale' \subseteq Versions /\ unseen' \subseteq Versions
  BY <1>1, LookFits DEF MigratorFits
<1> QED
  BY <1>1, <1>2, <1>4, <1>5, VersionsPositive DEF MigratorFits, MigratorTypeOK, dbVars, history

LEMMA RunFits ==
  ASSUME MigratorFits, RunUp \/ RunDown
  PROVE  MigratorFits'
<1>1. FitsDefs /\ todo # {}
  BY FitsGives DEF MigratorFits, TodoFits, RunUp, RunDown
<1>2. CASE RunUp
  <2>1. CmdFits' /\ TodoFits'
    BY <1>1, <1>2 DEF FitsDefs, MigratorFits, CmdFits, CommandFits, TodoFits, RunUp
  <2> QED
    BY <1>1, <1>2, <2>1 DEF FitsDefs, MigratorFits, MigratorTypeOK, RunUp, history
<1>3. CASE RunDown
  <2>1. CmdFits' /\ TodoFits'
    BY <1>1, <1>3 DEF FitsDefs, MigratorFits, CmdFits, CommandFits, TodoFits, RunDown
  <2> QED
    BY <1>1, <1>3, <2>1 DEF FitsDefs, MigratorFits, MigratorTypeOK, RunDown, history
<1> QED
  BY <1>2, <1>3

LEMMA RecordUpFits ==
  ASSUME MigratorFits, RecordUp
  PROVE  MigratorFits'
<1>1. PICK m : m = Min(todo)
  OBVIOUS
<1>2. /\ step = "up record" /\ Insert(m) /\ Proceed("up", todo')
      /\ todo' = todo \ {m} /\ torn' = torn \ {m} /\ crossed' = crossed \ {m}
      /\ UNCHANGED <<tables, commands, faults, stale, unseen>>
  BY <1>1 DEF RecordUp, Recorded
<1>3. m \in Versions /\ cmd.files # {}
  BY <1>1, <1>2, FitsGives DEF FitsDefs, MigratorFits, TodoFits, CmdFits
<1>4. /\ CmdFits' /\ TodoFits'
      /\ cmd' \in Commands \cup {NoCommand} \/ cmd'.name \in {"reset", "rerun"}
      /\ step' \in {"up", "down", "plan up", "ok"}
  BY <1>2, <1>3, ProceedFits
<1>5. /\ rows' \subseteq Versions \cup {0}
      /\ sending' \in [Versions \cup {0} -> Nat]
      /\ deleting' \subseteq rows' \ {0}
  BY <1>2, <1>3, Inserted DEF MigratorFits
<1> QED
  BY <1>2, <1>4, <1>5 DEF MigratorFits, MigratorTypeOK

LEMMA RecordDownFits ==
  ASSUME MigratorFits, RecordDown
  PROVE  MigratorFits'
<1>1. PICK m : m = Max(todo)
  OBVIOUS
<1>2. /\ step = "down record" /\ Delete(m) /\ Proceed("down", todo')
      /\ todo' = todo \ {m} /\ torn' = torn \ {m} /\ crossed' \subseteq crossed \cup {m}
      /\ UNCHANGED <<tables, commands, faults, stale, unseen>>
  BY <1>1 DEF RecordDown, Recorded
<1>3. m \in Versions /\ cmd.files # {} /\ cmd.name # "up"
  BY <1>1, <1>2, FitsGives DEF FitsDefs, MigratorFits, TodoFits, CmdFits
<1>4. /\ CmdFits' /\ TodoFits'
      /\ cmd' \in Commands \cup {NoCommand} \/ cmd'.name \in {"reset", "rerun"}
      /\ step' \in {"up", "down", "plan up", "ok"}
  BY <1>2, <1>3, ProceedFits
<1>5. /\ rows' = rows /\ sending' = sending
      /\ deleting' \subseteq rows' \ {0}
  BY <1>2, <1>3, Deleted DEF MigratorFits
<1>6. torn' \subseteq Versions /\ crossed' \subseteq Versions
  BY <1>2, <1>3 DEF MigratorFits, MigratorTypeOK
<1> QED
  BY <1>2, <1>4, <1>5, <1>6 DEF MigratorFits, MigratorTypeOK

LEMMA ReshardFits ==
  ASSUME MigratorFits, ReadRows \/ Truncate \/ Panic \/ Fill
  PROVE  MigratorFits'
<1>1. CASE ReadRows
  <2>1. CmdFits' /\ TodoFits'
    BY <1>1 DEF MigratorFits, CmdFits, CommandFits, TodoFits, ReadRows
  <2>2. stale' \subseteq Versions /\ unseen' \subseteq Versions
    BY <1>1, LookFits DEF MigratorFits, ReadRows
  <2> QED
    BY <1>1, <2>1, <2>2 DEF MigratorFits, MigratorTypeOK, ReadRows, dbVars, history
<1>2. CASE Truncate
  <2>1. CmdFits' /\ TodoFits'
    BY <1>2 DEF MigratorFits, CmdFits, CommandFits, TodoFits, Truncate
  <2>2. crossed' \subseteq crossed \cup unseen
    BY <1>2 DEF Truncate
  <2> QED
    BY <1>2, <2>1, <2>2 DEF MigratorFits, MigratorTypeOK, Truncate
<1>3. CASE Panic
  <2>1. CmdFits' /\ TodoFits' /\ cmd' \in Commands \cup {NoCommand} /\ step' = "failed"
    BY <1>3, EndFits DEF Panic, End
  <2> QED
    BY <1>3, <2>1 DEF MigratorFits, MigratorTypeOK, Panic, dbVars, history
<1>4. CASE Fill
  <2>1. CmdFits' /\ TodoFits' /\ cmd' \in Commands \cup {NoCommand} /\ step' = "ok"
    BY <1>4, EndFits DEF Fill, End
  <2>2. rows' = rows \cup ({0} \cup todo) /\ crossed' = crossed \cup stale
    BY <1>4 DEF Fill, BulkInsert
  <2> QED
    BY <1>4, <2>1, <2>2 DEF MigratorFits, MigratorTypeOK, Fill
<1> QED
  BY <1>1, <1>2, <1>3, <1>4

LEMMA FailFits ==
  ASSUME MigratorFits, Fail
  PROVE  MigratorFits'
<1>1. CmdFits' /\ TodoFits' /\ cmd' \in Commands \cup {NoCommand} /\ step' = "failed"
  BY EndFits DEF Fail, End
<1>b. MaxFaults \in Nat
  BY MigratorAssumption DEF MigratorAssumption
<1>a. faults \in 0 .. MaxFaults /\ faults < MaxFaults /\ faults' = faults + 1
  BY DEF MigratorFits, MigratorTypeOK, Fail
<1>2. faults' \in 0 .. MaxFaults
  BY <1>a, <1>b
<1>3. torn' \subseteq torn \cup todo
  BY FitsGives DEF FitsDefs, MigratorFits, TodoFits, Fail
<1>4. torn' \subseteq Versions /\ todo' = {}
  BY <1>3 DEF MigratorFits, MigratorTypeOK, Fail
<1>5. UNCHANGED <<dbVars, commands, crossed, stale, unseen>>
  BY DEF Fail
<1> QED
  BY <1>1, <1>2, <1>4, <1>5 DEF MigratorFits, MigratorTypeOK, dbVars, history

LEMMA FitsInit == Init => MigratorFits
<1> SUFFICES ASSUME Init PROVE MigratorFits
  OBVIOUS
<1>1. CmdFits /\ TodoFits
  BY NoCommandFits DEF Init, CmdFits, TodoFits
<1>2. MaxCommands \in Nat /\ MaxFaults \in Nat
  BY MigratorAssumption DEF MigratorAssumption
<1>3. commands \in 0 .. MaxCommands /\ faults \in 0 .. MaxFaults
  BY <1>2 DEF Init
<1>4. sending \in [Versions \cup {0} -> Nat]
  BY DEF Init
<1> QED
  BY <1>1, <1>3, <1>4 DEF Init, MigratorFits, MigratorTypeOK

LEMMA FitsStep == MigratorFits /\ [Next]_vars => MigratorFits'
<1> SUFFICES ASSUME MigratorFits, [Next]_vars PROVE MigratorFits'
  OBVIOUS
<1>1. CASE UNCHANGED vars
  <2>1. UNCHANGED <<tables, rows, sending, deleting, cmd, step, todo, commands, faults,
                    torn, crossed, stale, unseen>>
    BY <1>1 DEF vars, dbVars, history
  <2>2. MigratorTypeOK'
    BY <2>1 DEF MigratorFits, MigratorTypeOK
  <2> QED
    BY <2>1, <2>2 DEF MigratorFits, CmdFits, CommandFits, TodoFits
<1>2. CASE Next
  <2>1. CASE \E c \in Commands : Start(c)
    BY <2>1, StartFits
  <2>2. CASE \E v \in Versions \cup {0} : Arrive(v) \/ Mutate(v)
    BY <2>2, BackgroundFits
  <2>3. CASE NewStore \/ Status \/ Reset \/ PlanUp \/ PlanDown \/ Refuse
    BY <2>3, NewStoreFits, StatusFits, ResetFits, PlanUpFits, PlanDownFits, RefuseFits
  <2>4. CASE RunUp \/ RecordUp \/ RunDown \/ RecordDown
    BY <2>4, RunFits, RecordUpFits, RecordDownFits
  <2>5. CASE ReadRows \/ Truncate \/ Panic \/ Fill \/ Fail
    BY <2>5, ReshardFits, FailFits
  <2> QED
    BY <1>2, <2>1, <2>2, <2>3, <2>4, <2>5 DEF Next
<1> QED
  BY <1>1, <1>2

(* Nothing but versions is ever in the schema, in the table or on a        *)
(* command's list, whatever was cut or retried, and no row is about to be  *)
(* deleted that is not there.                                              *)
THEOREM MigratorTypeCorrect == Spec => []MigratorTypeOK
<1>1. MigratorFits => MigratorTypeOK
  BY DEF MigratorFits
<1> QED
  BY FitsInit, FitsStep, <1>1, PTL DEF Spec

-----------------------------------------------------------------------------
(* The schema and the records.                                             *)

LEMMA AccurateInit == Init => Accurate
<1> SUFFICES ASSUME Init PROVE Accurate
  OBVIOUS
<1>1. UnderWay = {} /\ Settled = {}
  BY DEF Init, UnderWay, Settled
<1> QED
  BY <1>1 DEF Init, Accurate, Differing

(* A step that does not touch the lists and leaves what will be recorded   *)
(* as it is; all but the steps of going up, down and reshard are of this   *)
(* kind.                                                                   *)
LEMMA QuietStep ==
  ASSUME Accurate, UNCHANGED <<tables, torn, crossed>>, Settled' = Settled,
         step \notin {"up record", "down record", "fill"},
         step' \notin {"up", "up record", "down", "down record", "truncate", "fill"}
  PROVE  Accurate'
<1>1. Unrecorded = {} /\ Unrecorded' = {}
  BY DEF Unrecorded
<1>2. Differing(tables, Settled) \subseteq Unsure
  BY <1>1 DEF Accurate
<1>3. Unsure' = Unsure
  BY DEF Unsure
<1> QED
  BY <1>1, <1>2, <1>3 DEF Accurate, Differing

LEMMA StartAccurate ==
  ASSUME Accurate, NEW c \in Commands, Start(c)
  PROVE  Accurate'
<1>1. UNCHANGED dbVars
  BY DEF Start
<1>2. Settled' = Settled
  BY <1>1 DEF dbVars, Settled, UnderWay
<1> QED
  BY <1>1, <1>2, QuietStep DEF Start, dbVars

LEMMA BackgroundAccurate ==
  ASSUME MigratorFits, Accurate, NEW v \in Versions \cup {0}, Arrive(v) \/ Mutate(v)
  PROVE  Accurate'
<1>1. /\ Settled' = Settled /\ UnderWay' \subseteq UnderWay /\ deleting' \subseteq deleting
      /\ UNCHANGED <<tables, cmd, step, todo, torn, crossed, stale, unseen>>
  BY Arrived, Mutated DEF MigratorFits, Arrive, Mutate, history
<1>2. Unrecorded' = Unrecorded /\ Unsure' = Unsure /\ Known' = Known /\ Wanted' = Wanted
  BY <1>1 DEF Unrecorded, Unsure, Known, Wanted
<1>3. step' # "fill" => Differing(tables, Settled)' \subseteq Unsure' \cup Unrecorded'
  BY <1>1, <1>2 DEF Accurate, Differing
<1>4. step' \in {"up", "up record"} => UpFits'
  BY <1>1, <1>2 DEF Accurate, UpFits
<1>5. step' \in {"down", "down record"} => DownFits'
  BY <1>1, <1>2 DEF Accurate, DownFits
<1>6. CASE Arrive(v)
  <2>1. /\ rows' = rows \cup {v} /\ UnderWay \subseteq UnderWay' \cup {v}
        /\ 0 \notin UnderWay
        /\ v # 0 => v \in UnderWay
    BY <1>6, Arrived, VersionsPositive DEF MigratorFits, UnderWay
  <2>2. ASSUME step' = "truncate" PROVE ReadFits'
    <3>1. ReadFits
      BY <1>1, <2>2 DEF Accurate
    <3>2. v \in todo \cup unseen \cup {0}
      BY <2>1, <3>1 DEF ReadFits
    <3>3. /\ (rows \cup UnderWay)' \subseteq todo' \cup unseen' \cup {0}
          /\ (deleting \cup stale)' \subseteq todo' /\ (unseen \cap todo)' = {}
      BY <1>1, <2>1, <3>1, <3>2 DEF ReadFits
    <3>4. ASSUME NEW x \in Differing(tables, todo \cup UnderWay)'
          PROVE  x \in Unsure' \cup stale' \cup ((unseen \cap rows) \ UnderWay)'
      <4>1. CASE x = v /\ v \in UnderWay \ UnderWay' /\ v \notin todo
        BY <1>1, <2>1, <3>2, <4>1
      <4>2. CASE x \in Differing(tables, todo \cup UnderWay)
        BY <1>1, <1>2, <2>1, <3>1, <4>2 DEF ReadFits
      <4> QED
        BY <1>1, <2>1, <3>4, <4>1, <4>2 DEF Differing
    <3> QED
      BY <3>3, <3>4 DEF ReadFits
  <2>3. ASSUME step' = "fill" PROVE FillFits'
    <3>1. FillFits
      BY <1>1, <2>3 DEF Accurate
    <3>2. ((todo \cup rows \cup UnderWay) \ {0})' = (todo \cup rows \cup UnderWay) \ {0}
      BY <1>1, <2>1
    <3> QED
      BY <1>1, <1>2, <3>1, <3>2 DEF FillFits, Differing
  <2> QED
    BY <1>3, <1>4, <1>5, <2>2, <2>3 DEF Accurate
<1>7. CASE Mutate(v)
  <2>1. v \in deleting /\ rows' = rows \ {v} /\ UnderWay' = UnderWay
    BY <1>7, Mutated DEF MigratorFits, Mutate
  <2>2. ASSUME step' = "truncate" PROVE ReadFits'
    <3>1. ReadFits
      BY <1>1, <2>2 DEF Accurate
    <3>2. v \notin unseen
      BY <2>1, <3>1 DEF ReadFits
    <3> QED
      BY <1>1, <1>2, <2>1, <3>1, <3>2 DEF ReadFits, Differing
  <2>3. step' # "fill"
    BY <1>1, <2>1 DEF Accurate, FillFits
  <2> QED
    BY <1>3, <1>4, <1>5, <2>2, <2>3 DEF Accurate
<1> QED
  BY <1>6, <1>7

LEMMA NewStoreAccurate ==
  ASSUME MigratorFits, Accurate, NewStore
  PROVE  Accurate'
<1>1. Settled' = Settled
  BY TableCreated DEF MigratorFits, NewStore
<1>2. /\ step \in {"store", "reopen"}
      /\ step' \in {"read", "reopen", "status", "plan up", "plan down"}
      /\ UNCHANGED <<tables, torn, crossed>>
  BY DEF NewStore, history
<1> QED
  BY <1>1, <1>2, QuietStep

LEMMA AskAccurate ==
  ASSUME Accurate, Status \/ Reset \/ Refuse
  PROVE  Accurate'
<1>1. /\ step \in {"status", "plan up", "plan down"}
      /\ step' \in {"ok", "failed", "plan down"}
      /\ UNCHANGED <<tables, rows, sending, deleting, torn, crossed>>
  BY DEF Status, Reset, Refuse, End, dbVars, history
<1>2. Settled' = Settled
  BY <1>1 DEF Settled, UnderWay
<1> QED
  BY <1>1, <1>2, QuietStep

(* What a plan finds: of the rows that stay all are of what is applied,    *)
(* and all that is known to be applied has its row.                        *)
LEMMA PlanFinds ==
  ASSUME MigratorFits, Accurate, step \in {"plan up", "plan down"}, Look,
         UNCHANGED <<tables, torn, crossed>>
  PROVE  /\ Differing(tables, Settled) \subseteq Unsure
         /\ Unsure' = Unsure
         /\ \A w \in rows \ stale' : w # 0 => w \in tables \cup Unsure
         /\ Known' \subseteq tables \cap rows
<1>1. Unrecorded = {}
  BY DEF Unrecorded
<1>2. Differing(tables, Settled) \subseteq Unsure /\ Unsure' = Unsure
  BY <1>1 DEF Accurate, Unsure
<1>3. \A w \in rows \ stale' : w # 0 => w \in Settled
  BY DEF Look, Settled
<1>4. Known' \subseteq Settled \ unseen' /\ Known' \subseteq tables
  BY <1>2 DEF Known, Differing
<1>5. Settled \ unseen' \subseteq rows
  BY DEF Look, Settled
<1> QED
  BY <1>2, <1>3, <1>4, <1>5 DEF Differing

(* A plan to go up leaves no file out but those taken for applied. *)
LEMMA PlanUpCovers ==
  ASSUME MigratorFits, Accurate, PlanUp, cmd.name \in {"up", "rerun"}
  PROVE  /\ todo' = Pending
         /\ Wanted \subseteq tables \cup Unsure \cup stale' \cup todo'
<1>1. /\ step = "plan up" /\ Look /\ UNCHANGED <<tables, torn, crossed>>
      /\ todo' = IF ByOne THEN {Min(Pending)} ELSE Pending
  BY DEF PlanUp, Plan, dbVars
<1>2. todo' = Pending
  BY <1>1 DEF ByOne
<1>3. ASSUME NEW v \in Wanted, v \notin Pending
      PROVE  v \in tables \cup Unsure \cup stale'
  <2>1. v \in rows
    BY <1>3 DEF Pending, Wanted, ListMigrations
  <2>2. v # 0
    BY VersionsPositive DEF MigratorFits, CmdFits, CommandFits, Wanted
  <2> QED
    BY <1>1, <2>1, <2>2, PlanFinds
<1> QED
  BY <1>1, <1>2, <1>3

(* It goes below nothing that is known to be applied. *)
LEMMA PlanUpAbove ==
  ASSUME MigratorFits, Accurate, PlanUp
  PROVE  cmd.outOfOrder \/ \A w \in Known', v \in todo' : w <= v
<1>1. /\ step = "plan up" /\ CanGoUp /\ Initialized /\ Look /\ UNCHANGED <<tables, torn, crossed>>
      /\ todo' = IF ByOne THEN {Min(Pending)} ELSE Pending
  BY DEF PlanUp, Plan, dbVars
<1>2. todo' \subseteq Pending
  BY <1>1, PendingIn DEF CanGoUp
<1>3. SUFFICES ASSUME ~cmd.outOfOrder, NEW w \in Known', NEW v \in todo'
               PROVE  w <= v
  OBVIOUS
<1>4. PICK top : top = Max(rows)
  OBVIOUS
<1>5. w \in rows /\ rows \subseteq Versions \cup {0} /\ rows # {}
  BY <1>1, PlanFinds DEF MigratorFits, MigratorTypeOK
<1>6. w <= top /\ top \in Versions \cup {0}
  BY <1>4, <1>5, Extremes
<1>7. v \in Pending /\ v \in Versions
  BY <1>2, PendingIn
<1>8. ~(v < top)
  BY <1>1, <1>3, <1>4, <1>7 DEF CanGoUp, Missing, ListMigrations
<1>9. v \in Nat /\ top \in Nat /\ w \in Nat
  BY <1>5, <1>6, <1>7, VersionsPositive
<1> QED
  BY <1>6, <1>8, <1>9

LEMMA PlanUpAccurate ==
  ASSUME MigratorFits, Accurate, PlanUp
  PROVE  Accurate'
<1>1. /\ step = "plan up"
      /\ Proceed("up", todo') /\ Look
      /\ UNCHANGED <<tables, rows, sending, deleting, torn, crossed>>
  BY DEF PlanUp, Plan, dbVars
<1>2. Settled' = Settled
  BY <1>1 DEF Settled, UnderWay
<1>3. CASE step' = "up" /\ cmd' = cmd
  <2>1. Differing(tables, Settled) \subseteq Unsure /\ Unsure' = Unsure
    BY <1>1, PlanFinds
  <2>2. Differing(tables, Settled)' \subseteq Unsure'
    BY <1>1, <1>2, <2>1 DEF Differing
  <2>3. Wanted' = Wanted
    BY <1>3 DEF Wanted
  <2>4. UpFits'
    BY <1>1, <1>3, <2>1, <2>3, PlanUpCovers, PlanUpAbove DEF UpFits
  <2> QED
    BY <1>3, <2>2, <2>4 DEF Accurate
<1>4. CASE End("ok")
  BY <1>1, <1>2, <1>4, QuietStep DEF End
<1> QED
  BY <1>1, <1>3, <1>4, ProceedCases

(* A plan to go down takes what is applied from the top. *)
LEMMA PlanDownCovers ==
  ASSUME MigratorFits, Accurate, PlanDown
  PROVE  \A w \in Known' : w \in todo' \/ \A v \in todo' : w < v
<1>1. /\ step = "plan down" /\ CanGoDown /\ Look /\ UNCHANGED <<tables, torn, crossed>>
      /\ todo' = IF ByOne THEN {Max(Applied)} ELSE Applied
  BY DEF PlanDown, Plan, dbVars
<1>2. SUFFICES ASSUME NEW w \in Known', w \notin todo', NEW v \in todo'
               PROVE  w < v
  OBVIOUS
<1>3. PICK top : top = Max(Applied)
  OBVIOUS
<1>4. v \in Applied /\ (ByOne => v = top)
  BY <1>1, <1>3, AppliedIn DEF CanGoDown
<1>5. w \in rows /\ w \in Versions
  BY <1>1, PlanFinds DEF MigratorFits, MigratorTypeOK
<1>a. cmd.target \in Versions \cup {0}
  BY DEF MigratorFits, CmdFits, CommandFits
<1>b. v \in Versions /\ v > cmd.target
  BY <1>4, AppliedIn
<1>6. /\ v \in Nat /\ w \in Nat /\ cmd.target \in Nat /\ v > cmd.target
  BY <1>5, <1>a, <1>b, VersionsPositive
<1>7. CASE w \in Applied
  <2>1. ByOne
    BY <1>1, <1>2, <1>7
  <2>2. w <= top /\ v = top /\ w # top
    BY <1>1, <1>2, <1>3, <1>4, <1>7, <2>1, AppliedIn
  <2> QED
    BY <1>6, <2>2
<1>8. CASE w \notin Applied
  <2>1. w <= cmd.target
    BY <1>5, <1>6, <1>8 DEF Applied, ListMigrations
  <2> QED
    BY <1>6, <2>1
<1> QED
  BY <1>7, <1>8

LEMMA PlanDownAccurate ==
  ASSUME MigratorFits, Accurate, PlanDown
  PROVE  Accurate'
<1>1. /\ step = "plan down"
      /\ Proceed("down", todo') /\ Look
      /\ UNCHANGED <<tables, rows, sending, deleting, torn, crossed>>
  BY DEF PlanDown, Plan, dbVars
<1>2. Settled' = Settled
  BY <1>1 DEF Settled, UnderWay
<1>3. CASE step' = "down" /\ cmd' = cmd
  <2>1. Differing(tables, Settled) \subseteq Unsure /\ Unsure' = Unsure
    BY <1>1, PlanFinds
  <2>2. Differing(tables, Settled)' \subseteq Unsure'
    BY <1>1, <1>2, <2>1 DEF Differing
  <2>3. DownFits'
    BY <1>1, PlanDownCovers DEF DownFits
  <2> QED
    BY <1>3, <2>2, <2>3 DEF Accurate
<1>4. CASE step' = "ok" \/ step' = "plan up"
  BY <1>1, <1>2, <1>4, QuietStep
<1> QED
  BY <1>1, <1>3, <1>4, ProceedCases DEF End

LEMMA RunUpAccurate ==
  ASSUME MigratorFits, Accurate, RunUp
  PROVE  Accurate'
<1>1. PICK m : m = Min(todo)
  OBVIOUS
<1>2. /\ step = "up" /\ step' = "up record" /\ tables' = tables \cup {m}
      /\ UNCHANGED <<rows, sending, deleting, cmd, todo, torn, crossed, stale, unseen>>
  BY <1>1 DEF RunUp, history
<1>3. m \in todo /\ \A v \in todo : m <= v
  BY <1>1, <1>2, FitsGives DEF FitsDefs, MigratorFits, TodoFits
<1>4. /\ Settled' = Settled /\ Unrecorded = {} /\ Unrecorded' = {m}
      /\ Unsure' = Unsure /\ Known' \subseteq Known \cup {m} /\ Wanted' = Wanted
  BY <1>1, <1>2 DEF Settled, UnderWay, Unrecorded, Unsure, Known, Wanted
<1>5. Differing(tables, Settled)' \subseteq Unsure' \cup Unrecorded'
  BY <1>2, <1>4 DEF Accurate, Differing
<1>6. UpFits'
  BY <1>2, <1>3, <1>4 DEF Accurate, UpFits
<1> QED
  BY <1>2, <1>5, <1>6 DEF Accurate

LEMMA RunDownAccurate ==
  ASSUME MigratorFits, Accurate, RunDown
  PROVE  Accurate'
<1>1. PICK m : m = Max(todo)
  OBVIOUS
<1>2. /\ step = "down" /\ step' = "down record" /\ tables' = tables \ {m}
      /\ UNCHANGED <<rows, sending, deleting, cmd, todo, torn, crossed, stale, unseen>>
  BY <1>1 DEF RunDown, history
<1>3. /\ Settled' = Settled /\ Unrecorded = {} /\ Unrecorded' = {m}
      /\ Unsure' = Unsure /\ Known' \subseteq Known
  BY <1>1, <1>2 DEF Settled, UnderWay, Unrecorded, Unsure, Known
<1>4. Differing(tables, Settled)' \subseteq Unsure' \cup Unrecorded'
  BY <1>2, <1>3 DEF Accurate, Differing
<1>5. DownFits'
  BY <1>2, <1>3 DEF Accurate, DownFits
<1> QED
  BY <1>2, <1>4, <1>5 DEF Accurate

LEMMA RecordUpAccurate ==
  ASSUME MigratorFits, Accurate, RecordUp
  PROVE  Accurate'
<1>1. PICK m : m = Min(todo)
  OBVIOUS
<1>2. /\ step = "up record" /\ Insert(m) /\ Proceed("up", todo')
      /\ todo' = todo \ {m} /\ torn' = torn \ {m} /\ crossed' = crossed \ {m}
      /\ UNCHANGED <<tables, stale, unseen>>
  BY <1>1 DEF RecordUp, Recorded
<1>3. m \in todo /\ m \in tables /\ m \in Versions /\ \A v \in todo : m <= v
  BY <1>1, <1>2, FitsGives DEF FitsDefs, MigratorFits, TodoFits
<1>4. Settled' = Settled \cup {m}
  <2>1. Settled' = Settled \cup ({m} \ {0})
    BY <1>2, <1>3, Inserted DEF MigratorFits
  <2>2. m # 0
    BY <1>3, VersionsPositive
  <2> QED
    BY <2>1, <2>2
<1>5. Differing(tables, Settled) \subseteq Unsure \cup {m}
  BY <1>1, <1>2 DEF Accurate, Unrecorded
<1>6. Unsure' = Unsure \ {m} /\ Known' \subseteq Known \cup {m}
  BY <1>2 DEF Unsure, Known
<1>7. Differing(tables, Settled)' \subseteq Unsure'
  BY <1>2, <1>3, <1>4, <1>5, <1>6 DEF Differing
<1>8. CASE step' = "up" /\ cmd' = cmd
  <2>1. UpFits /\ Wanted' = Wanted
    BY <1>2, <1>8 DEF Accurate, Wanted
  <2>2. UpFits'
    BY <1>2, <1>3, <1>6, <1>8, <2>1 DEF UpFits
  <2> QED
    BY <1>7, <1>8, <2>2 DEF Accurate
<1>9. CASE End("ok")
  BY <1>7, <1>9 DEF End, Accurate
<1> QED
  BY <1>2, <1>8, <1>9, ProceedCases

LEMMA RecordDownAccurate ==
  ASSUME MigratorFits, Accurate, RecordDown
  PROVE  Accurate'
<1>1. PICK m : m = Max(todo)
  OBVIOUS
<1>2. /\ step = "down record" /\ Delete(m) /\ Proceed("down", todo')
      /\ todo' = todo \ {m} /\ torn' = torn \ {m}
      /\ crossed' = IF m \in UnderWay THEN crossed \cup {m} ELSE crossed \ {m}
      /\ UNCHANGED <<tables, stale, unseen>>
  BY <1>1 DEF RecordDown, Recorded
<1>3. m \in todo /\ m \notin tables /\ m \in Versions
  BY <1>1, <1>2, FitsGives DEF FitsDefs, MigratorFits, TodoFits
<1>4. DownFits
  BY <1>2 DEF Accurate
<1>5. /\ Settled \ {m} \subseteq Settled' /\ Settled' \subseteq Settled
      /\ m \notin UnderWay => m \notin Settled'
  BY <1>2, <1>3, Deleted DEF MigratorFits
<1>6. Differing(tables, Settled) \subseteq Unsure \cup {m}
  BY <1>1, <1>2 DEF Accurate, Unrecorded
<1>7. /\ Unsure \ {m} \subseteq Unsure' /\ Known' \subseteq Known
      /\ m \in UnderWay => m \in Unsure'
  BY <1>2, <1>3 DEF Unsure, Known
<1>8. Differing(tables, Settled)' \subseteq Unsure'
  BY <1>2, <1>3, <1>5, <1>6, <1>7 DEF Differing
<1>9. CASE step' = "down"
  <2>1. DownFits'
    BY <1>2, <1>3, <1>4, <1>7 DEF DownFits, Known
  <2> QED
    BY <1>8, <1>9, <2>1 DEF Accurate
<1>10. CASE step' = "ok" \/ step' = "plan up"
  BY <1>8, <1>10 DEF Accurate
<1> QED
  BY <1>2, <1>9, <1>10, ProceedCases DEF End

LEMMA ReadRowsAccurate ==
  ASSUME MigratorFits, Accurate, ReadRows
  PROVE  Accurate'
<1>1. /\ step = "read" /\ step' = "truncate" /\ todo' = rows \ {0} /\ Look
      /\ UNCHANGED <<tables, rows, sending, deleting, torn, crossed>>
  BY DEF ReadRows, dbVars
<1>2. /\ Settled' = Settled /\ UnderWay' = UnderWay /\ Unrecorded = {} /\ Unrecorded' = {}
      /\ Unsure' = Unsure
  BY <1>1 DEF Settled, UnderWay, Unrecorded, Unsure
<1>3. Differing(tables, Settled) \subseteq Unsure
  BY <1>1, <1>2 DEF Accurate
<1>4. deleting \subseteq rows \ {0} /\ 0 \notin UnderWay
  BY VersionsPositive DEF MigratorFits, MigratorTypeOK, UnderWay
<1>5. todo' \cup UnderWay = Settled \cup stale'
  BY <1>1, <1>4 DEF Look, Settled
<1>6. ReadFits'
  <2>1. /\ (deleting \cup stale)' \subseteq todo' /\ (unseen \cap todo)' = {}
        /\ (rows \cup UnderWay)' \subseteq todo' \cup unseen' \cup {0}
    BY <1>1, <1>2, <1>4 DEF Look
  <2>2. Differing(tables, todo \cup UnderWay)' \subseteq Unsure' \cup stale'
    BY <1>1, <1>2, <1>3, <1>5 DEF Differing
  <2> QED
    BY <2>1, <2>2 DEF ReadFits
<1> QED
  BY <1>1, <1>2, <1>3, <1>6 DEF Accurate, Differing

LEMMA TruncateAccurate ==
  ASSUME MigratorFits, Accurate, Truncate
  PROVE  Accurate'
<1>1. /\ step = "truncate" /\ step' = "fill" /\ rows' = {} /\ deleting' = {}
      /\ crossed' = crossed \cup ((unseen \cap rows) \ UnderWay)
      /\ UNCHANGED <<tables, sending, todo, torn, stale, unseen>>
  BY DEF Truncate
<1>2. ReadFits
  BY <1>1 DEF Accurate
<1>3. UnderWay' = UnderWay /\ Unsure' = Unsure \cup ((unseen \cap rows) \ UnderWay)
  BY <1>1 DEF UnderWay, Unsure
<1>4. 0 \notin todo \cup UnderWay
  BY VersionsPositive DEF MigratorFits, MigratorTypeOK, UnderWay
<1>5. ((todo \cup rows \cup UnderWay) \ {0})' = todo \cup UnderWay
  BY <1>1, <1>3, <1>4
<1>6. FillFits'
  BY <1>1, <1>2, <1>3, <1>5 DEF ReadFits, FillFits, Differing
<1> QED
  BY <1>1, <1>6 DEF Accurate

(* What reshard had read and did not put back is torn. *)
LEMMA FillCut ==
  ASSUME Accurate, step = "fill", step' = "failed", torn' = torn \cup todo,
         UNCHANGED <<tables, rows, sending, deleting, crossed>>
  PROVE  Accurate'
<1>1. FillFits
  BY DEF Accurate
<1>2. Settled' = (rows \cup UnderWay) \ {0}
  BY <1>1 DEF FillFits, Settled, UnderWay
<1>3. Unsure' = Unsure \cup todo
  BY DEF Unsure
<1>4. Differing(tables, Settled)' \subseteq Unsure'
  BY <1>1, <1>2, <1>3 DEF FillFits, Differing
<1> QED
  BY <1>4 DEF Accurate

LEMMA PanicAccurate ==
  ASSUME Accurate, Panic
  PROVE  Accurate'
  BY FillCut DEF Panic, End, dbVars

LEMMA FillAccurate ==
  ASSUME Accurate, Fill
  PROVE  Accurate'
<1>1. /\ step = "fill" /\ step' = "ok" /\ rows' = rows \cup ({0} \cup todo)
      /\ crossed' = crossed \cup stale
      /\ UNCHANGED <<tables, sending, deleting, torn>>
  BY DEF Fill, BulkInsert, End
<1>2. FillFits
  BY <1>1 DEF Accurate
<1>3. Settled' = (todo \cup rows \cup UnderWay) \ {0}
  BY <1>1, <1>2 DEF FillFits, Settled, UnderWay
<1>4. Unsure' = Unsure \cup stale
  BY <1>1 DEF Unsure
<1>5. Differing(tables, Settled)' \subseteq Unsure'
  BY <1>1, <1>2, <1>3, <1>4 DEF FillFits, Differing
<1> QED
  BY <1>1, <1>5 DEF Accurate

LEMMA FailAccurate ==
  ASSUME Accurate, Fail
  PROVE  Accurate'
<1>1. step' = "failed" /\ UNCHANGED <<tables, rows, sending, deleting, crossed>>
  BY DEF Fail, End, dbVars
<1>2. CASE step = "fill"
  <2>1. torn' = torn \cup todo
    BY <1>2 DEF Fail
  <2> QED
    BY <1>1, <1>2, <2>1, FillCut
<1>3. CASE step # "fill"
  <2>1. torn' = torn \cup Unrecorded
    BY <1>3 DEF Fail, Unrecorded
  <2>2. Settled' = Settled /\ Unsure' = Unsure \cup Unrecorded
    BY <1>1, <2>1 DEF Settled, UnderWay, Unsure
  <2>3. Differing(tables, Settled)' \subseteq Unsure'
    BY <1>1, <1>3, <2>2 DEF Accurate, Differing
  <2> QED
    BY <1>1, <2>3 DEF Accurate
<1> QED
  BY <1>2, <1>3

LEMMA MigratorInit == Init => MigratorInv
  BY FitsInit, AccurateInit DEF MigratorInv, MigratorFits

LEMMA MigratorStep == MigratorInv /\ [Next]_vars => MigratorInv'
<1> SUFFICES ASSUME MigratorInv, [Next]_vars PROVE MigratorInv'
  OBVIOUS
<1>1. MigratorFits /\ MigratorFits' /\ Accurate
  BY FitsStep DEF MigratorInv, MigratorFits
<1>2. Accurate'
  <2>1. CASE UNCHANGED vars
    <3>1. UNCHANGED <<tables, rows, sending, deleting, cmd, step, todo, torn, crossed, stale, unseen>>
      BY <2>1 DEF vars, dbVars, history
    <3>2. /\ Settled' = Settled /\ UnderWay' = UnderWay /\ Unrecorded' = Unrecorded
          /\ Unsure' = Unsure /\ Known' = Known /\ Wanted' = Wanted
      BY <3>1 DEF Settled, UnderWay, Unrecorded, Unsure, Known, Wanted
    <3> QED
      BY <1>1, <3>1, <3>2 DEF Accurate, Differing, UpFits, DownFits, ReadFits, FillFits
  <2>2. ASSUME NEW c \in Commands, Start(c) PROVE Accurate'
    BY <1>1, <2>2, StartAccurate
  <2>3. ASSUME NEW v \in Versions \cup {0}, Arrive(v) \/ Mutate(v) PROVE Accurate'
    BY <1>1, <2>3, BackgroundAccurate
  <2>4. CASE NewStore \/ Status \/ Reset \/ Refuse
    BY <1>1, <2>4, NewStoreAccurate, AskAccurate
  <2>5. CASE PlanUp \/ PlanDown
    BY <1>1, <2>5, PlanUpAccurate, PlanDownAccurate
  <2>6. CASE RunUp \/ RecordUp \/ RunDown \/ RecordDown
    BY <1>1, <2>6, RunUpAccurate, RecordUpAccurate, RunDownAccurate, RecordDownAccurate
  <2>7. CASE ReadRows \/ Truncate \/ Panic \/ Fill
    BY <1>1, <2>7, ReadRowsAccurate, TruncateAccurate, PanicAccurate, FillAccurate
  <2>8. CASE Fail
    BY <1>1, <2>8, FailAccurate
  <2> QED
    BY <2>1, <2>2, <2>3, <2>4, <2>5, <2>6, <2>7, <2>8 DEF Next
<1> QED
  BY <1>1, <1>2 DEF MigratorInv, MigratorFits

(* When no command runs, the schema and the settled records differ by      *)
(* nothing but the versions a cut command left, and those whose row was on *)
(* its way as a down deleted it or a reshard rewrote it: on any set of     *)
(* migrations, after any commands and cuts, whatever arrives or is deleted *)
(* meanwhile.                                                              *)
THEOREM MigratorRecordAccuracy == Spec => []RecordAccuracy
<1>1. ASSUME MigratorInv PROVE RecordAccuracy
  <2> SUFFICES ASSUME step \in {"ok", "failed"}
               PROVE  (tables \ Settled) \cup (Settled \ tables) \subseteq Unsure
    BY DEF RecordAccuracy
  <2>1. Unrecorded = {}
    BY DEF Unrecorded
  <2> QED
    BY <1>1, <2>1 DEF MigratorInv, Accurate, Differing
<1> QED
  BY MigratorInit, MigratorStep, <1>1, PTL DEF Spec

(* Unless --s was given, a migration is run under nothing later than       *)
(* itself; it is never undone before anything later than itself: what a    *)
(* cut or crossed command left unsure excepted, and rows not there yet     *)
(* when the command listed them.                                           *)
THEOREM MigratorStepsInOrder == Spec => StepsInOrder
<1>1. ASSUME MigratorInv, [Next]_vars PROVE [OneByOne]_vars
  <2> SUFFICES /\ \A v \in tables' \ tables : \A w \in Known : cmd.outOfOrder \/ w < v
               /\ \A v \in tables \ tables' : \A w \in Known : w <= v
    BY DEF OneByOne
  <2>1. MigratorFits /\ Accurate
    BY <1>1 DEF MigratorInv, MigratorFits
  <2>2. FitsDefs
    BY <2>1, FitsGives
  <2>a. \A w \in Known : w \in tables /\ w \in Nat
    BY <2>2, VersionsPositive DEF FitsDefs, Known
  <2>3. CASE RunUp
    <3>1. PICK m : m = Min(todo)
      OBVIOUS
    <3>2. tables' = tables \cup {m} /\ step = "up"
      BY <2>3, <3>1 DEF RunUp
    <3>3. m \in todo /\ m \in Versions
      BY <2>1, <2>2, <3>1, <3>2 DEF FitsDefs, MigratorFits, TodoFits
    <3>4. cmd.outOfOrder \/ \A w \in Known : w <= m
      BY <2>1, <3>2, <3>3 DEF Accurate, UpFits
    <3>5. m \notin tables => cmd.outOfOrder \/ \A w \in Known : w < m
      BY <2>a, <3>3, <3>4, VersionsPositive
    <3> QED
      BY <3>2, <3>5
  <2>4. CASE RunDown
    <3>1. PICK m : m = Max(todo)
      OBVIOUS
    <3>2. tables' = tables \ {m} /\ step = "down"
      BY <2>4, <3>1 DEF RunDown
    <3>3. m \in todo /\ m \in Versions /\ \A v \in todo : v <= m
      BY <2>1, <2>2, <3>1, <3>2 DEF FitsDefs, MigratorFits, TodoFits
    <3>4. \A w \in Known : w \in todo \/ w < m
      BY <2>1, <3>2, <3>3 DEF Accurate, DownFits
    <3>5. \A w \in Known : w <= m
      BY <2>a, <3>3, <3>4, VersionsPositive
    <3> QED
      BY <3>2, <3>5
  <2>5. CASE tables' = tables
    BY <2>5
  <2>6. RunUp \/ RunDown \/ tables' = tables
    <3>1. CASE UNCHANGED vars
      BY <3>1 DEF vars, dbVars
    <3>2. CASE Next /\ ~RunUp /\ ~RunDown
      BY <3>2 DEF Next, Start, Arrive, Mutate, NewStore, Status, Reset, PlanUp, PlanDown, Plan,
         Refuse, RecordUp, RecordDown, Recorded, ReadRows, Truncate, Panic, Fill, Fail, dbVars
    <3> QED
      BY <1>1, <3>1, <3>2
  <2> QED
    BY <2>3, <2>4, <2>5, <2>6
<1> QED
  BY MigratorInit, MigratorStep, <1>1, PTL DEF Spec, StepsInOrder

(* An up, up-to or rerun that ends well has applied every file up to its   *)
(* target, but for those left unsure by a cut or crossed command, and      *)
(* those taken for applied while their row was about to go.                *)
THEOREM MigratorUpApplies == Spec => UpApplies
<1>1. ASSUME MigratorInv, [Next]_vars
      PROVE  [cmd.name \in {"up", "rerun"} /\ step' = "ok"
                => Wanted \subseteq tables \cup Unsure \cup stale']_step
  <2> SUFFICES ASSUME cmd.name \in {"up", "rerun"}, step' = "ok", step' # step
               PROVE  Wanted \subseteq tables \cup Unsure \cup stale'
    OBVIOUS
  <2>1. MigratorFits /\ Accurate
    BY <1>1 DEF MigratorInv, MigratorFits
  <2>2. CASE RecordUp
    <3>1. PICK m : m = Min(todo)
      OBVIOUS
    <3>2. step = "up record" /\ Proceed("up", todo') /\ todo' = todo \ {m} /\ stale' = stale
      BY <2>2, <3>1 DEF RecordUp, Recorded
    <3>3. todo' = {} /\ m \in tables
      BY <2>1, <3>1, <3>2, ProceedCases DEF MigratorFits, TodoFits
    <3>4. UpFits
      BY <2>1, <3>2 DEF Accurate
    <3> QED
      BY <3>2, <3>3, <3>4 DEF UpFits
  <2>3. CASE PlanUp
    <3>1. Proceed("up", todo')
      BY <2>3 DEF PlanUp, Plan
    <3>2. todo' = {}
      BY <3>1, ProceedCases
    <3> QED
      BY <2>1, <2>3, <3>2, PlanUpCovers
  <2>4. RecordUp \/ PlanUp
    <3>1. ~PlanDown /\ ~RecordDown
      <4>1. ASSUME Proceed("down", todo'), cmd.name # "up" PROVE FALSE
        BY <4>1, ProceedCases
      <4> QED
        BY <2>1, <4>1 DEF PlanDown, Plan, RecordDown, Recorded, MigratorFits, CmdFits
    <3>2. ~Status /\ ~Fill
      BY <2>1 DEF Status, Fill, MigratorFits, CmdFits
    <3>3. Next
      BY <1>1 DEF vars
    <3> QED
      BY <3>1, <3>2, <3>3 DEF Next, Start, Arrive, Mutate, NewStore, Reset, Refuse, RunUp, RunDown,
         ReadRows, Truncate, Panic, Fail, End
  <2> QED
    BY <2>2, <2>3, <2>4
<1> QED
  BY MigratorInit, MigratorStep, <1>1, PTL DEF Spec, UpApplies
=============================================================================
