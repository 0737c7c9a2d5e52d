-------------------------- MODULE MigrationNumbering --------------------------
(***************************************************************************)
(* The numbers of the migrations: npm run db:generate lets drizzle-kit     *)
(* write a migration, numbered after the last idx of the journal, and then *)
(* scripts/rename-drizzle-migration.ts gives it the number after all those *)
(* in use: it renames its snapshot, renames its SQL file and rewrites the  *)
(* journal, one after the other, and may be killed between two of them.    *)
(*                                                                         *)
(* A migration is its place in the journal; nothing but the script changes *)
(* an entry, and files are not renamed by hand.                            *)
(***************************************************************************)
EXTENDS Integers, Sequences, FiniteSets, FiniteSetsExt

CONSTANTS Names,       (* what a migration may be called                   *)
          Baselines,   (* journals to start from                           *)
          MaxEntries,  (* bound: entries of the journal                    *)
          MaxNumber    (* bound: the numbers there may be                  *)

Numbers(entries) == UNION {{entries[m].idx, entries[m].num} : m \in DOMAIN entries}

Entry == [idx : 0..MaxNumber, num : 0..MaxNumber, name : Names]
Tags  == [num : 0..MaxNumber, name : Names]

(* The idx of a baseline go up and so do its numbers, which have run ahead *)
(* of the idx since the journal was rebuilt; they leave drizzle-kit room   *)
(* for the entries of this model.                                          *)
ASSUME NumberingAssumption ==
  /\ MaxEntries \in Nat /\ MaxNumber \in Nat
  /\ \A b \in Baselines :
       /\ b \in Seq(Entry) /\ Len(b) \in 1..MaxEntries
       /\ \A m \in DOMAIN b : b[m].idx <= b[m].num /\ b[m].num + MaxEntries <= MaxNumber
       /\ \A m, n \in DOMAIN b : m < n => b[m].idx < b[n].idx /\ b[m].num < b[n].num
       /\ \A m \in DOMAIN b, k \in 1..(MaxEntries - Len(b)) : b[m].num # b[Len(b)].idx + k

VARIABLES journal,     (* meta/_journal.json                               *)
          sql,         (* the migration in the SQL file of a tag, or 0     *)
          snapshot,    (* the migration a numbered snapshot is of, or 0    *)
          stage,       (* where the script is                              *)
          exit         (* how its last run ended                           *)

numberingVars == <<journal, sql, snapshot, stage, exit>>

Tag(entry) == [num |-> entry.num, name |-> entry.name]

NumberingTypeOK == /\ journal \in Seq(Entry) /\ Len(journal) \in 1..MaxEntries
          /\ sql \in [Tags -> 0..MaxEntries]
          /\ snapshot \in [0..MaxNumber -> 0..MaxEntries]
          /\ stage \in {"idle", "plan", "sql", "journal"}
          /\ exit \in {"none", "ok", "error", "killed"}

(* The only one of S, if there is one.                                     *)
OneOf(S) == IF S = {} THEN 0 ELSE CHOOSE m \in S : TRUE

NumberingInit ==
  /\ journal \in Baselines
  /\ sql = [t \in Tags |-> OneOf({m \in DOMAIN journal : Tag(journal[m]) = t})]
  /\ snapshot = [n \in 0..MaxNumber |-> OneOf({m \in DOMAIN journal : journal[m].num = n})]
  /\ stage = "idle" /\ exit = "none"

-----------------------------------------------------------------------------
Newest == Len(journal)

(* drizzle-kit generate, then the script, or not (db:generate:raw).        *)
AddMigration ==
  /\ stage = "idle" /\ Len(journal) < MaxEntries
  /\ \E name \in Names, next \in {"plan", "idle"} :
       LET idx == journal[Newest].idx + 1
           entry == [idx |-> idx, num |-> idx, name |-> name]
       IN  /\ journal' = Append(journal, entry)
           /\ sql' = [sql EXCEPT ![Tag(entry)] = Newest + 1]
           /\ snapshot' = [snapshot EXCEPT ![idx] = Newest + 1]
           /\ stage' = next
  /\ exit' = "none"

(* The script alone, once more.                                            *)
RunScript ==
  /\ stage = "idle"
  /\ stage' = "plan"
  /\ UNCHANGED <<journal, sql, snapshot, exit>>

(* Mutant: only the idx of the entries are looked at.                      *)
HighestIdx(entries) == Max({-1} \cup {entries[m].idx : m \in DOMAIN entries})

(* highestKnownIndex                                                       *)
HighestKnown(entries) == Max({-1} \cup Numbers(entries))

(* buildMigrationRenamePlan: the number after all the others'.             *)
TargetIndex == HighestKnown(SubSeq(journal, 1, Newest - 1)) + 1

Target == [num |-> TargetIndex, name |-> journal[Newest].name]

(* resolveSnapshotPath: the snapshots the newest entry may mean.           *)
Candidates == {n \in {journal[Newest].idx, journal[Newest].num} : snapshot[n] # 0}

(* Mutant: renameSync replaces what is there.                              *)
MayReplace ==
  /\ journal[Newest].num < TargetIndex
  /\ Cardinality(Candidates) = 1
  /\ sql[Tag(journal[Newest])] # 0

(* MigrationNumberingConflictError, MissingMigrationFileError,             *)
(* AmbiguousSnapshotFileError and MigrationFileCollisionError otherwise.   *)
MayRename ==
  /\ journal[Newest].num < TargetIndex
  /\ Cardinality(Candidates) = 1
  /\ sql[Tag(journal[Newest])] # 0
  /\ sql[Target] = 0 /\ snapshot[TargetIndex] = 0

Unchanged ==
  /\ stage = "plan" /\ journal[Newest].num = TargetIndex
  /\ stage' = "idle" /\ exit' = "ok"
  /\ UNCHANGED <<journal, sql, snapshot>>

Refuse ==
  /\ stage = "plan" /\ journal[Newest].num # TargetIndex /\ ~MayRename
  /\ stage' = "idle" /\ exit' = "error"
  /\ UNCHANGED <<journal, sql, snapshot>>

RenameSnapshot ==
  /\ stage = "plan" /\ MayRename
  /\ \E source \in Candidates :
       snapshot' = [snapshot EXCEPT ![source] = 0, ![TargetIndex] = snapshot[source]]
  /\ stage' = "sql"
  /\ UNCHANGED <<journal, sql, exit>>

RenameSql ==
  /\ stage = "sql"
  /\ sql' = [sql EXCEPT ![Tag(journal[Newest])] = 0,
                        ![Target] = sql[Tag(journal[Newest])]]
  /\ stage' = "journal"
  /\ UNCHANGED <<journal, snapshot, exit>>

(* applyMigrationRename, writeJournalIfChanged                             *)
WriteJournal ==
  /\ stage = "journal"
  /\ journal' = [journal EXCEPT ![Newest] = [idx |-> TargetIndex, num |-> TargetIndex,
                                              name |-> journal[Newest].name]]
  /\ stage' = "idle" /\ exit' = "ok"
  /\ UNCHANGED <<sql, snapshot>>

Killed ==
  /\ stage # "idle"
  /\ stage' = "idle" /\ exit' = "killed"
  /\ UNCHANGED <<journal, sql, snapshot>>

NumberingNext == \/ AddMigration \/ RunScript
        \/ Unchanged \/ Refuse \/ RenameSnapshot \/ RenameSql \/ WriteJournal
        \/ Killed

NumberingSpec == NumberingInit /\ [][NumberingNext]_numberingVars

-----------------------------------------------------------------------------
(* However many runs were killed half-way, repeated or left out, no        *)
(* migration loses its SQL or its snapshot to another one, and a run that  *)
(* reports success leaves a directory the test suite accepts: the newest   *)
(* number above all others, no number twice, and for every entry its own   *)
(* SQL file and snapshot (rename-drizzle-migration.spec.ts, "drizzle       *)
(* journal invariant").                                                    *)
MigrationsKeepFiles ==
  /\ \A m \in DOMAIN journal : /\ \E t \in Tags : sql[t] = m
                               /\ \E n \in 0..MaxNumber : snapshot[n] = m
  /\ exit = "ok" /\ stage = "idle" =>
       /\ \A m \in DOMAIN journal : m < Newest => journal[m].num < journal[Newest].num
       /\ \A m, n \in DOMAIN journal : journal[m].num = journal[n].num => m = n
       /\ \A m \in DOMAIN journal : sql[Tag(journal[m])] = m /\ snapshot[journal[m].num] = m
=============================================================================
