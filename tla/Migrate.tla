------------------------------- MODULE Migrate -------------------------------
(***************************************************************************)
(* Migrate (store/sql.go): a chain of schemes, each with a version and the *)
(* one before it, is brought into a database, every scheme in a            *)
(* transaction of its own, from the version the database has.  A statement *)
(* may fail, a scheme's code may panic, a commit may fail after the        *)
(* database did it, and the process may die at any point; the program then *)
(* calls Migrate again with the version it reads from the database.        *)
(***************************************************************************)
EXTENDS Integers, Sequences, SequencesExt

CONSTANTS
    Versions,   \* Versions[i]: of the i-th scheme; the first has no Previous
    Recorded,   \* schemes whose UpdateVersion is a statement; the last is one
    Stmts,      \* statements of a scheme
    Failures    \* bound: steps that fail

VARIABLES
    pc,         \* of Migrate
    at,         \* the scheme of the innermost call that is running
    done,       \* statements of it that were executed
    tx,         \* what the transaction holds: pairs of scheme and statement
    applied,    \* what the database holds
    version,    \* the version it records
    from,       \* the version Migrate was called with
    failed,     \* err is not nil, or a panic is on its way
    left        \* failures left

vars == <<pc, at, done, tx, applied, version, from, failed, left>>

Schemes == 1..Len(Versions)
Newest == Len(Versions)

\* A scheme's statements, the creation of an administrator, the new version.
Admin == Stmts + 1
Record == Stmts + 2
Steps(i) == [n \in 1..(IF i \in Recorded THEN Record ELSE Admin) |-> <<i, n>>]

Init ==
    /\ pc = "idle" /\ at = 0 /\ done = 0 /\ tx = <<>> /\ applied = <<>>
    /\ version \in {0} \cup {Versions[i] : i \in Schemes} \cup {Versions[i] + 1 : i \in Schemes}
    /\ from = 0 /\ failed = FALSE /\ left = Failures

\* The program reads the version and calls Migrate with the last scheme.
Call ==
    /\ pc = "idle"
    /\ from' = version /\ at' = Newest /\ failed' = FALSE /\ pc' = "compare"
    /\ UNCHANGED <<done, tx, applied, version, left>>

\* The way down: Previous is migrated first.  A version between two schemes is
\* an error that every call on the way hands on.
Compare ==
    /\ pc = "compare"
    /\ IF Versions[at] <= from
       THEN /\ pc' = "return" /\ failed' = (Versions[at] < from) /\ UNCHANGED at
       ELSE IF at > 1 THEN at' = at - 1 /\ UNCHANGED <<pc, failed>>
            ELSE pc' = "begin" /\ UNCHANGED <<at, failed>>
    /\ UNCHANGED <<done, tx, applied, version, from, left>>

\* The way up: the call for the next scheme goes on, or returns the error.
Return ==
    /\ pc = "return"
    /\ IF failed \/ at = Newest THEN pc' = "idle" /\ at' = 0
       ELSE pc' = "begin" /\ at' = at + 1
    /\ UNCHANGED <<done, tx, applied, version, from, failed, left>>

Begin ==
    /\ pc = "begin"
    /\ \/ pc' = "exec" /\ UNCHANGED <<failed, left>>
       \/ left > 0 /\ left' = left - 1 /\ failed' = TRUE /\ pc' = "return"
    /\ done' = 0 /\ tx' = <<>>
    /\ UNCHANGED <<at, applied, version, from>>

\* One statement; an error or a panic leads to the deferred function.
Exec ==
    /\ pc = "exec" /\ done < Len(Steps(at))
    /\ \/ /\ done' = done + 1 /\ tx' = Append(tx, Steps(at)[done + 1])
          /\ UNCHANGED <<pc, failed, left>>
       \/ /\ left > 0 /\ left' = left - 1 /\ failed' = TRUE /\ pc' = "finish"
          /\ UNCHANGED <<done, tx>>
    /\ UNCHANGED <<at, applied, version, from>>

Executed ==
    /\ pc = "exec" /\ done = Len(Steps(at))
    /\ pc' = "finish"
    /\ UNCHANGED <<at, done, tx, applied, version, from, failed, left>>

\* What a commit does to the database.
Committed ==
    /\ applied' = applied \o tx
    /\ version' = IF <<at, Record>> \in ToSet(tx) THEN Versions[at] ELSE version

\* A mutant: the deferred function looks for a panic only.
FinishCommits ==
    /\ pc = "finish"
    /\ Committed /\ tx' = <<>> /\ pc' = "return"
    /\ UNCHANGED <<at, done, from, failed, left>>

\* The deferred function: rolls back after an error, or commits; a commit that
\* fails may have been done.
Finish ==
    /\ pc = "finish"
    /\ \/ failed /\ UNCHANGED <<applied, version, failed, left>>
       \/ ~failed /\ Committed /\ UNCHANGED <<failed, left>>
       \/ /\ ~failed /\ left > 0 /\ left' = left - 1 /\ failed' = TRUE
          /\ Committed \/ UNCHANGED <<applied, version>>
    /\ tx' = <<>> /\ pc' = "return"
    /\ UNCHANGED <<at, done, from>>

\* The process dies; the database gives up the transaction.
Crash ==
    /\ pc # "idle" /\ left > 0 /\ left' = left - 1
    /\ pc' = "idle" /\ at' = 0 /\ done' = 0 /\ tx' = <<>> /\ failed' = TRUE
    /\ UNCHANGED <<applied, version, from>>

Migrating == Compare \/ Return \/ Begin \/ Exec \/ Executed \/ Finish

Next == Call \/ Migrating \/ Crash

Spec == Init /\ [][Next]_vars

-----------------------------------------------------------------------------
(* After any failures the database holds whole schemes, in the order of    *)
(* their versions, the recorded ones once and none left out between two,   *)
(* and records the version of the last of them it holds                    *)
(* (sql.go:27-58).                                                         *)
Blocks == {i \in DOMAIN applied : applied[i][2] = 1}

SchemesAreWhole ==
    /\ \A b \in Blocks : \A n \in DOMAIN Steps(applied[b][1]) :
          b + n - 1 <= Len(applied) /\ applied[b + n - 1] = Steps(applied[b][1])[n]
    /\ \A k \in DOMAIN applied : \E b \in Blocks : b <= k /\ k < b + Len(Steps(applied[b][1]))
    /\ \A b, c \in Blocks : b < c /\ applied[b][1] \in Recorded => applied[b][1] < applied[c][1]
    /\ \A b, c \in Blocks : \A i \in applied[b][1]..applied[c][1] : \E d \in Blocks : applied[d][1] = i
    /\ \A b \in Blocks : applied[b][1] \in Recorded => Versions[applied[b][1]] <= version
=============================================================================
