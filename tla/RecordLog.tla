------------------------------- MODULE RecordLog -------------------------------
(* The two tables that only grow, the audit log and the spend log, and how    *)
(* they are read page by page while rows are added and old ones are deleted   *)
(* (db/repositories/audit.py and spend.py, auth/audit.py, routes/audit.py and *)
(* spend.py).                                                                 *)
EXTENDS Integers, Sequences, SequencesExt, FiniteSets

CONSTANTS Owners,    \* what a reader may filter by: an actor, a key, a user, a team
          MaxRows,   \* bound: rows ever written
          PageLimit, \* the limit of a page
          Retention, \* days a row of the audit log is kept
          RlMaxDay   \* bound: the clock stops here

(* A page has a row at least (audit.py:74).                                   *)
ASSUME RlAssumption ==
    PageLimit \in Nat \ {0} /\ {MaxRows, Retention, RlMaxDay} \subseteq Nat

VARIABLES rows,    \* the table: a set of [id, at, owner]
          rl_now,
          written, \* how many rows have been written
          walk     \* the reader: its filter, offset, what it has seen, what it must see

rlvars == <<rows, rl_now, written, walk>>

Everyone == "everyone"

NoWalk == [at |-> "idle", owner |-> Everyone, offset |-> 0, seen |-> {}, due |-> {}]

RlInit == rows = {} /\ rl_now = 0 /\ written = 0 /\ walk = NoWalk

(* emit_audit_event, and the spend log callback: one row, stamped by the      *)
(* database, which gives rows of one moment the same stamp.                   *)
AppendRow(owner) ==
    /\ written < MaxRows
    /\ written' = written + 1
    /\ rows' = rows \cup {[id |-> written + 1, at |-> rl_now, owner |-> owner]}
    /\ UNCHANGED <<rl_now, walk>>

(* run_retention_cleanup, run by whoever keeps the log.                       *)
DeleteOlder ==
    /\ rows' = {r \in rows : r.at >= rl_now - Retention}
    /\ rows' # rows
    /\ UNCHANGED <<rl_now, written, walk>>

PassDay ==
    /\ rl_now < RlMaxDay
    /\ rl_now' = rl_now + 1
    /\ UNCHANGED <<rows, written, walk>>

matching(owner) == {r \in rows : owner \in {Everyone, r.owner}}

(* A plausible bug: the oldest row first.                                     *)
sorted_ascending(S) == {s \in SetToSeqs(S) : \A i, j \in 1 .. Cardinality(S) : i < j => s[i].at <= s[j].at}

(* order_by(created_at.desc()): the newest first; the order of rows with the  *)
(* same stamp is the database's, and may differ from query to query.          *)
sorted(S) == {s \in SetToSeqs(S) : \A i, j \in 1 .. Cardinality(S) : i < j => s[i].at >= s[j].at}

page(s, offset) == Range(SubSeq(s, offset + 1, IF offset + PageLimit < Len(s) THEN offset + PageLimit ELSE Len(s)))

(* list_audit_logs and spend_logs, called for the pages one after the other   *)
(* until one is not full.                                                     *)
StartWalk(owner) ==
    /\ walk.at = "idle"
    /\ walk' = [at |-> "reading", owner |-> owner, offset |-> 0, seen |-> {},
                due |-> matching(owner)]
    /\ UNCHANGED <<rows, rl_now, written>>

ReadPage ==
    /\ walk.at = "reading"
    /\ \E s \in sorted(matching(walk.owner)) :
          LET got == page(s, walk.offset)
          IN walk' = [walk EXCEPT !.at = IF Cardinality(got) < PageLimit THEN "done" ELSE "reading",
                                  !.offset = @ + PageLimit, !.seen = @ \cup got,
                                  !.due = @ \cap rows]
    /\ UNCHANGED <<rows, rl_now, written>>

EndWalk ==
    /\ walk.at = "done"
    /\ walk' = NoWalk
    /\ UNCHANGED <<rows, rl_now, written>>

RlNext ==
    \/ \E owner \in Owners : AppendRow(owner)
    \/ \E owner \in Owners \cup {Everyone} : StartWalk(owner)
    \/ DeleteOlder \/ PassDay \/ ReadPage \/ EndWalk

RlSpec == RlInit /\ [][RlNext]_rlvars

-----------------------------------------------------------------------------
RlTypeOK ==
    /\ rows \subseteq [id : 1 .. MaxRows, at : 0 .. RlMaxDay, owner : Owners]
    /\ written \in 0 .. MaxRows /\ rl_now \in 0 .. RlMaxDay
    /\ walk.at \in {"idle", "reading", "done"}

alone(r) == \A q \in rows : q.at = r.at => q = r

(* A reader that goes through the pages to the end has seen every row that    *)
(* matched when it began and is still there, whatever was added and deleted   *)
(* meanwhile; only a row that shares its stamp with another may be missed     *)
(* (audit.py:113).                                                            *)
WalkComplete ==
    walk.at = "done" => \A r \in walk.due \cap rows : alone(r) => r \in walk.seen
=============================================================================
