------------------------------- MODULE Standing -------------------------------
(***************************************************************************)
(* Who may be named: the hourly standing-sync job of one wiki, the table   *)
(* contributor_standing it leaves behind, and the rule the API applies to  *)
(* that table when it builds an answer (ADR-0009).                         *)
(*                                                                         *)
(* The job reads local blocks for every tracked account in one pass and    *)
(* CentralAuth locks for a ration of them, one account at a time, and then *)
(* replaces the table in one transaction.  Meanwhile administrators block  *)
(* and unblock, stewards lock and unlock, accounts disappear, and stored   *)
(* results come to name other people.                                      *)
(*                                                                         *)
(* One Tick is the hour between two runs; a run ends within it (its job    *)
(* has a timeout of 1800 seconds).  A wiki here has no more accounts than  *)
(* one list=users request carries, fifty.  Nothing but this job writes the *)
(* table, so what a run read of it at its start is still there at its end. *)
(***************************************************************************)
EXTENDS Integers, FiniteSets

CONSTANTS
    Account,         \* user ids; the job goes through them in ascending order
    Blocks,          \* the blocks administrators impose: a subset of BlockInfo
    Longest,         \* bound: the longest block that ends, in ticks
    Threshold,       \* max_visible_block_seconds
    ChecksPerRun,    \* standing_lock_checks_per_run
    Recheck,         \* standing_lock_recheck_seconds
    Mortal,          \* the accounts that may disappear
    Flagged,         \* those of them that list=users then has an item for, a missing one
    MaxChanges       \* bound: how often something changes or fails around the job

Forever == -1
Never == -1         \* lock_checked_at is NULL
Untracked == -2     \* there is no row

\* block_expires_at - blocked_at, what is left of it, and whether it spares the
\* name: it is partial, or is_courtesy_block recognises its reason.
BlockInfo == [length : {Forever} \cup 0..Longest, left : {Forever} \cup 0..Longest,
              spares : BOOLEAN]

NoBlock == [length |-> 0, left |-> 0, spares |-> FALSE]

\* A lock's reason reads as a sanction or it does not; an absent one does not.
Locks == {"none", "other", "sanction"}

ASSUME StandingAssumption ==
    /\ Account \subseteq Nat /\ IsFiniteSet(Account)
    /\ Mortal \subseteq Account /\ Flagged \subseteq Mortal
    /\ {Longest, Threshold, ChecksPerRun, Recheck, MaxChanges} \subseteq Nat
    /\ Blocks \subseteq BlockInfo

VARIABLES
    named,      \* the accounts that the stored results of the wiki name
    block,      \* what each account's wiki says of it: its block, or NoBlock
    lock,       \* what CentralAuth says of it
    gone,       \* accounts that no longer exist
    table,      \* contributor_standing: a row per tracked account
    run,        \* the run of sync_wiki in progress
    changes,    \* how often something changed or failed so far
    moved       \* history: accounts whose facts changed since the last run began

vars == <<named, block, lock, gone, table, run, changes, moved>>

Row == [block : BlockInfo, locked : BOOLEAN, reason : {"other", "sanction"},
        checked : Nat \cup {Never, Untracked}]

NewRow(b) == [block |-> b, locked |-> FALSE, reason |-> "other", checked |-> Never]
NoRow == [NewRow(NoBlock) EXCEPT !.checked = Untracked]

Phases == {"idle", "fetch", "locks", "reason"}

NoRun == [phase |-> "idle", ids |-> {}, records |-> [a \in Account |-> NoRow], todo |-> {}]

-----------------------------------------------------------------------------
(* The rule, applied when a response is built.                             *)

\* A block that withholds a name: it does not spare it, has not expired, and is
\* indefinite or longer than the threshold.
BlockBars(b) ==
    /\ b.length # 0 /\ ~b.spares
    /\ \/ b.length = Forever
       \/ b.left # 0 /\ b.length > Threshold

LockBars(row) == row.locked /\ row.reason = "sanction"

\* ~is_nameable_account: an account nobody has looked at is nameable.
Withheld(a) == table[a] # NoRow /\ (LockBars(table[a]) \/ BlockBars(table[a].block))

\* What the table is to say of an account.
Sanctioned(a) == lock[a] = "sanction" \/ BlockBars(block[a])

-----------------------------------------------------------------------------
Init ==
    /\ named \in SUBSET Account
    /\ block \in [Account -> Blocks \cup {NoBlock}]
    /\ lock \in [Account -> Locks]
    /\ gone = {}
    /\ table = [a \in Account |-> NoRow]
    /\ run = NoRun
    /\ changes = 0
    /\ moved = {}

(* The world around the job.                                               *)

Count == changes < MaxChanges /\ changes' = changes + 1

Change(a) == Count /\ moved' = moved \cup {a}

\* Block, unblock, or replace a block by another.
SetBlock(a) ==
    /\ \E b \in Blocks \cup {NoBlock} : b # block[a] /\ block' = [block EXCEPT ![a] = b]
    /\ Change(a)
    /\ UNCHANGED <<named, lock, gone, table, run>>

SetLock(a) ==
    /\ \E l \in Locks \ {lock[a]} : lock' = [lock EXCEPT ![a] = l]
    /\ Change(a)
    /\ UNCHANGED <<named, block, gone, table, run>>

\* The account is merged away or hidden: its id and its name answer no more.
Vanish(a) ==
    /\ a \in Mortal \ gone
    /\ gone' = gone \cup {a}
    /\ Change(a)
    /\ UNCHANGED <<named, block, lock, table, run>>

\* A result that names a is stored, or the last one that did is removed.
Rename(a) ==
    /\ named' = IF a \in named THEN named \ {a} ELSE named \cup {a}
    /\ Count
    /\ UNCHANGED <<block, lock, gone, table, run, moved>>

-----------------------------------------------------------------------------
(* The job.                                                                *)

\* named_contributor_ids and standing_records.
Begin ==
    /\ run.phase = "idle"
    /\ run' = [NoRun EXCEPT !.phase = "fetch", !.ids = named]
    /\ moved' = {}
    /\ UNCHANGED <<named, block, lock, gone, table, changes>>

\* list=users: an account that is gone has no item, or one that has its id and
\* the flag "missing" (resolve_users reads it, fetch_standing does not): an account
\* without a block.
Answered(a) == a \notin gone \/ a \in Flagged
BlockSaid(a) == IF a \in gone THEN NoBlock ELSE block[a]

\* ORDER BY lock_checked_at IS NULL DESC, lock_checked_at ASC.
Before(a, b) ==
    \/ table[a].checked = Never /\ table[b].checked # Never
    \/ table[b].checked # Never /\ table[a].checked > table[b].checked

Stale == {a \in Account : table[a] # NoRow /\ (table[a].checked = Never
                                               \/ table[a].checked > Recheck)}

\* Mutant of Candidates: oldest last.
CandidatesNewest(S) ==
    /\ S \subseteq Stale
    /\ Cardinality(S) = IF Cardinality(Stale) < ChecksPerRun
                        THEN Cardinality(Stale) ELSE ChecksPerRun
    /\ \A a \in S, b \in Stale \ S : ~Before(a, b)

\* lock_check_candidates: the first ChecksPerRun of the rows whose lock is stale.
Candidates(S) ==
    /\ S \subseteq Stale
    /\ Cardinality(S) = IF Cardinality(Stale) < ChecksPerRun
                        THEN Cardinality(Stale) ELSE ChecksPerRun
    /\ \A a \in S, b \in Stale \ S : ~Before(b, a)

\* Mutant of Unseen: the ration is not shared with the candidates.
UnseenUnrationed(S) ==
    LET unseen == {a \in run.ids : table[a] = NoRow}
    IN  {a \in unseen : Cardinality({b \in unseen : b < a}) < ChecksPerRun}

\* The accounts never tracked before that the rest of the ration has room for.
Unseen(S) ==
    LET unseen == {a \in run.ids : table[a] = NoRow}
    IN  {a \in unseen : Cardinality({b \in unseen : b < a}) < ChecksPerRun - Cardinality(S)}

\* Mutant of Drafted: an account MediaWiki did not answer for is left out.
DraftedAnswered(a) ==
    IF a \notin run.ids \/ ~Answered(a) THEN NoRow
    ELSE IF table[a] # NoRow THEN [table[a] EXCEPT !.block = BlockSaid(a)]
    ELSE NewRow(BlockSaid(a))

\* The record of an account before its lock is looked at: what was known stays,
\* the block excepted when MediaWiki answered.
Drafted(a) ==
    IF a \notin run.ids THEN NoRow
    ELSE IF ~Answered(a) THEN table[a]
    ELSE IF table[a] # NoRow THEN [table[a] EXCEPT !.block = BlockSaid(a)]
    ELSE NewRow(BlockSaid(a))

\* fetch_standing, and which locks this run is to ask about.
Fetch ==
    /\ run.phase = "fetch"
    /\ \E S \in SUBSET Account :
          /\ Candidates(S)
          /\ run' = [run EXCEPT !.phase = "locks",
                        !.records = [a \in Account |-> Drafted(a)],
                        !.todo = {a \in run.ids : Answered(a) /\ a \in S \cup Unseen(S)}]
    /\ UNCHANGED <<named, block, lock, gone, table, changes, moved>>

Turn(a) == a \in run.todo /\ \A b \in run.todo : a <= b

\* global_user_info: not locked, or locked and the reason is asked for next.
ReadLock(a) ==
    /\ run.phase = "locks" /\ Turn(a)
    /\ IF lock[a] = "none" \/ a \in gone
       THEN run' = [run EXCEPT !.todo = @ \ {a},
                       !.records[a] = [@ EXCEPT !.locked = FALSE, !.reason = "other",
                                                !.checked = 0]]
       ELSE run' = [run EXCEPT !.phase = "reason", !.records[a].locked = TRUE]
    /\ UNCHANGED <<named, block, lock, gone, table, changes, moved>>

\* global_lock_reason: the comment on the last entry of the global log, which is
\* that of an unlock when a steward was faster.
ReadReason(a) ==
    /\ run.phase = "reason" /\ Turn(a)
    /\ \E reason \in {"other", "sanction"} :
          /\ lock[a] # "none" => reason = lock[a]
          /\ run' = [run EXCEPT !.phase = "locks", !.todo = @ \ {a},
                        !.records[a] = [@ EXCEPT !.reason = reason, !.checked = 0]]
    /\ UNCHANGED <<named, block, lock, gone, table, changes, moved>>

\* Mutant of LockUnread: the record is cleared when the lock cannot be read.
LockUnreadCleared(a) ==
    /\ run.phase \in {"locks", "reason"} /\ Turn(a)
    /\ run' = [run EXCEPT !.phase = "locks", !.todo = @ \ {a}, !.records[a].locked = FALSE]
    /\ Count
    /\ UNCHANGED <<named, block, lock, gone, table, moved>>

\* Either request fails: what the record says so far stands.
LockUnread(a) ==
    /\ run.phase \in {"locks", "reason"} /\ Turn(a)
    /\ run' = [run EXCEPT !.phase = "locks", !.todo = @ \ {a}]
    /\ Count
    /\ UNCHANGED <<named, block, lock, gone, table, moved>>

\* replace_standing, in one transaction.
Replace ==
    /\ run.phase = "locks" /\ run.todo = {}
    /\ table' = run.records
    /\ run' = NoRun
    /\ UNCHANGED <<named, block, lock, gone, changes, moved>>

\* The block pass fails, the job runs into its timeout, or it is killed.
Abort ==
    /\ run.phase # "idle"
    /\ run' = NoRun
    /\ Count
    /\ UNCHANGED <<named, block, lock, gone, table, moved>>

-----------------------------------------------------------------------------
(* Time.                                                                   *)

Expiring(b) == IF b.left \in {0, Forever} THEN b ELSE [b EXCEPT !.left = @ - 1]

\* MediaWiki keeps no trace of a block that ended.
Ended(b) == IF Expiring(b).left = 0 THEN NoBlock ELSE Expiring(b)

\* Past Recheck + 1 only the order of the checks counts: an age grows on only
\* where that keeps it apart from a younger one that catches up.
Older(a) ==
    \A n \in (Recheck + 1)..table[a].checked :
        \E b \in Account : table[b] # NoRow /\ table[b].checked = n - 1

Aged(a) ==
    IF table[a] = NoRow THEN NoRow
    ELSE [table[a] EXCEPT !.block = Expiring(@),
                          !.checked = IF @ # Never /\ Older(a) THEN @ + 1 ELSE @]

Tick ==
    /\ run.phase = "idle"
    /\ block' = [a \in Account |-> Ended(block[a])]
    /\ table' = [a \in Account |-> Aged(a)]
    /\ UNCHANGED <<named, lock, gone, run, changes, moved>>

Next ==
    \/ \E a \in Account : \/ SetBlock(a) \/ SetLock(a) \/ Vanish(a) \/ Rename(a)
                          \/ ReadLock(a) \/ ReadReason(a) \/ LockUnread(a)
    \/ Begin \/ Fetch \/ Replace \/ Abort
    \/ Tick

Spec == Init /\ [][Next]_vars

\* The job is started, a run that has begun goes on, and hours pass.
Fairness ==
    /\ WF_vars(Begin \/ Fetch \/ Replace \/ \E a \in Account : ReadLock(a) \/ ReadReason(a))
    /\ SF_vars(Tick)

FairSpec == Spec /\ Fairness

-----------------------------------------------------------------------------
(* What is asked of it.                                                    *)

\* Facts, rows and the run in progress stay in their ranges; a run tracks what
\* it was started for and asks CentralAuth about no more accounts than rationed.
TypeOK ==
    /\ named \subseteq Account /\ gone \subseteq Mortal /\ moved \subseteq Account
    /\ block \in [Account -> BlockInfo]
    /\ lock \in [Account -> Locks]
    /\ table \in [Account -> Row]
    /\ run \in [phase : Phases, ids : SUBSET Account,
                records : [Account -> Row], todo : SUBSET Account]
    /\ Cardinality(run.todo) <= ChecksPerRun
    /\ \A a \in run.todo : a \in run.ids /\ run.records[a] # NoRow
    /\ run.phase = "reason" => run.todo # {}
    /\ changes \in 0..MaxChanges

\* "A network failure is not a general amnesty" (test_standing.py): no step of a
\* run forgets an account, or makes a name reappear while the block, or the lock,
\* that withholds it stands on the wiki -- not when MediaWiki leaves the account out
\* of its answer, a lock check fails half-way, or the run dies.  What a run makes
\* of an item flagged missing is the business of MissingKept.
SanctionsSurvive ==
    [][\A a \in run.ids \ moved :
          table[a] # NoRow =>
             /\ table'[a] # NoRow
             /\ a \notin gone \cap Flagged =>
                   /\ BlockBars(table[a].block) /\ BlockBars(block[a]) =>
                          BlockBars(table'[a].block)
                   /\ LockBars(table[a]) /\ lock[a] = "sanction" => LockBars(table'[a])]_vars

\* "Keep what was known rather than inventing a clean slate for it" (standing.py:71-72):
\* a name that the table withholds when its account is gone stays withheld.
MissingKept ==
    [][\A a \in (run.ids \cap gone) \ moved : Withheld(a) => Withheld(a)']_vars

\* "At the defaults every account's lock status is confirmed within a day" (ADR-0009):
\* once nothing changes or fails any more, whoever is sanctioned is withheld and
\* nobody else is, although the lock checks of a run are rationed.  Accounts that
\* are gone are left out, and so is what happens when list=users says nothing of
\* one: if it was never checked it keeps its place in the ration for ever.
StandingsSettle ==
    <>[](gone \subseteq Flagged => \A a \in named \ gone : Withheld(a) <=> Sanctioned(a))
=============================================================================
