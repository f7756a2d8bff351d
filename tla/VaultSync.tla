----------------------------- MODULE VaultSync -----------------------------
(***************************************************************************)
(* The facts and their files: one sync pass (app/vault/sync.py, ingest.py,*)
(* deletions.py, holds.py) over the memory table (app/core/memory.py) and *)
(* the user's vault.  A pass is one job of the worker; beside it the user  *)
(* changes files in Obsidian and facts in the web panel, and the process   *)
(* may die or the vault become unreachable between any two commits or     *)
(* requests.  Holds are answered, and the idle consolidation runs, between*)
(* passes: they run in the worker's own loop.                             *)
(*                                                                         *)
(* A hash stands for the content it is of.  vaultd checks a hash and then  *)
(* replaces or unlinks (vaultd/vaultd/store.py): the user's client may     *)
(* write in between.  The journal, the notes and the reports are not       *)
(* followed; nor are pins, techniques, the write budget of a pass and      *)
(* /delete.                                                                *)
(***************************************************************************)
EXTENDS Integers, FiniteSets, FiniteSetsExt

CONSTANTS
    MassMax,     \* MASS_DELETE_MAX
    MaxFacts,    \* bound: rows of memory ever written
    MaxRows,     \* bound: rows of vault_file ever written
    MaxEdits,    \* bound: what the user does to files
    MaxEvents    \* bound: that, and corrections, /forget and merges beside the
                 \* files, and passes cut off

ASSUME VaultAssumption ==
    /\ MassMax \in Nat /\ MaxEdits \in Nat /\ MaxEvents \in Nat
    /\ MaxFacts \in Nat /\ MaxFacts >= 2 /\ MaxRows \in Nat /\ MaxRows >= 2

Facts == 1..MaxFacts
Rows  == 1..MaxRows
Texts == 1..3
Kinds == {"plain", "rule"}
Own   == MaxFacts + 1        \* a file name of the user's
Paths == 1..Own              \* fact_path(m) is m

VARIABLES
    memory,     \* the memory table by id
    lastFact,   \* its serial
    file,       \* vault_file by id
    lastFile,   \* its serial
    hold,       \* the pending rule hold of each row
    mass,       \* the rows of the pending mass_delete hold
    window,     \* forgets_window
    disk,       \* the vault: the content at each path
    limbo,      \* a file the user took away, as it was
    pc,         \* where the pass stands
    manifest,   \* its snapshot of the disk
    absent,     \* its rows whose file the manifest lacks
    seen,       \* memory_id of each row as the pass's session holds it
    todo,       \* the paths, rows or views its present loop has not come to
    at,         \* the row whose request is under way
    edits, events,      \* the bounded events so far
    away,       \* history: how long each row's file has been missing for good
    hasty,      \* history: rows forgotten before their file was gone that long
    unread,     \* history: paths with a content of the user's nobody has read
    lost,       \* history: paths where the bot put or deleted over such a content,
                \* and how that came about
    agreed,     \* history: rule holds the user said yes to, kind and text
    origin,     \* history: the first facts each fact comes from
    crossed     \* history: facts changed elsewhere under a pass, or merged
                \* before it

db      == <<memory, lastFact, file, lastFile, hold, mass, window>>
vault   == <<disk, limbo>>
pass    == <<pc, manifest, absent, seen, todo, at>>
bounds  == <<edits, events>>
history == <<away, hasty, unread, lost, agreed, origin, crossed>>
vars    == <<db, vault, pass, bounds, history>>

NoFact == [text |-> 0, kind |-> "none", source |-> "none", next |-> 0]
Fact   == [text : Texts, kind : Kinds, next : 0..MaxFacts,
           source : {"extractor", "user", "vault", "consolidate"}]

None    == [anchor |-> 0, text |-> 0, kind |-> "none"]
Garbled == [anchor |-> 0, text |-> 0, kind |-> "garbled"]   \* parse_fact refuses it
\* "other": the header no longer says anchor: fact, and parse_fact ignores it.
Content == [anchor : 0..MaxFacts, text : Texts, kind : Kinds \union {"other"}]
           \union {Garbled}

NoFile == [path |-> 0, state |-> "none", memory |-> 0, disk |-> None,
           digest |-> None, missing |-> "no"]
File   == [path : Paths, state : {"ok", "quarantined", "held", "restore"},
           memory : 0..MaxFacts, disk : Content \union {None},
           digest : Content \union {None}, missing : {"no", "new", "old"}]

NoHold   == [kind |-> "none", text |-> 0, over |-> 0]
RuleHold == [kind : Kinds, text : Texts, over : 0..MaxFacts]

PCs == {"idle", "ingest", "adopt", "adopting", "adopted", "follow", "drop", "dropping",
        "dropped", "write", "writing", "record"}

TypeOK ==
    /\ memory \in [Facts -> Fact \union {NoFact}] /\ lastFact \in 0..MaxFacts
    /\ file \in [Rows -> File \union {NoFile}] /\ lastFile \in 0..MaxRows
    /\ hold \in [Rows -> RuleHold \union {NoHold}]
    /\ mass \subseteq Rows /\ window \in Nat
    /\ disk \in [Paths -> Content \union {None}] /\ limbo \in Content \union {None}
    /\ pc \in PCs /\ manifest \in [Paths -> Content \union {None}]
    /\ absent \subseteq Rows /\ seen \in [Rows -> 0..MaxFacts]
    /\ todo \subseteq (IF pc \in {"write", "writing", "record"} THEN Content ELSE Nat)
    /\ at \in 0..MaxRows
    /\ edits \in Nat /\ events \in Nat
    /\ away \in [Rows -> {"no", "new", "old"}] /\ hasty \subseteq Rows
    /\ unread \subseteq Paths
    /\ lost \subseteq Paths \X {"recorded", "unrecorded", "raced"}
    /\ agreed \subseteq Kinds \X Texts
    /\ origin \in [Facts -> SUBSET Facts] /\ crossed \subseteq Facts

-----------------------------------------------------------------------------
(* The memory table.                                                        *)

Exists(m) == m # 0 /\ memory[m] # NoFact
Active    == {m \in Facts : Exists(m) /\ memory[m].next = 0}

\* The head of the chain a fact is in.
Head[m \in Facts] == IF memory[m].next = 0 THEN m ELSE Head[memory[m].next]

Lineage(m) == {k \in Facts : Exists(k) /\ Head[k] = Head[m]}

\* render_fact.
Render(m) == [anchor |-> m, text |-> memory[m].text, kind |-> memory[m].kind]

\* write_memory's scan: any active fact but the one corrected.
Duplicate(text, old) == \E m \in Active \ {old} : memory[m].text = text

New == lastFact + 1

\* Mutant: the corrected fact is not superseded.
Mut_WriteMemory(text, kind, source, old, from) ==
    /\ lastFact < MaxFacts
    /\ lastFact' = New
    /\ memory' = [memory EXCEPT ![New] =
                      [text |-> text, kind |-> kind, source |-> source, next |-> 0]]
    /\ origin' = [origin EXCEPT ![New] = IF from = {} THEN {New}
                                         ELSE UNION {origin[m] : m \in from}]

\* write_memory past its scan: the new row, and the old one superseded if it is
\* still active, its files with it.  from: the facts the new one stands for.
WriteMemory(text, kind, source, old, from) ==
    /\ lastFact < MaxFacts
    /\ lastFact' = New
    /\ memory' = [m \in Facts |->
            IF m = New THEN [text |-> text, kind |-> kind, source |-> source, next |-> 0]
            ELSE IF m = old /\ m \in Active THEN [memory[m] EXCEPT !.next = New]
            ELSE memory[m]]
    /\ origin' = [origin EXCEPT ![New] = IF from = {} THEN {New}
                                         ELSE UNION {origin[m] : m \in from}]

\* The files of a fact write_memory supersedes.
Moved(old) == [r \in Rows |-> IF old \in Active /\ file[r].memory = old
                              THEN [file[r] EXCEPT !.memory = New] ELSE file[r]]

\* forget_lineage for several facts; the foreign key of a file is set null.
Without(gone)  == [m \in Facts |-> IF m \in gone THEN NoFact ELSE memory[m]]
Unlinked(gone) == [r \in Rows |-> IF file[r].memory \in gone
                                  THEN [file[r] EXCEPT !.memory = 0] ELSE file[r]]

Rowed      == {r \in Rows : file[r] # NoFile}
RowsAt(p)  == {r \in Rowed : file[r].path = p}

Synced(m) == [path |-> m, state |-> "ok", memory |-> m,
              disk |-> [anchor |-> m, text |-> m, kind |-> "plain"],
              digest |-> [anchor |-> m, text |-> m, kind |-> "plain"],
              missing |-> "no"]

\* Two extracted facts, their files written.
Init ==
    /\ lastFact = 2 /\ lastFile = 2
    /\ memory = [m \in Facts |-> IF m <= lastFact
            THEN [text |-> m, kind |-> "plain", source |-> "extractor", next |-> 0]
            ELSE NoFact]
    /\ file = [r \in Rows |-> IF r <= lastFile THEN Synced(r) ELSE NoFile]
    /\ disk = [p \in Paths |-> IF p <= lastFile THEN Synced(p).disk ELSE None]
    /\ hold = [r \in Rows |-> NoHold] /\ mass = {} /\ window = 0 /\ limbo = None
    /\ pc = "idle" /\ manifest = [p \in Paths |-> None] /\ absent = {}
    /\ seen = [r \in Rows |-> 0] /\ todo = {} /\ at = 0
    /\ edits = 0 /\ events = 0
    /\ away = [r \in Rows |-> "no"] /\ hasty = {} /\ unread = {} /\ lost = {}
    /\ agreed = {} /\ crossed = {}
    /\ origin = [m \in Facts |-> IF m <= lastFact THEN {m} ELSE {}]

-----------------------------------------------------------------------------
(* The user's files.  What happens beside a pass is let in where the pass   *)
(* may see it next, and counts as there: a file when its turn has come, a   *)
(* fact before the pass looks at facts.                                     *)

First(s) == CHOOSE x \in s : \A y \in s : x <= y

FirstView == CHOOSE v \in todo : \A w \in todo : v.anchor <= w.anchor

RowsOf(v) == {r \in Rowed : seen[r] = v.anchor}

\* The row a view is written by, if there is one: the latest.
Latest(v) == IF RowsOf(v) = {} THEN 0 ELSE Max(RowsOf(v))

\* The path the pass goes to next, 0 when it goes to none.
NextPath ==
    CASE pc = "ingest" /\ todo # {} -> First(todo)
      [] pc \in {"adopt", "adopting", "dropping", "writing"} -> file[at].path
      [] pc = "drop" /\ todo # {} -> file[First(todo)].path
      [] pc = "write" /\ todo # {} ->
            IF Latest(FirstView) = 0 THEN FirstView.anchor ELSE file[Latest(FirstView)].path
      [] OTHER -> 0

Event == events < MaxEvents /\ events' = events + 1

Touches(p) ==
    /\ pc = "idle" \/ p = NextPath
    /\ edits < MaxEdits /\ edits' = edits + 1 /\ Event
    /\ UNCHANGED <<db, pass, away, hasty, lost, agreed, origin, crossed>>

Known(p, c) == \E r \in RowsAt(p) : file[r].disk = c

\* p now holds c, which nobody has read unless it is what the row has on record.
Holds(p, c) ==
    /\ disk' = [disk EXCEPT ![p] = c]
    /\ unread' = IF c = None \/ Known(p, c) THEN unread \ {p} ELSE unread \union {p}

\* The same file without anchor: fact.
Disowned(c) == [c EXCEPT !.text = 3, !.kind = "other"]

\* What may be typed over a content: another text, another kind, a header without
\* anchor: fact or a broken one.
Typed(c) == {[c EXCEPT !.text = t, !.kind = "plain"] : t \in {1, 3}}
            \union {[c EXCEPT !.text = 3, !.kind = "rule"], Disowned(c), Garbled}

UserWrites(p) ==
    /\ Touches(p)
    /\ disk[p] # None \/ p = Own
    /\ \E c \in Typed(disk[p]) \ {disk[p]} : Holds(p, c)
    /\ UNCHANGED limbo

UserRemoves(p) ==
    /\ Touches(p)
    /\ disk[p] # None
    /\ Holds(p, None)
    /\ limbo' = disk[p]

\* Put back, under its name, another tracked one or the user's, perhaps without
\* anchor: fact: Obsidian Sync delivers a rename as a delete and a create.
UserReturns(p) ==
    /\ Touches(p)
    /\ limbo # None /\ disk[p] = None /\ (RowsAt(p) # {} \/ p = Own)
    /\ \E c \in {limbo, Disowned(limbo)} : Holds(p, c)
    /\ limbo' = None

UserCopies(p) ==
    /\ Touches(Own)
    /\ disk[p] # None /\ disk[Own] = None
    /\ Holds(Own, disk[p])
    /\ UNCHANGED limbo

-----------------------------------------------------------------------------
(* The facts, beside the files.                                             *)

Ops ==
    /\ Event
    /\ UNCHANGED <<vault, pass, edits, lastFile, hold, mass, window, away,
                   hasty, lost, agreed>>

\* The pass looks at facts next.
ReadsFacts == \/ pc \in {"idle", "ingest", "follow"}
              \/ pc = "drop" /\ todo = {}
              \/ pc = "write" /\ todo # {} /\ Latest(FirstView) = 0

\* post_edit: a correction from the web panel (a later correction from the chat is
\* the same write between two passes).
WebEdit(m) ==
    /\ Ops
    /\ ReadsFacts /\ m \in Active
    /\ \E t \in Texts :
          /\ t # memory[m].text /\ ~Duplicate(t, m)
          /\ WriteMemory(t, memory[m].kind, "user", m, {m})
    /\ file' = Moved(m)
    /\ crossed' = IF pc = "idle" THEN crossed ELSE crossed \union origin[m]
    /\ UNCHANGED unread

\* post_forget, /forget.  The files of the lineage are to go, read or not.
Forget(m) ==
    /\ Ops
    /\ ReadsFacts /\ m \in Active
    /\ memory' = Without(Lineage(m))
    /\ file' = Unlinked(Lineage(m))
    /\ unread' = unread \ {file[r].path : r \in {r \in Rowed : file[r].memory \in Lineage(m)}}
    /\ UNCHANGED <<lastFact, origin, crossed>>

\* apply_consolidate of one merge, and of one contradiction, of facts still as
\* the plan saw them; the files are left where they are.
Mergeable(m) == m \in Active /\ memory[m].source = "extractor" /\ memory[m].kind = "plain"

Consolidate(m, n) ==
    /\ Ops
    /\ pc = "idle" /\ m # n /\ Mergeable(m) /\ Mergeable(n)
    /\ \/ /\ m < n
          /\ lastFact < MaxFacts /\ lastFact' = New
          /\ \E t \in Texts \ {memory[m].text, memory[n].text} :
                memory' = [k \in Facts |->
                    IF k = New THEN [text |-> t, kind |-> "plain", source |-> "consolidate",
                                     next |-> 0]
                    ELSE IF k \in {m, n} THEN [memory[k] EXCEPT !.next = New]
                    ELSE memory[k]]
          /\ origin' = [origin EXCEPT ![New] = origin[m] \union origin[n]]
       \/ /\ memory' = [memory EXCEPT ![m].next = n]
          /\ UNCHANGED <<lastFact, origin>>
    /\ crossed' = crossed \union origin[m] \union origin[n]
    /\ UNCHANGED <<file, unread>>

-----------------------------------------------------------------------------
(* Holds, answered between passes (holds.decide).                           *)

\* The user has had a say on what row r's file held.
Settled(r) == unread' = IF Known(file[r].path, disk[file[r].path])
                        THEN unread \ {file[r].path} ELSE unread

\* Mutant: the row keeps its digest, so nothing is rendered over the refused rule.
Mut_Reverted(r) == [file[r] EXCEPT !.state = "ok"]

\* _apply_rule with no: a new file is left to the clean-up of forgotten facts,
\* an edited one is rendered again.
Reverted(r) == [file[r] EXCEPT !.state = "ok",
                               !.digest = IF hold[r].over = 0 THEN @ ELSE None]

Refuse(r) ==
    /\ pc = "idle" /\ hold[r] # NoHold
    /\ file' = [file EXCEPT ![r] = Reverted(r)]
    /\ hold' = [hold EXCEPT ![r] = NoHold]
    /\ Settled(r)
    /\ UNCHANGED <<memory, lastFact, lastFile, mass, window, vault, pass, bounds, away,
                   hasty, lost, agreed, origin, crossed>>

\* _apply_rule with yes, on the text the user was shown: stale if the fact has
\* moved on, quarantined if another fact says the same.
Agree(r) ==
    /\ pc = "idle" /\ hold[r] # NoHold
    /\ LET h == hold[r]
           stale == h.over # 0 /\ file[r].memory # h.over IN
       /\ agreed' = agreed \union {<<h.kind, h.text>>}
       /\ IF stale
          THEN /\ file' = [file EXCEPT ![r].state = "ok"]
               /\ UNCHANGED <<memory, lastFact, origin>>
          ELSE IF Duplicate(h.text, h.over)
          THEN /\ file' = [file EXCEPT ![r].state = "quarantined"]
               /\ UNCHANGED <<memory, lastFact, origin>>
          ELSE /\ WriteMemory(h.text, h.kind, "vault", h.over, {h.over} \ {0})
               /\ file' = [Moved(h.over) EXCEPT ![r] =
                               [file[r] EXCEPT !.state = "ok", !.memory = New]]
       /\ hold' = [hold EXCEPT ![r] = NoHold]
    /\ Settled(r)
    /\ UNCHANGED <<lastFile, mass, window, vault, pass, bounds, away, hasty, lost, crossed>>

Restored(r) == [file[r] EXCEPT !.state = "restore", !.missing = "no", !.digest = None]

\* _apply_mass_delete.
KeepAll ==
    /\ pc = "idle" /\ mass # {}
    /\ file' = [r \in Rows |-> IF r \in mass THEN Restored(r) ELSE file[r]]
    /\ mass' = {}
    /\ UNCHANGED <<memory, lastFact, lastFile, hold, window, vault, pass, bounds, history>>

ForgetAll ==
    /\ pc = "idle" /\ mass # {}
    /\ LET gone == UNION {Lineage(file[r].memory) : r \in {r \in mass : file[r].memory # 0}} IN
       /\ memory' = Without(gone)
       /\ file' = [r \in Rows |-> IF r \in mass THEN NoFile ELSE Unlinked(gone)[r]]
       /\ unread' = unread \ {file[r].path : r \in {r \in Rowed : file[r].memory \in gone}}
    /\ mass' = {}
    /\ UNCHANGED <<lastFact, lastFile, hold, window, vault, pass, bounds, away, hasty,
                   lost, agreed, origin, crossed>>

-----------------------------------------------------------------------------
(* Time.                                                                    *)

\* DELETE_GRACE_S since row r was first seen missing, or since it really was.
GraceElapses(r) ==
    /\ pc = "idle" /\ "new" \in {file[r].missing, away[r]}
    /\ file' = [file EXCEPT ![r].missing = IF @ = "new" THEN "old" ELSE @]
    /\ away' = [away EXCEPT ![r] = IF @ = "new" THEN "old" ELSE @]
    /\ UNCHANGED <<memory, lastFact, lastFile, hold, mass, window, vault, pass, bounds,
                   hasty, unread, lost, agreed, origin, crossed>>

\* Mutant: a forget leaves the window that is not in it.
Mut_WindowMoves ==
    /\ pc = "idle"
    /\ window' = window - 1
    /\ UNCHANGED <<memory, lastFact, file, lastFile, hold, mass, vault, pass, bounds, history>>

\* The oldest forget leaves MASS_DELETE_WINDOW.
WindowMoves ==
    /\ pc = "idle" /\ window > 0
    /\ window' = window - 1
    /\ UNCHANGED <<memory, lastFact, file, lastFile, hold, mass, vault, pass, bounds, history>>

-----------------------------------------------------------------------------
(* The pass.                                                                *)

Rest(what) == todo' = todo \ {what} /\ UNCHANGED <<pc, manifest, absent, seen, at>>

\* run_vault_sync up to the ingest: the snapshot, the rows read, the files that
\* differ from their rows.
StartPass ==
    /\ pc = "idle"
    /\ pc' = "ingest" /\ at' = 0
    /\ manifest' = disk
    /\ absent' = {r \in Rowed : disk[file[r].path] = None}
    /\ seen' = [r \in Rows |-> file[r].memory]
    /\ todo' = {p \in Paths : disk[p] # None /\ \A r \in RowsAt(p) :
                   file[r].state # "held" /\ file[r].disk # disk[p]}
    /\ away' = [r \in Rows |-> IF r \notin absent' THEN "no"
                               ELSE IF away[r] = "no" THEN "new" ELSE away[r]]
    /\ UNCHANGED <<db, vault, bounds, hasty, unread, lost, agreed, origin, crossed>>

\* Any exit that commits nothing more: the process dies, the vault is
\* unreachable, a handler raises.
Leaves ==
    /\ pc' = "idle" /\ manifest' = [p \in Paths |-> None] /\ absent' = {}
    /\ seen' = [r \in Rows |-> 0] /\ todo' = {} /\ at' = 0

PassStops ==
    /\ pc # "idle" /\ Event
    /\ Leaves
    /\ UNCHANGED <<db, vault, edits, history>>

\* The file whose turn it is, and whether it is still what the manifest says.
Turn(p) == pc = "ingest" /\ p \in todo /\ p = First(todo)

Reads(p) == Turn(p) /\ disk[p] = manifest[p]

\* _resolve_identity, past the row at the path itself: the rows that answer for
\* the fact the file names.
Named(p) == LET a == disk[p].anchor IN
            IF Exists(a) THEN {r \in Rowed : file[r].memory = Head[a]} ELSE {}

Untracked(p) == RowsAt(p) = {}
Renamed(p, r) == Untracked(p) /\ Named(p) = {r} /\ manifest[file[r].path] = None
Copied(p)     == Untracked(p) /\ \E r \in Rows : Named(p) = {r}
                                /\ file[r].state # "held" /\ manifest[file[r].path] # None

\* The row a file is an edit of; a quarantined row without a fact is only reused.
Spare(r)    == seen[r] = 0 /\ file[r].state = "quarantined"
EditOf(p, r) == (r \in RowsAt(p) /\ ~Spare(r)) \/ Renamed(p, r)
NewFile(p) == IF Untracked(p) THEN Named(p) = {} ELSE \E r \in RowsAt(p) : Spare(r)

Fresh(p) == IF Untracked(p) THEN lastFile + 1 ELSE CHOOSE r \in RowsAt(p) : TRUE

\* The row a new file at p gets, or has.
Row(p, state, m) == [path |-> p, state |-> state, memory |-> m, disk |-> disk[p],
                     digest |-> None, missing |-> "no"]

AddRow(p, state, m) ==
    /\ Fresh(p) <= MaxRows
    /\ lastFile' = Max({lastFile, Fresh(p)})
    /\ file' = [file EXCEPT ![Fresh(p)] = [Row(p, state, m) EXCEPT !.missing =
                   IF Untracked(p) THEN "no" ELSE file[Fresh(p)].missing]]

\* Changed again since the manifest, or gone.
IngestLater(p) ==
    /\ Turn(p) /\ disk[p] # manifest[p]
    /\ Rest(p)
    /\ UNCHANGED <<db, vault, bounds, history>>

\* Two rows for the fact it names: scalar_one_or_none raises, and the job fails.
IngestRaises(p) ==
    /\ Reads(p) /\ Untracked(p) /\ Cardinality(Named(p)) > 1
    /\ Leaves
    /\ UNCHANGED <<db, vault, bounds, history>>

\* The row it is about is held, or its fact is gone: the next render cleans up
\* the file.
IngestSkips(p, r) ==
    /\ Reads(p)
    /\ \/ file[r].state = "held" /\ (r \in RowsAt(p) \/ (Untracked(p) /\ Named(p) = {r}))
       \/ EditOf(p, r) /\ ~Exists(seen[r])
    /\ Rest(p)
    /\ UNCHANGED <<db, vault, bounds, history>>

\* The rows a file answers to: the one at its path, or those of the fact it names.
Answering(p) == IF Untracked(p) THEN Named(p) ELSE RowsAt(p)

\* Not a fact file, or no longer: its hash is not recorded and the row at its path
\* stays as it is.  A row it is the renamed file of follows it, but the pass does not
\* count that as a rename, and the deletions see the row missing as before.  (The
\* move goes with the pass's next commit; cut off before that, it is as if the pass
\* had not come to the file.)
IngestIgnores(p) ==
    /\ Reads(p) /\ disk[p].kind = "other" /\ ~Copied(p)
    /\ Cardinality(Answering(p)) <= 1
    /\ \A r \in Answering(p) : file[r].state # "held"
    /\ file' = [r \in Rows |-> IF Renamed(p, r)
                               THEN [file[r] EXCEPT !.path = p, !.missing = "no"]
                               ELSE file[r]]
    /\ unread' = IF \E r \in Rows : Renamed(p, r) /\ file[r].disk = disk[p]
                 THEN unread \ {p} ELSE unread
    /\ Rest(p)
    /\ UNCHANGED <<memory, lastFact, lastFile, hold, mass, window, vault, bounds, away, hasty,
                   lost, agreed, origin, crossed>>

\* Case c, a file we cannot read, or one that says what another fact says.
IngestRefuses(p) ==
    /\ Reads(p)
    /\ \/ Copied(p)
       \/ /\ NewFile(p)
          /\ \/ disk[p] = Garbled
             \/ disk[p].kind = "plain" /\ Duplicate(disk[p].text, 0)
    /\ AddRow(p, "quarantined", 0)
    /\ Rest(p)
    /\ UNCHANGED <<memory, lastFact, hold, mass, window, vault, bounds, history>>

IngestNewRule(p) ==
    /\ Reads(p) /\ NewFile(p) /\ disk[p].kind = "rule"
    /\ AddRow(p, "held", 0)
    /\ hold' = [hold EXCEPT ![Fresh(p)] = [kind |-> "rule", text |-> disk[p].text, over |-> 0]]
    /\ Rest(p)
    /\ UNCHANGED <<memory, lastFact, mass, window, vault, bounds, history>>

\* A fact of the user's: its row and the fact in one commit, then the file is
\* rewritten with its properties.
IngestNewFact(p) ==
    /\ Reads(p) /\ NewFile(p) /\ disk[p].kind = "plain" /\ ~Duplicate(disk[p].text, 0)
    /\ WriteMemory(disk[p].text, "plain", "vault", 0, {})
    /\ AddRow(p, "ok", New)
    /\ seen' = [seen EXCEPT ![Fresh(p)] = New]
    /\ unread' = unread \ {p}
    /\ pc' = "adopt" /\ at' = Fresh(p)
    /\ UNCHANGED <<hold, mass, window, vault, manifest, absent, todo, bounds,
                   away, hasty, lost, agreed, crossed>>

\* Mutant: the hash is read from the vault as the file is deleted.
Mut_Expected(r) == disk[file[r].path]

\* The hash a request for row r's file names: the recorded one or, for want of it,
\* the manifest's.
Expected(r) == IF file[r].disk # None THEN file[r].disk ELSE manifest[file[r].path]

\* The link, the replace or the unlink of row r's file, past the check of its hash:
\* what nobody has read is lost by it.
Put(r, c) ==
    LET p == file[r].path IN
    /\ disk' = [disk EXCEPT ![p] = c]
    /\ lost' = IF p \notin unread THEN lost
               ELSE lost \union {<<p, IF disk[p] # Expected(r) THEN "raced"
                                    ELSE IF file[r].disk = None THEN "unrecorded"
                                    ELSE "recorded">>}
    /\ unread' = unread \ {p}
    /\ UNCHANGED limbo

\* The check of the file's hash, and then the replace, which puts back a file that
\* has gone since.
Adopt ==
    /\ pc = "adopt"
    /\ LET p == file[at].path IN
       IF disk[p] = file[at].disk
       THEN pc' = "adopting" /\ UNCHANGED todo
       ELSE pc' = "ingest" /\ todo' = todo \ {p}
    /\ UNCHANGED <<db, vault, manifest, absent, seen, at, bounds, history>>

AdoptSwap ==
    /\ pc = "adopting" /\ pc' = "adopted"
    /\ Put(at, Render(seen[at]))
    /\ UNCHANGED <<db, manifest, absent, seen, todo, at, bounds, away, hasty, agreed,
                   origin, crossed>>

Adopted ==
    /\ pc = "adopted"
    /\ file' = [file EXCEPT ![at].disk = Render(seen[at]), ![at].digest = Render(seen[at])]
    /\ pc' = "ingest" /\ todo' = todo \ {file[at].path}
    /\ UNCHANGED <<memory, lastFact, lastFile, hold, mass, window, vault, manifest, absent,
                   seen, at, bounds, history>>

\* An edit of row r's file, read into the fact m its session knows.
Edited(p, r) == /\ Reads(p) /\ disk[p].kind # "other"
                /\ EditOf(p, r) /\ file[r].state # "held" /\ Exists(seen[r])

\* The version the file was written from, if it still leads to m.
Base(p, m) == LET a == disk[p].anchor IN IF Exists(a) /\ Head[a] = m THEN a ELSE m

Changed(p, m) == /\ disk[p] # Garbled
                 /\ \/ disk[p].text # memory[Base(p, m)].text
                    \/ disk[p].kind # memory[Base(p, m)].kind

\* Mutant: only a file that says it is a rule is asked about.
Mut_RuleInvolved(p, m) == disk[p].kind = "rule"

RuleInvolved(p, m) == "rule" \in {disk[p].kind, memory[m].kind}

\* The three-way merge: what the file leaves as its base has it, the fact keeps.
Merged(p, m) == LET c == disk[p]
                    b == memory[Base(p, m)] IN
    [text |-> IF c.text = b.text THEN memory[m].text ELSE c.text,
     kind |-> IF c.kind = b.kind THEN memory[m].kind ELSE c.kind]

\* Row r after the edit, its file perhaps under a new name.
Taken(p, r, state) ==
    [file[r] EXCEPT !.path = p, !.state = state, !.disk = disk[p],
                    !.missing = IF Renamed(p, r) THEN "no" ELSE @]

Done(p, r) ==
    /\ todo' = todo \ {p}
    /\ absent' = IF Renamed(p, r) THEN absent \ {r} ELSE absent
    /\ UNCHANGED <<pc, manifest, at>>

\* Garbled, or saying what another fact says.
IngestQuarantines(p, r) ==
    /\ Edited(p, r)
    /\ LET m == seen[r] IN
       \/ disk[p] = Garbled
       \/ Changed(p, m) /\ ~RuleInvolved(p, m) /\ Duplicate(Merged(p, m).text, m)
    /\ file' = [file EXCEPT ![r] = Taken(p, r, "quarantined")]
    /\ Done(p, r)
    /\ UNCHANGED <<memory, lastFact, lastFile, hold, mass, window, vault, seen, bounds, history>>

\* A rule, old or new: the user is asked.
IngestHolds(p, r) ==
    /\ Edited(p, r) /\ Changed(p, seen[r]) /\ RuleInvolved(p, seen[r])
    /\ file' = [file EXCEPT ![r] = Taken(p, r, "held")]
    /\ hold' = [hold EXCEPT ![r] = [kind |-> disk[p].kind, text |-> disk[p].text,
                                    over |-> seen[r]]]
    /\ Done(p, r)
    /\ UNCHANGED <<memory, lastFact, lastFile, mass, window, vault, seen, bounds, history>>

IngestChange(p, r) ==
    /\ Edited(p, r) /\ Changed(p, seen[r]) /\ ~RuleInvolved(p, seen[r])
    /\ ~Duplicate(Merged(p, seen[r]).text, seen[r])
    /\ LET m == seen[r] IN
       /\ WriteMemory(Merged(p, m).text, Merged(p, m).kind, "vault", m, {m})
       /\ file' = [Moved(m) EXCEPT ![r] = [Taken(p, r, "ok") EXCEPT !.memory = New]]
       /\ seen' = [q \in Rows |-> IF q = r \/ (m \in Active /\ seen[q] = m)
                                  THEN New ELSE seen[q]]
    /\ unread' = unread \ {p}
    /\ Done(p, r)
    /\ UNCHANGED <<lastFile, hold, mass, window, vault, bounds, away, hasty, lost, agreed, crossed>>

IngestCosmetic(p, r) ==
    /\ Edited(p, r) /\ disk[p] # Garbled /\ ~Changed(p, seen[r])
    /\ file' = [file EXCEPT ![r] = Taken(p, r, "ok")]
    /\ unread' = unread \ {p}
    /\ Done(p, r)
    /\ UNCHANGED <<memory, lastFact, lastFile, hold, mass, window, vault, seen, bounds,
                   away, hasty, lost, agreed, origin, crossed>>

\* process_deletions, one commit: files first seen missing are noted; those
\* missing for the grace are forgotten if the sync client is warm, or all wait
\* for the user if they are too many.
Missing == {r \in absent : file[r].state \notin {"held", "restore"}}

Noted(r) == IF r \in Missing /\ file[r].missing = "no"
            THEN [file[r] EXCEPT !.missing = "new"] ELSE file[r]

Due == {r \in Missing : file[r].missing = "old"}

Deleting == pc = "ingest" /\ todo = {} /\ pc' = "follow" /\ absent' = {}
            /\ UNCHANGED <<vault, manifest, todo, at, bounds, lastFact, lastFile, hold>>

NoneDue ==
    /\ Deleting
    /\ file' = [r \in Rows |-> Noted(r)]
    /\ UNCHANGED <<memory, mass, window, seen, history>>

AskForAll ==
    /\ Deleting /\ mass = {} /\ window + Cardinality(Due) > MassMax /\ Due # {}
    /\ mass' = Due
    /\ file' = [r \in Rows |-> IF r \in Due THEN [file[r] EXCEPT !.state = "held"] ELSE Noted(r)]
    /\ UNCHANGED <<memory, window, seen, history>>

ForgetMissing ==
    /\ Deleting /\ mass = {} /\ window + Cardinality(Due) <= MassMax /\ Due # {}
    /\ LET named == {r \in Due : seen[r] # 0}
           gone  == UNION {Lineage(seen[r]) : r \in {r \in named : Exists(seen[r])}} IN
       /\ memory' = Without(gone)
       /\ file' = [r \in Rows |-> IF r \in Due THEN NoFile
                     ELSE [Noted(r) EXCEPT !.memory = IF @ \in gone THEN 0 ELSE @]]
       /\ window' = window + Cardinality(named)
       /\ unread' = unread \ {file[r].path : r \in {r \in Rowed : file[r].memory \in gone}}
       /\ hasty' = hasty \union {r \in named : away[r] # "old"}
    /\ seen' = [r \in Rows |-> IF r \in Due THEN 0 ELSE seen[r]]
    /\ UNCHANGED <<mass, away, lost, agreed, origin, crossed>>

\* _follow_heads, one commit: a row whose fact was superseded goes to the head,
\* unless another row has it: then it is left without a fact.
Superseded == {r \in Rowed : Exists(seen[r]) /\ memory[seen[r]].next # 0}

Claimed == {seen[r] : r \in Rowed \ Superseded}

Followed(r) == LET h == Head[seen[r]] IN
    IF h \notin Claimed /\ \A q \in Superseded : Head[seen[q]] = h => r <= q THEN h ELSE 0

FollowHeads ==
    /\ pc = "follow"
    /\ seen' = [r \in Rows |-> IF r \in Superseded THEN Followed(r) ELSE seen[r]]
    /\ file' = [r \in Rows |-> IF r \in Superseded
                               THEN [file[r] EXCEPT !.memory = Followed(r)] ELSE file[r]]
    /\ todo' = {r \in Rowed : seen'[r] = 0 /\ file[r].state \notin {"held", "quarantined"}}
    /\ pc' = "drop"
    /\ UNCHANGED <<memory, lastFact, lastFile, hold, mass, window, vault, manifest, absent,
                   at, bounds, history>>

\* Forgotten facts: the file goes by compare-and-swap, then its row.
DropTurn(r) == pc = "drop" /\ r \in todo /\ r = First(todo)

\* The check of the hash the request names, and then the unlink.
DropFile(r) ==
    /\ DropTurn(r)
    /\ LET p == file[r].path IN
       IF manifest[p] = None \/ disk[p] = None
       THEN pc' = "dropped" /\ at' = r /\ UNCHANGED todo
       ELSE IF disk[p] = Expected(r)
       THEN pc' = "dropping" /\ at' = r /\ UNCHANGED todo
       ELSE todo' = todo \ {r} /\ UNCHANGED <<pc, at>>
    /\ UNCHANGED <<db, vault, manifest, absent, seen, bounds, history>>

DropSwap ==
    /\ pc = "dropping" /\ disk[file[at].path] # None
    /\ Put(at, None)
    /\ pc' = "dropped"
    /\ UNCHANGED <<db, manifest, absent, seen, todo, at, bounds, away, hasty, agreed,
                   origin, crossed>>

\* Nothing left to unlink: vaultd answers 500, and the pass ends.
DropRaises ==
    /\ pc = "dropping" /\ disk[file[at].path] = None
    /\ Leaves
    /\ UNCHANGED <<db, vault, bounds, history>>

DropRow ==
    /\ pc = "dropped"
    /\ file' = [file EXCEPT ![at] = NoFile]
    /\ manifest' = [manifest EXCEPT ![file[at].path] = None]
    /\ pc' = "drop" /\ todo' = todo \ {at} /\ at' = 0
    /\ UNCHANGED <<memory, lastFact, lastFile, hold, mass, window, vault, absent, seen,
                   bounds, history>>

\* _fact_views.
Views ==
    /\ pc = "drop" /\ todo = {}
    /\ todo' = {Render(m) : m \in Active}
    /\ pc' = "write"
    /\ UNCHANGED <<db, vault, manifest, absent, seen, at, bounds, history>>

\* The view v whose turn it is.
WriteTurn == pc = "write" /\ todo # {}

\* The row is committed before the file is written.
WriteRow(v) ==
    /\ WriteTurn /\ RowsOf(v) = {} /\ RowsAt(v.anchor) = {} /\ Exists(v.anchor)
    /\ lastFile < MaxRows /\ lastFile' = lastFile + 1
    /\ file' = [file EXCEPT ![lastFile + 1] = [path |-> v.anchor, state |-> "ok",
            memory |-> v.anchor, disk |-> None, digest |-> None, missing |-> "no"]]
    /\ seen' = [seen EXCEPT ![lastFile + 1] = v.anchor]
    /\ UNCHANGED <<memory, lastFact, hold, mass, window, vault, pc, manifest, absent, todo,
                   at, bounds, history>>

CreateOnly(v, r) ==
    \/ file[r].state = "restore"
    \/ file[r].state = "ok" /\ file[r].disk = None /\ manifest[file[r].path] = None

UpToDate(v, r) == file[r].state = "ok" /\ file[r].digest = v

\* The file is there as the row knows it.
Current(r) == LET p == file[r].path IN
              /\ file[r].state = "ok" /\ file[r].disk # None
              /\ manifest[p] = file[r].disk /\ disk[p] = manifest[p]

\* A new file is linked, which fails if there is one; a file as rendered is left as it
\* is; any other passes the check of its hash and is replaced.
WriteFile(v) ==
    /\ WriteTurn /\ RowsOf(v) # {} /\ ~UpToDate(v, Latest(v))
    /\ at' = Latest(v)
    /\ LET r == Latest(v)
           p == file[r].path IN
       \/ /\ CreateOnly(v, r) /\ disk[p] = None
          /\ Put(r, v) /\ pc' = "record"
       \/ /\ Current(r) /\ disk[p] # Garbled
          /\ pc' = IF disk[p] = v THEN "record" ELSE "writing"
          /\ UNCHANGED <<vault, lost, unread>>
    /\ UNCHANGED <<db, manifest, absent, seen, todo, bounds, away, hasty, agreed, origin, crossed>>

WriteSwap ==
    /\ pc = "writing" /\ pc' = "record"
    /\ Put(at, FirstView)
    /\ UNCHANGED <<db, manifest, absent, seen, todo, at, bounds, away, hasty, agreed,
                   origin, crossed>>

\* A file of the user's at the name, or properties that cannot be read.
WriteQuarantines(v) ==
    /\ WriteTurn /\ RowsOf(v) # {} /\ ~UpToDate(v, Latest(v))
    /\ LET r == Latest(v) IN
       /\ file[r].state = "ok"
       /\ \/ CreateOnly(v, r) /\ disk[file[r].path] # None
          \/ Current(r) /\ disk[file[r].path] = Garbled
       /\ file' = [file EXCEPT ![r].state = "quarantined"]
    /\ Rest(v)
    /\ UNCHANGED <<memory, lastFact, lastFile, hold, mass, window, vault, bounds, history>>

\* get_file finds nothing: the pass ends.
Vanished(v) == RowsOf(v) # {} /\
    LET r == Latest(v) IN
    /\ file[r].state = "ok" /\ file[r].digest # v /\ ~CreateOnly(v, r)
    /\ manifest[file[r].path] = file[r].disk /\ disk[file[r].path] = None

WriteRaises(v) ==
    /\ WriteTurn
    /\ \/ RowsOf(v) = {} /\ ~Exists(v.anchor) /\ RowsAt(v.anchor) = {}
       \/ Vanished(v)
    /\ Leaves
    /\ UNCHANGED <<db, vault, bounds, history>>

WriteSkips(v) ==
    /\ WriteTurn
    /\ IF RowsOf(v) = {} THEN RowsAt(v.anchor) # {}
       ELSE LET r == Latest(v) IN
            \/ file[r].state \in {"held", "quarantined"} \/ UpToDate(v, r)
            \/ file[r].state = "restore" /\ disk[file[r].path] # None
            \/ file[r].state = "ok" /\ ~CreateOnly(v, r) /\ ~Current(r) /\ ~Vanished(v)
    /\ Rest(v)
    /\ UNCHANGED <<db, vault, bounds, history>>

Record ==
    /\ pc = "record"
    /\ LET v == FirstView IN
       /\ file' = [file EXCEPT ![at].state = "ok", ![at].disk = v, ![at].digest = v]
       /\ todo' = todo \ {v}
    /\ pc' = "write" /\ at' = 0
    /\ UNCHANGED <<memory, lastFact, lastFile, hold, mass, window, vault, manifest, absent,
                   seen, bounds, history>>

\* expire_holds: a hold nobody answered is a no, and the pass is over.
ExpireHolds(which, all) ==
    /\ pc = "write" /\ todo = {}
    /\ which \subseteq {r \in Rows : hold[r] # NoHold}
    /\ all \in {{}, mass}
    /\ file' = [r \in Rows |-> IF r \in which THEN Reverted(r)
                               ELSE IF r \in all THEN Restored(r) ELSE file[r]]
    /\ hold' = [r \in Rows |-> IF r \in which THEN NoHold ELSE hold[r]]
    /\ mass' = mass \ all
    /\ unread' = unread \ {file[r].path : r \in {r \in which :
                               Known(file[r].path, disk[file[r].path])}}
    /\ Leaves
    /\ UNCHANGED <<memory, lastFact, lastFile, window, vault, bounds, away, hasty, lost,
                   agreed, origin, crossed>>

Ingest ==
    \/ \E p \in Paths : \/ IngestLater(p) \/ IngestRaises(p) \/ IngestRefuses(p)
                        \/ IngestNewRule(p) \/ IngestNewFact(p) \/ IngestIgnores(p)
    \/ \E p \in Paths, r \in Rows :
           \/ IngestSkips(p, r) \/ IngestQuarantines(p, r) \/ IngestHolds(p, r)
           \/ IngestChange(p, r) \/ IngestCosmetic(p, r)
    \/ Adopt \/ AdoptSwap \/ Adopted

Write ==
    \/ WriteRow(FirstView) \/ WriteFile(FirstView) \/ WriteQuarantines(FirstView)
    \/ WriteRaises(FirstView) \/ WriteSkips(FirstView) \/ WriteSwap

Pass ==
    \/ StartPass \/ Ingest
    \/ NoneDue \/ AskForAll \/ ForgetMissing
    \/ FollowHeads \/ (\E r \in Rows : DropFile(r)) \/ DropSwap \/ DropRaises \/ DropRow
    \/ Views \/ Write \/ Record
    \/ \E which \in SUBSET Rows, all \in {{}, mass} : ExpireHolds(which, all)

User ==
    \/ \E p \in Paths : UserWrites(p) \/ UserRemoves(p) \/ UserReturns(p) \/ UserCopies(p)
    \/ \E m \in Facts : WebEdit(m) \/ Forget(m)
    \/ \E r \in Rows : Refuse(r) \/ Agree(r)
    \/ KeepAll \/ ForgetAll

Next ==
    \/ User
    \/ \E m, n \in Facts : Consolidate(m, n)
    \/ \E r \in Rows : GraceElapses(r)
    \/ WindowMoves
    \/ Pass \/ PassStops

Spec == Init /\ [][Next]_vars

\* A pass is queued every minute, and the worker runs it to an end.
FairSpec == Spec /\ WF_vars(Pass)

-----------------------------------------------------------------------------
(* Properties.                                                              *)

\* What the user wrote and no pass has read is put over or deleted in two ways only,
\* whatever the order of edits, passes, crashes and corrections, for both go by a hash
\* some pass has recorded: by a row without one (the pass that created the file did
\* not live to record it, and the fact is gone before the next one), or by a request
\* whose hash vaultd had just checked when the user wrote (store.py's residual race).
\* A file whose fact was forgotten in the meantime is not the user's any more:
\* /forget is to take it with it.
LostOnlyIfUnrecordedOrRaced == lost \subseteq Paths \X {"unrecorded", "raced"}

\* sync.py: "Anchor never overwrites or deletes a file whose current content it has
\* not ingested", with no exception but the race store.py records.  VaultUnread finds
\* it broken: _render_facts deletes the file of a row without a hash by the one the
\* manifest has just shown it.
NeverLost == lost \subseteq Paths \X {"raced"}

\* No rule enters or leaves the facts by way of a file unless the user agreed to
\* those very words: a new rule, an edit into one and an edit of one are held
\* (open_rule_hold), and what a yes applies is what was shown, though the file, the
\* fact or both may have changed since (_apply_rule).
RuleOnlyAgreed ==
    \A m \in Facts : Exists(m) /\ memory[m].source = "vault" =>
        LET yes == <<memory[m].kind, memory[m].text>> \in agreed IN
        /\ memory[m].kind = "rule" => yes
        /\ \A k \in Facts : memory[k].next = m /\ memory[k].kind = "rule" => yes

\* One fact never becomes two active ones through renames, copies, returned files,
\* edits and merges, except where a correction from the panel came under a pass or
\* a merge was made before it: then the pass supersedes a fact that no longer
\* leads (ingest.py goes by the memory_id its session holds).
TwinsOnlyIfCrossed ==
    \A m, n \in Active : m # n => origin[m] \intersect origin[n] \subseteq crossed

\* limits.py of DELETE_GRACE_S: a file counts as deleted only once it has been
\* missing for this long.  VaultGrace finds it broken: missing_since survives the
\* file's return.
GraceKept == hasty = {}

Says(c, m) == c.text = memory[m].text /\ c.kind = memory[m].kind

\* Fact m's file says what m does, or waits for the user (quarantined, held, to be
\* restored, taken away), or no longer says it is a fact (each pass ignores it, and
\* neither renders nor records it), or is an older version the user put back: its own
\* base reads as no change, and the row's digest is already the head's.
Shown(m) == \E r \in Rowed :
    /\ file[r].memory = m
    /\ LET c == disk[file[r].path] IN
       \/ file[r].state # "ok" \/ c = None \/ c.kind = "other" \/ Says(c, m)
       \/ /\ file[r].digest = Render(m) /\ c.anchor \in Lineage(m) \ {m}
          /\ Says(c, c.anchor)

\* A forgotten fact's file that was edited before the row was dropped: its hash is
\* recorded nowhere, so it is never deleted.
Gone(r) == disk[file[r].path] \notin {None, file[r].disk}

\* Two rows for one fact, and a file outside the rows that names it: every pass
\* fails at that file.
Wedged == \E p \in Paths : Untracked(p) /\ Cardinality(Named(p)) > 1

\* When the user leaves facts and files alone, the passes end with every active fact
\* in its file and every forgotten fact's file deleted, whatever was left half done
\* by the edits, holds, merges and cut-off passes before; but for the cases named
\* above.
VaultFollows ==
    <>[](\/ Wedged
         \/ /\ \A m \in Active : Shown(m)
            /\ \A r \in Rowed : file[r].memory = 0 /\ file[r].state = "ok" => Gone(r))
=============================================================================
