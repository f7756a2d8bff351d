-------------------------- MODULE VaultSyncProofs ---------------------------
(***************************************************************************)
(* Proofs about VaultSync: for any number of facts, rows, edits and events *)
(* every reachable state is well typed, nothing unread is lost but by a    *)
(* row without a hash or in the race of vaultd's check, and no rule comes  *)
(* from or goes with a file without a yes of the user's.                   *)
(***************************************************************************)
EXTENDS VaultSync, FiniteSetTheorems, WellFoundedInduction, TLAPS

-----------------------------------------------------------------------------
(* Least and greatest elements, for First, FirstView and Latest.            *)

Below == {ss \in Nat \X Nat : ss[1] < ss[2]}

LEMMA Least ==
    ASSUME NEW S, S \subseteq Nat, S # {}
    PROVE  \E x \in S : \A y \in S : x <= y
<1>1. IsWellFoundedOn(Below, Nat)
  BY NatLessThanWellFounded DEF OpToRel, Below
<1>2. PICK x \in S : \A y \in S : <<y, x>> \notin Below
  BY <1>1, WFMin
<1>3. ASSUME NEW y \in S PROVE x <= y
  <2>1. x \in Nat /\ y \in Nat /\ <<y, x>> \in Nat \X Nat
    OBVIOUS
  <2>2. ~ (<<y, x>>[1] < <<y, x>>[2])
    BY <1>2, <2>1 DEF Below
  <2> QED
    BY <2>1, <2>2
<1> QED
  BY <1>3

LEMMA Greatest ==
    ASSUME NEW n \in Nat, NEW S, S \subseteq 0..n, S # {}
    PROVE  Max(S) \in S /\ \A y \in S : y <= Max(S)
<1> DEFINE T == {m \in Nat : \E x \in S : m + x = n}
<1>1. PICK z \in T : \A y \in T : z <= y
  <2>1. PICK x \in S : TRUE
    OBVIOUS
  <2>2. n - x \in T
    OBVIOUS
  <2>3. T \subseteq Nat /\ T # {}
    BY <2>2
  <2> QED
    BY <2>3, Least
<1>2. PICK x \in S : z + x = n
  OBVIOUS
<1>3. ASSUME NEW y \in S PROVE x >= y
  <2>1. n - y \in T
    OBVIOUS
  <2>2. z <= n - y
    BY <1>1, <2>1
  <2>3. z \in Nat /\ x \in Int /\ y \in Int
    OBVIOUS
  <2> HIDE DEF T
  <2> QED
    BY <1>2, <2>2, <2>3
<1> QED
  BY <1>3 DEF Max

LEMMA FirstOf ==
    ASSUME NEW S, S \subseteq Nat, S # {}
    PROVE  First(S) \in S
BY Least DEF First

-----------------------------------------------------------------------------
(* The chains of superseded facts.                                          *)

\* No fact is superseded in a circle: what is not empty and only of superseded
\* facts has one that leads out of it.
Rooted == \A S \in SUBSET Facts : S # {} => \E k \in S : memory[k].next \notin S

\* h leads from each fact to the last of its chain.
Leads(h) == h = [m \in Facts |-> IF memory[m].next = 0 THEN m ELSE h[memory[m].next]]

Chained == Rooted /\ \E h : Leads(h)

\* Head is what it says it is, and leads to a fact.
LEMMA HeadLeads ==
    ASSUME Chained, \A m \in Facts : memory[m].next \in 0..MaxFacts
    PROVE  /\ \A m \in Facts : Head[m] = IF memory[m].next = 0 THEN m ELSE Head[memory[m].next]
           /\ Head \in [Facts -> Facts]
<1>1. PICK h : Leads(h)
  BY DEF Chained
<1>2. Head = CHOOSE g : Leads(g)
  BY DEF Head, Leads
<1>3. Leads(Head)
  BY <1>1, <1>2
<1>4. \A m \in Facts : Head[m] = IF memory[m].next = 0 THEN m ELSE Head[memory[m].next]
  BY <1>3 DEF Leads
<1> DEFINE S == {m \in Facts : Head[m] \notin Facts}
<1>5. S = {}
  <2>1. SUFFICES ASSUME S # {} PROVE FALSE
    OBVIOUS
  <2>2. PICK k \in S : memory[k].next \notin S
    BY <2>1 DEF Chained, Rooted
  <2>3. k \in Facts /\ Head[k] \notin Facts
    OBVIOUS
  <2>4. memory[k].next # 0
    BY <2>3, <1>4
  <2>5. memory[k].next \in Facts
    BY <2>3, <2>4 DEF Facts
  <2>6. Head[memory[k].next] \in Facts
    BY <2>2, <2>5
  <2> QED
    BY <2>3, <2>4, <2>6, <1>4
<1>6. Head = [m \in Facts |-> Head[m]]
  BY <1>3 DEF Leads
<1> QED
  BY <1>4, <1>5, <1>6

\* A fact is appended and the heads in X now lead to it, or they lead to a head.
LEMMA ChainsJoin ==
    ASSUME Chained, \A k \in Facts : memory[k].next \in 0..MaxFacts,
           NEW n \in Facts, NEW X, X \subseteq Facts \ {n},
           memory[n].next = 0, memory'[n].next = 0,
           \A k \in X : memory[k].next = 0 /\ memory'[k].next = n,
           \A k \in Facts \ X : memory'[k].next = memory[k].next
    PROVE  Chained'
<1>1. Rooted'
  <2> SUFFICES ASSUME NEW S \in SUBSET Facts, S # {}
               PROVE  \E k \in S : memory'[k].next \notin S
    BY DEF Rooted, Facts
  <2>0. 0 \notin S
    BY DEF Facts
  <2>1. CASE n \in S
    BY <2>0, <2>1
  <2>2. CASE n \notin S
    <3>1. PICK k \in S : memory[k].next \notin S
      BY DEF Chained, Rooted
    <3> QED
      BY <2>2, <3>1
  <2> QED
    BY <2>1, <2>2
<1>2. PICK h : Leads(h)
  BY DEF Chained
<1> DEFINE g == [k \in Facts |-> IF h[k] \in X THEN n ELSE h[k]]
<1>3. ASSUME NEW k \in Facts
      PROVE  g[k] = IF memory'[k].next = 0 THEN k ELSE g[memory'[k].next]
  <2>1. h[k] = IF memory[k].next = 0 THEN k ELSE h[memory[k].next]
    BY <1>2 DEF Leads
  <2>2. h[n] = n
    BY <1>2 DEF Leads
  <2>3. n # 0
    BY DEF Facts
  <2>4. CASE k \in X
    BY <2>1, <2>2, <2>3, <2>4
  <2>5. CASE k \notin X
    <3>1. memory'[k].next = memory[k].next
      BY <2>5
    <3>2. memory[k].next # 0 => memory[k].next \in Facts
      BY DEF Facts
    <3> QED
      BY <2>1, <2>5, <3>1, <3>2
  <2> QED
    BY <2>4, <2>5
<1>4. Leads(g)'
  <2>1. g = [k \in Facts |-> IF memory'[k].next = 0 THEN k ELSE g[memory'[k].next]]
    <3>1. g = [k \in Facts |-> g[k]]
      OBVIOUS
    <3> HIDE DEF g
    <3> QED
      BY <1>3, <3>1
  <2> HIDE DEF g
  <2> QED
    BY ONLY <2>1 DEF Leads, Facts
<1> QED
  BY <1>1, <1>4 DEF Chained

\* Facts go together with all that lead to them.
Closed(gone) == \A k \in Facts : memory[k].next \in gone => k \in gone

LEMMA ChainsCut ==
    ASSUME Chained, \A k \in Facts : memory[k].next \in 0..MaxFacts,
           NEW gone, gone \subseteq Facts, Closed(gone), memory' = Without(gone)
    PROVE  Chained'
<1>0. \A k \in Facts : /\ k \in gone => memory'[k].next = 0
                       /\ k \notin gone => memory'[k].next = memory[k].next
  BY DEF Without, NoFact
<1>1. Rooted'
  <2> SUFFICES ASSUME NEW S \in SUBSET Facts, S # {}
               PROVE  \E k \in S : memory'[k].next \notin S
    BY DEF Rooted, Facts
  <2>1. PICK k \in S : memory[k].next \notin S
    BY DEF Chained, Rooted
  <2> QED
    BY <1>0, <2>1 DEF Facts
<1>2. PICK h : Leads(h)
  BY DEF Chained
<1>g. PICK g : g = [k \in Facts |-> IF k \in gone \/ memory[k].next = 0 THEN k ELSE h[k]]
  OBVIOUS
<1>3. ASSUME NEW k \in Facts
      PROVE  g[k] = IF memory'[k].next = 0 THEN k ELSE g[memory'[k].next]
  <2>1. CASE memory'[k].next = 0
    BY <1>0, <1>g, <2>1
  <2>2. CASE memory'[k].next # 0
    <3>1. k \notin gone /\ memory'[k].next = memory[k].next
      BY <1>0, <2>2
    <3>2. PICK j \in Facts : j = memory[k].next
      BY <2>2, <3>1 DEF Facts
    <3>3. j \notin gone
      BY <3>1, <3>2 DEF Closed
    <3>4. memory'[j].next = memory[j].next
      BY <1>0, <3>3
    <3>5. h[k] = h[j]
      BY <1>2, <2>2, <3>1, <3>2 DEF Leads
    <3>6. memory[j].next = 0 => h[j] = j
      BY <1>2 DEF Leads
    <3> QED
      BY <1>g, <2>2, <3>1, <3>2, <3>3, <3>4, <3>5, <3>6
  <2> QED
    BY <2>1, <2>2
<1>4. Leads(g)'
  <2>1. g = [k \in Facts |-> g[k]]
    BY <1>g
  <2>2. g = [k \in Facts |-> IF memory'[k].next = 0 THEN k ELSE g[memory'[k].next]]
    BY <1>3, <2>1
  <2> QED
    BY <2>2 DEF Leads, Facts
<1> QED
  BY <1>1, <1>4 DEF Chained

LEMMA LineageClosed ==
    ASSUME Chained, \A k \in Facts : memory[k].next \in 0..MaxFacts, NEW m
    PROVE  Closed(Lineage(m)) /\ Lineage(m) \subseteq Facts
<1>1. ASSUME NEW k \in Facts, memory[k].next \in Lineage(m)
      PROVE  k \in Lineage(m)
  <2>1. memory[k].next \in Facts /\ Head[memory[k].next] = Head[m]
    BY <1>1 DEF Lineage
  <2>2. memory[k].next # 0
    BY <2>1 DEF Facts
  <2>3. Head[k] = Head[m]
    BY <2>1, <2>2, HeadLeads
  <2>4. Exists(k)
    BY <2>2 DEF Exists, NoFact, Facts
  <2> QED
    BY <2>3, <2>4 DEF Lineage
<1> QED
  BY <1>1 DEF Closed, Lineage

-----------------------------------------------------------------------------
(* The invariant.                                                           *)

\* Ids and rows are handed out in order.
Numbered ==
    /\ \A m \in Facts : (m > lastFact => memory[m] = NoFact) /\ memory[m].next <= lastFact
    /\ \A r \in Rows : r > lastFile => file[r] = NoFile

OneRow == \A r, q \in Rowed : file[r].path = file[q].path => r = q

\* Whom the user is asked about waits: the row of a rule hold, or of the mass one.
Asked ==
    \A r \in Rows : /\ hold[r] # NoHold => file[r].state = "held" /\ r \notin mass
                    /\ r \in mass => file[r].state = "held"

\* While files are read, those that were missing stay so, and so do their rows but for
\* the renamed whose file is no fact any more: the user's next change is to the file
\* whose turn it is.
Reading ==
    pc \in {"ingest", "adopt", "adopting", "adopted"} =>
        /\ \A p \in Paths : manifest[p] = None => disk[p] = None
        /\ todo \subseteq {p \in Paths : manifest[p] # None}
        /\ \A r \in absent : /\ r \in Rowed
                             /\ manifest[file[r].path] = None \/ file[r].missing = "no"
        /\ pc # "ingest" => /\ at \in Rowed /\ manifest[file[at].path] # None
                            /\ seen[at] # 0 /\ Exists(seen[at])

Dropping ==
    pc \in {"drop", "dropping", "dropped"} =>
        /\ todo \subseteq {r \in Rowed : file[r].state \notin {"held", "quarantined"}}
        /\ pc # "drop" => at \in todo

Writing ==
    /\ pc \in {"write", "writing", "record"} => \A v \in todo : v.anchor # 0
    /\ pc \in {"writing", "record"} => /\ todo # {} /\ at \in Rowed
                                      /\ file[at].state \in {"ok", "restore"}

Sound == TypeOK /\ Numbered /\ Chained /\ OneRow /\ Asked /\ Reading /\ Dropping /\ Writing

-----------------------------------------------------------------------------
(* What a step does to the facts.                                           *)

\* A fact is written; if by way of a file, no rule comes or goes without a yes.
Wrote ==
    \E text \in Texts, kind \in Kinds, source \in {"user", "vault"}, old \in 0..MaxFacts,
       from \in SUBSET Facts :
        /\ WriteMemory(text, kind, source, old, from)
        /\ source = "vault" => \/ <<kind, text>> \in agreed'
                               \/ kind = "plain" /\ (old # 0 => memory[old].kind # "rule")

Forgot ==
    /\ \E gone \in SUBSET Facts : Closed(gone) /\ memory' = Without(gone)
    /\ UNCHANGED <<lastFact, origin>>

LEMMA NextOf == TypeOK => \A m \in Facts : memory[m].next \in 0..MaxFacts
BY VaultAssumption DEF TypeOK, Fact, NoFact

\* A file a pass reads holds something, and of a known kind unless it is garbled.
LEMMA ReadContent ==
    ASSUME Sound, NEW p \in Paths, Reads(p)
    PROVE  disk[p] \in Content
<1>1. disk[p] \in Content \union {None}
  BY DEF Sound, TypeOK
<1>2. manifest[p] # None
  BY DEF Sound, Reading, Reads, Turn
<1> QED
  BY <1>1, <1>2 DEF Reads

LEMMA Unbroken ==
    ASSUME NEW c \in Content, c # Garbled
    PROVE  c.anchor \in 0..MaxFacts /\ c.text \in Texts /\ c.kind \in Kinds \union {"other"}
BY DEF Content

\* What a merge without a rule writes.
LEMMA MergedOf ==
    ASSUME Sound, NEW p \in Paths, NEW m, Exists(m), m \in 0..MaxFacts, Reads(p),
           disk[p] # Garbled, disk[p].kind \notin {"rule", "other"}, memory[m].kind # "rule"
    PROVE  Merged(p, m).text \in Texts /\ Merged(p, m).kind = "plain"
<1>1. disk[p].text \in Texts /\ disk[p].kind = "plain"
  BY ReadContent, Unbroken DEF Kinds
<1>2. m \in Facts /\ memory[m] \in Fact
  BY DEF Sound, TypeOK, Exists, Facts
<1>3. memory[m].text \in Texts /\ memory[m].kind = "plain"
  BY <1>2 DEF Fact, Kinds
<1> QED
  BY <1>1, <1>3 DEF Merged

LEMMA MemorySteps ==
    ASSUME Sound, [Next]_vars
    PROVE  /\ agreed \subseteq agreed'
           /\ \/ UNCHANGED <<memory, lastFact, origin>>
              \/ Wrote \/ Forgot
              \/ \E m, n \in Facts : Consolidate(m, n)
<1> DEFINE Same == UNCHANGED <<memory, lastFact, origin>>
<1>t. TypeOK /\ \A m \in Facts : memory[m].next \in 0..MaxFacts
  BY NextOf DEF Sound
<1>1. agreed \subseteq agreed'
  <2>1. CASE User
    BY <2>1 DEF User, UserWrites, UserRemoves, UserReturns, UserCopies, Touches, WebEdit,
                Forget, Ops, Refuse, Agree, KeepAll, ForgetAll, history
  <2>2. CASE Ingest
    <3>1. ASSUME NEW p \in Paths, \/ IngestLater(p) \/ IngestRaises(p) \/ IngestRefuses(p)
                                 \/ IngestNewRule(p) \/ IngestNewFact(p) \/ IngestIgnores(p)
          PROVE  agreed' = agreed
      BY <3>1 DEF IngestLater, IngestRaises, IngestRefuses, IngestNewRule, IngestNewFact, IngestIgnores, history
    <3>2. ASSUME NEW p \in Paths, NEW r \in Rows,
                 \/ IngestSkips(p, r) \/ IngestQuarantines(p, r) \/ IngestHolds(p, r)
                 \/ IngestChange(p, r) \/ IngestCosmetic(p, r)
          PROVE  agreed' = agreed
      BY <3>2 DEF IngestSkips, IngestQuarantines, IngestHolds, IngestChange, IngestCosmetic, history
    <3>3. Adopt \/ AdoptSwap \/ Adopted => agreed' = agreed
      BY DEF Adopt, AdoptSwap, Adopted, history
    <3> QED
      BY <2>2, <3>1, <3>2, <3>3 DEF Ingest
  <2>3. CASE Write
    BY <2>3 DEF Write, WriteRow, WriteFile, WriteSwap, WriteQuarantines, WriteRaises,
                WriteSkips, history
  <2>4. CASE Pass /\ ~Ingest /\ ~Write
    BY <2>4 DEF Pass, StartPass, NoneDue, AskForAll, ForgetMissing, FollowHeads, DropFile,
                DropSwap, DropRaises, DropRow, Views, Record, ExpireHolds, history
  <2> QED
    BY <2>1, <2>2, <2>3, <2>4 DEF Next, Consolidate, Ops, GraceElapses, WindowMoves, PassStops,
                                  vars, history
<1>2. CASE \E m \in Facts : WebEdit(m)
  <2>1. PICK m \in Facts, t \in Texts : m \in Active /\ WriteMemory(t, memory[m].kind, "user", m, {m})
    BY <1>2 DEF WebEdit
  <2>2. memory[m].kind \in Kinds /\ m \in 0..MaxFacts /\ {m} \in SUBSET Facts
    BY <1>t, <2>1, VaultAssumption DEF TypeOK, Fact, Active, Exists, Facts
  <2> QED
    BY <1>1, <2>1, <2>2 DEF Wrote
<1>3. CASE \E m \in Facts : Forget(m)
  <2>1. PICK m \in Facts : memory' = Without(Lineage(m)) /\ UNCHANGED <<lastFact, origin>>
    BY <1>3 DEF Forget
  <2>2. Closed(Lineage(m)) /\ Lineage(m) \in SUBSET Facts
    BY <1>t, LineageClosed DEF Sound
  <2> QED
    BY <1>1, <2>1, <2>2 DEF Forgot
<1>4. CASE \E r \in Rows : Agree(r)
  <2>1. PICK r \in Rows : Agree(r)
    BY <1>4
  <2>2. CASE Same
    BY <1>1, <2>2
  <2>3. CASE ~Same
    <3>1. WriteMemory(hold[r].text, hold[r].kind, "vault", hold[r].over, {hold[r].over} \ {0})
      BY <2>1, <2>3 DEF Agree
    <3>2. hold[r] \in RuleHold
      BY <1>t, <2>1 DEF Agree, TypeOK
    <3>3. /\ hold[r].text \in Texts /\ hold[r].kind \in Kinds /\ hold[r].over \in 0..MaxFacts
          /\ {hold[r].over} \ {0} \in SUBSET Facts
      BY <3>2 DEF RuleHold, Facts
    <3>4. <<hold[r].kind, hold[r].text>> \in agreed'
      BY <2>1 DEF Agree
    <3> QED
      BY <1>1, <3>1, <3>3, <3>4 DEF Wrote
  <2> QED
    BY <2>2, <2>3
<1>5. CASE \E p \in Paths : IngestNewFact(p)
  <2>1. PICK p \in Paths : /\ Reads(p) /\ disk[p].kind = "plain"
                           /\ WriteMemory(disk[p].text, "plain", "vault", 0, {})
    BY <1>5 DEF IngestNewFact
  <2>2. disk[p].text \in Texts
    BY <2>1, ReadContent, Unbroken DEF Garbled
  <2> QED
    BY <1>1, <2>1, <2>2, VaultAssumption DEF Wrote, Kinds
<1>6. CASE \E p \in Paths, r \in Rows : IngestChange(p, r)
  <2>1. PICK p \in Paths, r \in Rows : IngestChange(p, r)
    BY <1>6
  <2>2. /\ Reads(p) /\ disk[p] # Garbled /\ Exists(seen[r])
        /\ disk[p].kind \notin {"rule", "other"} /\ memory[seen[r]].kind # "rule"
        /\ WriteMemory(Merged(p, seen[r]).text, Merged(p, seen[r]).kind, "vault", seen[r],
                       {seen[r]})
    BY <2>1 DEF IngestChange, Edited, Changed, RuleInvolved
  <2>3. seen[r] \in 0..MaxFacts /\ {seen[r]} \in SUBSET Facts
    BY <1>t, <2>2 DEF TypeOK, Exists, Facts
  <2>4. Merged(p, seen[r]).text \in Texts /\ Merged(p, seen[r]).kind = "plain"
    BY <2>2, <2>3, MergedOf
  <2> QED
    BY <1>1, <2>2, <2>3, <2>4 DEF Wrote, Kinds
<1>7. CASE ForgetAll
  <2> DEFINE gone == UNION {Lineage(file[r].memory) : r \in {r \in mass : file[r].memory # 0}}
  <2>1. memory' = Without(gone) /\ UNCHANGED <<lastFact, origin>>
    BY <1>7 DEF ForgetAll
  <2>a. \A x : Closed(Lineage(x)) /\ Lineage(x) \subseteq Facts
    BY <1>t, LineageClosed DEF Sound
  <2>2. Closed(gone)
    BY <2>a DEF Closed
  <2>3. gone \in SUBSET Facts
    BY <2>a
  <2> QED
    BY <1>1, <2>1, <2>2, <2>3 DEF Forgot
<1>8. CASE ForgetMissing
  <2> DEFINE gone == UNION {Lineage(seen[r]) : r \in {r \in {r \in Due : seen[r] # 0} : Exists(seen[r])}}
  <2>1. memory' = Without(gone) /\ UNCHANGED <<lastFact, origin>>
    BY <1>8 DEF ForgetMissing, Deleting
  <2>a. \A x : Closed(Lineage(x)) /\ Lineage(x) \subseteq Facts
    BY <1>t, LineageClosed DEF Sound
  <2>2. Closed(gone)
    BY <2>a DEF Closed
  <2>3. gone \in SUBSET Facts
    BY <2>a
  <2> QED
    BY <1>1, <2>1, <2>2, <2>3 DEF Forgot
<1>9. CASE User
  <2>1. ASSUME NEW p \in Paths, UserWrites(p) \/ UserRemoves(p) \/ UserReturns(p) \/ UserCopies(p)
        PROVE  Same
    BY <2>1 DEF UserWrites, UserRemoves, UserReturns, UserCopies, Touches, db, history
  <2>2. (\E r \in Rows : Refuse(r)) \/ KeepAll => Same
    BY DEF Refuse, KeepAll, db, history
  <2> QED
    BY <1>1, <1>2, <1>3, <1>4, <1>7, <1>9, <2>1, <2>2 DEF User
<1>10. CASE Ingest
  <2>1. ASSUME NEW p \in Paths, NEW r \in Rows,
               \/ IngestSkips(p, r) \/ IngestQuarantines(p, r) \/ IngestHolds(p, r)
               \/ IngestCosmetic(p, r)
        PROVE  Same
    BY <2>1 DEF IngestSkips, IngestQuarantines, IngestHolds, IngestCosmetic, db, history
  <2>2. ASSUME NEW p \in Paths,
               \/ IngestLater(p) \/ IngestRaises(p) \/ IngestRefuses(p) \/ IngestNewRule(p)
               \/ IngestIgnores(p)
        PROVE  Same
    BY <2>2 DEF IngestLater, IngestRaises, IngestRefuses, IngestNewRule, IngestIgnores, db, history
  <2>3. Adopt \/ AdoptSwap \/ Adopted => Same
    BY DEF Adopt, AdoptSwap, Adopted, db, history
  <2> QED
    BY <1>1, <1>5, <1>6, <1>10, <2>1, <2>2, <2>3 DEF Ingest
<1>11. CASE Write
  BY <1>1, <1>11 DEF Write, WriteRow, WriteFile, WriteSwap, WriteQuarantines, WriteRaises, WriteSkips,
                       db, history
<1>12. CASE Pass /\ ~Ingest /\ ~Write
  <2>1. ASSUME NEW r \in Rows, DropFile(r) PROVE Same
    BY <2>1 DEF DropFile, db, history
  <2>2. \/ StartPass \/ NoneDue \/ AskForAll \/ FollowHeads \/ DropSwap \/ DropRaises \/ DropRow
        \/ Views \/ Record
        => Same
    BY DEF StartPass, NoneDue, AskForAll, Deleting, FollowHeads, DropSwap, DropRaises, DropRow,
           Views, Record, db, history
  <2>3. ASSUME NEW which \in SUBSET Rows, NEW all, ExpireHolds(which, all) PROVE Same
    BY <2>3 DEF ExpireHolds, db, history
  <2> QED
    BY <1>1, <1>8, <1>12, <2>1, <2>2, <2>3 DEF Pass
<1>13. \/ (\E r \in Rows : GraceElapses(r)) \/ WindowMoves \/ PassStops \/ UNCHANGED vars => Same
  BY DEF GraceElapses, WindowMoves, PassStops, vars, db, history
<1> QED
  BY <1>1, <1>9, <1>10, <1>11, <1>12, <1>13 DEF Next

MemoryOK ==
    /\ memory \in [Facts -> Fact \union {NoFact}] /\ lastFact \in 0..MaxFacts
    /\ origin \in [Facts -> SUBSET Facts]
    /\ \A m \in Facts : (m > lastFact => memory[m] = NoFact) /\ memory[m].next <= lastFact
    /\ Chained

LEMMA WroteOK ==
    ASSUME MemoryOK, Wrote PROVE MemoryOK'
<1>1. PICK text \in Texts, kind \in Kinds, source \in {"user", "vault"}, old \in 0..MaxFacts,
           from \in SUBSET Facts : WriteMemory(text, kind, source, old, from)
  BY DEF Wrote
<1> DEFINE new == [text |-> text, kind |-> kind, source |-> source, next |-> 0]
           X   == {old} \intersect Active
<1>2. New \in Facts /\ New \in 1..MaxFacts /\ lastFact' = New /\ New > lastFact
  BY <1>1, VaultAssumption DEF MemoryOK, WriteMemory, New, Facts
<1>3. new \in Fact /\ new.next = 0
  BY VaultAssumption DEF Fact
<1>4. memory[New] = NoFact
  BY <1>2 DEF MemoryOK
<1>5. \A m \in Facts : memory'[m] = IF m = New THEN new
                                    ELSE IF m \in X THEN [memory[m] EXCEPT !.next = New]
                                    ELSE memory[m]
  BY <1>1 DEF WriteMemory
<1>6. DOMAIN memory' = Facts /\ memory' = [m \in Facts |-> memory'[m]]
  BY <1>1 DEF WriteMemory
<1>7. X \subseteq Facts \ {New}
  BY <1>4 DEF Active, Exists
<1>8. \A m \in X : memory[m] \in Fact /\ memory[m].next = 0
  BY DEF MemoryOK, Active, Exists
<1>9. ASSUME NEW m \in Facts
      PROVE  /\ memory'[m] \in Fact \union {NoFact} /\ memory'[m].next <= lastFact'
             /\ m > lastFact' => memory'[m] = NoFact
             /\ m \notin X => memory'[m].next = memory[m].next
             /\ m \in X => memory'[m].next = New
  <2>0. /\ memory[m] \in Fact \union {NoFact} /\ memory[m].next \in 0..MaxFacts
        /\ memory[m].next <= lastFact /\ lastFact \in Nat /\ New = lastFact + 1
        /\ m > lastFact => memory[m] = NoFact
    BY VaultAssumption DEF MemoryOK, Fact, NoFact, New
  <2>1. CASE m = New
    <3>1. memory'[m] = new
      BY <1>5, <2>1
    <3>2. memory[m].next = 0 /\ m \notin X
      BY <1>4, <1>7, <2>1 DEF NoFact
    <3> QED
      BY <1>2, <1>3, <2>0, <2>1, <3>1, <3>2 DEF Facts
  <2>2. CASE m \in X
    <3>1. memory'[m] = [memory[m] EXCEPT !.next = New]
      BY <1>5, <1>7, <2>2
    <3>2. memory[m] \in Fact
      BY <1>8, <2>2
    <3>3. memory'[m] \in Fact /\ memory'[m].next = New
      BY <1>2, <3>1, <3>2, VaultAssumption DEF Fact
    <3>4. m <= lastFact
      BY <1>8, <2>0, <2>2 DEF Active, Exists, Facts
    <3> QED
      BY <1>2, <2>0, <2>2, <3>3, <3>4 DEF Facts
  <2>3. CASE m # New /\ m \notin X
    <3>1. memory'[m] = memory[m]
      BY <1>5, <2>3
    <3> QED
      BY <1>2, <2>0, <2>3, <3>1 DEF Facts
  <2> QED
    BY <2>1, <2>2, <2>3
<1>10. Chained'
  <2>1. memory[New].next = 0 /\ memory'[New].next = 0
    <3>1. memory'[New] = new
      BY <1>2, <1>5
    <3> QED
      BY <1>3, <1>4, <3>1 DEF NoFact
  <2>2. \A k \in Facts : memory[k].next \in 0..MaxFacts
    BY VaultAssumption DEF MemoryOK, Fact, NoFact
  <2>3. Chained
    BY DEF MemoryOK
  <2> HIDE DEF X, new
  <2> QED
    BY <1>2, <1>7, <1>8, <1>9, <2>1, <2>2, <2>3, ChainsJoin
<1>11. origin' \in [Facts -> SUBSET Facts]
  <2>1. origin' = [origin EXCEPT ![New] = IF from = {} THEN {New} ELSE UNION {origin[m] : m \in from}]
    BY <1>1 DEF WriteMemory
  <2>2. origin \in [Facts -> SUBSET Facts]
    BY DEF MemoryOK
  <2>3. UNION {origin[m] : m \in from} \subseteq Facts
    BY <2>2
  <2> QED
    BY <1>2, <2>1, <2>2, <2>3
<1>12. memory' \in [Facts -> Fact \union {NoFact}]
  BY <1>6, <1>9
<1> QED
  BY <1>2, <1>9, <1>10, <1>11, <1>12, VaultAssumption DEF MemoryOK, Fact, Facts

LEMMA ConsolidateOK ==
    ASSUME MemoryOK, NEW m \in Facts, NEW n \in Facts, Consolidate(m, n) PROVE MemoryOK'
<1>t. /\ memory \in [Facts -> Fact \union {NoFact}] /\ lastFact \in 0..MaxFacts
      /\ origin \in [Facts -> SUBSET Facts] /\ Chained
      /\ \A k \in Facts : /\ k > lastFact => memory[k] = NoFact
                          /\ memory[k].next <= lastFact /\ memory[k].next \in 0..MaxFacts
  BY VaultAssumption DEF MemoryOK, Fact, NoFact
<1>0. /\ m # n /\ memory[m] \in Fact /\ memory[n] \in Fact
      /\ memory[m].next = 0 /\ memory[n].next = 0 /\ m <= lastFact /\ n <= lastFact
  BY <1>t DEF Consolidate, Mergeable, Active, Exists, Facts
<1>1. ASSUME m < n, lastFact < MaxFacts, lastFact' = New,
             NEW t \in Texts,
             memory' = [k \in Facts |->
                    IF k = New THEN [text |-> t, kind |-> "plain", source |-> "consolidate",
                                     next |-> 0]
                    ELSE IF k \in {m, n} THEN [memory[k] EXCEPT !.next = New]
                    ELSE memory[k]],
             origin' = [origin EXCEPT ![New] = origin[m] \union origin[n]]
      PROVE  MemoryOK'
  <2>1. New \in Facts /\ lastFact' \in 0..MaxFacts /\ New = lastFact + 1 /\ New \notin {m, n}
    BY <1>t, <1>0, <1>1, VaultAssumption DEF New, Facts
  <2>2. memory[New] = NoFact
    BY <1>t, <2>1
  <2>3. /\ memory'[New] = [text |-> t, kind |-> "plain", source |-> "consolidate", next |-> 0]
        /\ memory'[New] \in Fact /\ memory'[New].next = 0
    BY <1>1, <2>1, VaultAssumption DEF Fact, Kinds
  <2>4. ASSUME NEW k \in {m, n} PROVE memory'[k] \in Fact /\ memory'[k].next = New
    BY <1>0, <1>1, <2>1, <2>4, VaultAssumption DEF Fact, Facts
  <2>5. \A k \in Facts \ {m, n, New} : memory'[k] = memory[k]
    BY <1>1
  <2>6. ASSUME NEW k \in Facts
        PROVE  /\ memory'[k] \in Fact \union {NoFact} /\ memory'[k].next <= lastFact'
               /\ k > lastFact' => memory'[k] = NoFact
    <3>1. CASE k = New
      BY <1>1, <1>t, <2>1, <2>3, <3>1
    <3>2. CASE k \in {m, n}
      BY <1>0, <1>1, <1>t, <2>1, <2>4, <3>2 DEF Facts
    <3>3. CASE k \in Facts \ {m, n, New}
      BY <1>1, <1>t, <2>1, <2>5, <3>3 DEF Facts
    <3> QED
      BY <3>1, <3>2, <3>3
  <2>7. Chained'
    <3>1. \A k \in Facts \ {m, n} : memory'[k].next = memory[k].next
      BY <2>2, <2>3, <2>5 DEF NoFact
    <3>2. memory[New].next = 0
      BY <2>2 DEF NoFact
    <3>3. {m, n} \subseteq Facts \ {New}
      BY <2>1
    <3>4. \A k \in {m, n} : memory[k].next = 0 /\ memory'[k].next = New
      BY <1>0, <2>4
    <3>5. \A k \in Facts : memory[k].next \in 0..MaxFacts
      BY <1>t
    <3> DEFINE X == {m, n}
    <3>7. /\ New \in Facts /\ X \subseteq Facts \ {New}
          /\ memory[New].next = 0 /\ memory'[New].next = 0
      BY <2>1, <2>3, <3>2, <3>3
    <3>8. /\ \A k \in X : memory[k].next = 0 /\ memory'[k].next = New
          /\ \A k \in Facts \ X : memory'[k].next = memory[k].next
      BY <3>1, <3>4
    <3> HIDE DEF X
    <3> QED
      BY <1>t, <3>5, <3>7, <3>8, ChainsJoin
  <2>8. memory' \in [Facts -> Fact \union {NoFact}]
    <3>1. memory' = [k \in Facts |-> memory'[k]]
      BY <1>1
    <3> QED
      BY <2>6, <3>1
  <2>9. origin' \in [Facts -> SUBSET Facts]
    BY <1>1, <1>t, <2>1
  <2> QED
    BY <2>1, <2>6, <2>7, <2>8, <2>9 DEF MemoryOK, Facts
<1>2. ASSUME memory' = [memory EXCEPT ![m].next = n], lastFact' = lastFact, origin' = origin
      PROVE  MemoryOK'
  <2>1. memory' = [memory EXCEPT ![m] = [memory[m] EXCEPT !.next = n]]
    BY <1>2
  <2>0. n \in 1..MaxFacts /\ n \in 0..MaxFacts
    BY VaultAssumption DEF Facts
  <2>2. memory'[m] \in Fact /\ memory'[m].next = n
    <3>1. memory'[m] = [memory[m] EXCEPT !.next = n]
      BY <1>t, <2>1
    <3> QED
      BY <1>0, <2>0, <3>1 DEF Fact
  <2>3. \A k \in Facts \ {m} : memory'[k] = memory[k]
    BY <1>t, <2>1
  <2>4. \A k \in Facts : memory'[k].next <= lastFact /\ (k > lastFact => memory'[k] = NoFact)
    BY <1>0, <1>t, <2>2, <2>3 DEF Facts
  <2>5. Chained'
    <3>1. {m} \subseteq Facts \ {n} /\ memory'[n].next = 0
      BY <1>0, <2>3
    <3>2. PICK X : X = {m}
      OBVIOUS
    <3>3. X \subseteq Facts \ {n} /\ \A k \in X : memory[k].next = 0 /\ memory'[k].next = n
      BY <1>0, <2>2, <3>1, <3>2
    <3>4. \A k \in Facts \ X : memory'[k].next = memory[k].next
      BY <2>3, <3>2
    <3>5. Chained /\ memory[n].next = 0 /\ \A k \in Facts : memory[k].next \in 0..MaxFacts
      BY <1>t, <1>0
    <3> QED
      BY <3>1, <3>3, <3>4, <3>5, ChainsJoin
  <2>6. memory' \in [Facts -> Fact \union {NoFact}]
    BY <1>t, <2>1, <2>2
  <2> QED
    BY <1>2, <1>t, <2>4, <2>5, <2>6 DEF MemoryOK, Facts
<1> QED
  BY <1>1, <1>2 DEF Consolidate

LEMMA ForgotOK ==
    ASSUME MemoryOK, Forgot PROVE MemoryOK'
<1>1. PICK gone \in SUBSET Facts : Closed(gone) /\ memory' = Without(gone)
  BY DEF Forgot
<1>2. \A k \in Facts : memory[k].next \in 0..MaxFacts
  BY VaultAssumption DEF MemoryOK, Fact, NoFact
<1>3. Chained'
  BY <1>1, <1>2, ChainsCut DEF MemoryOK
<1>4. \A m \in Facts : memory'[m] = memory[m] \/ memory'[m] = NoFact
  BY <1>1 DEF Without
<1>5. memory' \in [Facts -> Fact \union {NoFact}]
  BY <1>1 DEF Without, MemoryOK
<1>6. lastFact' = lastFact /\ origin' = origin /\ NoFact.next = 0 /\ lastFact \in Nat
  BY VaultAssumption DEF Forgot, NoFact, MemoryOK
<1> QED
  BY <1>3, <1>4, <1>5, <1>6 DEF MemoryOK, Facts, Fact

LEMMA MemoryNext ==
    ASSUME Sound, [Next]_vars PROVE MemoryOK'
<1>1. MemoryOK
  BY DEF Sound, TypeOK, Numbered, MemoryOK
<1>2. CASE UNCHANGED <<memory, lastFact, origin>>
  <2>1. Chained'
    <3>1. Rooted'
      BY <1>1, <1>2 DEF MemoryOK, Chained, Rooted, Facts
    <3>2. PICK h : Leads(h)
      BY <1>1 DEF MemoryOK, Chained
    <3>3. Leads(h)'
      BY <1>2, <3>2 DEF Leads, Facts
    <3> QED
      BY <3>1, <3>3 DEF Chained
  <2> QED
    BY <1>1, <1>2, <2>1 DEF MemoryOK, Facts, Fact
<1> QED
  BY <1>1, <1>2, MemorySteps, WroteOK, ForgotOK, ConsolidateOK

-----------------------------------------------------------------------------
(* Rules and the user's yes.                                                *)

LEMMA RuleNext ==
    ASSUME Sound, RuleOnlyAgreed, [Next]_vars PROVE RuleOnlyAgreed'
<1>t. /\ memory \in [Facts -> Fact \union {NoFact}] /\ lastFact \in 0..MaxFacts
      /\ \A k \in Facts : /\ k > lastFact => memory[k] = NoFact
                          /\ memory[k].next <= lastFact /\ memory[k].next \in 0..MaxFacts
  BY NextOf DEF Sound, TypeOK, Numbered
<1>a. agreed \subseteq agreed'
  BY MemorySteps
\* What matters of a fact m with source vault and of a k that it superseded.
<1> DEFINE Yes(m)    == <<memory[m].kind, memory[m].text>> \in agreed
           Fine(m, k) == Exists(m) /\ memory[m].source = "vault" =>
                            /\ memory[m].kind = "rule" => Yes(m)
                            /\ memory[k].next = m /\ memory[k].kind = "rule" => Yes(m)
<1>f. RuleOnlyAgreed <=> \A m, k \in Facts : Fine(m, k)
  BY <1>t, VaultAssumption DEF RuleOnlyAgreed, Facts
<1>g. RuleOnlyAgreed' <=> \A m, k \in Facts : Fine(m, k)'
  BY <1>t, VaultAssumption DEF RuleOnlyAgreed, Facts
\* A pair that stays as it was stays fine.
<1>1. ASSUME NEW m \in Facts, NEW k \in Facts,
             memory'[m].source = memory[m].source /\ memory'[m].kind = memory[m].kind,
             memory'[m].text = memory[m].text, memory'[m] # NoFact => memory[m] # NoFact,
             memory'[k].next = m => memory[k].next = m /\ memory'[k].kind = memory[k].kind
      PROVE  Fine(m, k)'
  BY <1>1, <1>a, <1>f, RuleOnlyAgreed DEF Exists
<1>2. CASE UNCHANGED <<memory, lastFact, origin>>
  BY <1>1, <1>2, <1>g
<1>3. CASE Wrote
  <2>1. PICK text \in Texts, kind \in Kinds, source \in {"user", "vault"}, old \in 0..MaxFacts,
             from \in SUBSET Facts :
                /\ WriteMemory(text, kind, source, old, from)
                /\ source = "vault" => \/ <<kind, text>> \in agreed'
                                       \/ kind = "plain" /\ (old # 0 => memory[old].kind # "rule")
    BY <1>3 DEF Wrote
  <2>2. New \in Facts /\ New > lastFact /\ memory[New] = NoFact
    BY <1>t, <2>1, VaultAssumption DEF WriteMemory, New, Facts
  <2>3. memory'[New] = [text |-> text, kind |-> kind, source |-> source, next |-> 0]
    BY <2>1, <2>2 DEF WriteMemory
  <2>4. ASSUME NEW k \in Facts, k # New
        PROVE  /\ memory[k] = NoFact => memory'[k] = NoFact
               /\ memory'[k].text = memory[k].text /\ memory'[k].kind = memory[k].kind
               /\ memory'[k].source = memory[k].source
               /\ \/ memory'[k].next = memory[k].next
                  \/ k = old /\ memory'[k].next = New
    <3>1. CASE k = old /\ k \in Active
      <4>1. memory'[k] = [memory[k] EXCEPT !.next = New] /\ memory[k] \in Fact
        BY <1>t, <2>1, <2>4, <3>1 DEF WriteMemory, Active, Exists
      <4> QED
        BY <2>2, <3>1, <4>1 DEF Fact, Active, Exists
    <3>2. CASE ~(k = old /\ k \in Active)
      BY <2>1, <2>4, <3>2 DEF WriteMemory
    <3> QED
      BY <3>1, <3>2
  <2>5. ASSUME NEW m \in Facts, NEW k \in Facts PROVE Fine(m, k)'
    <3>1. CASE m = New
      <4>1. CASE memory'[k].next = New
        <5>1. k # New
          BY <2>2, <2>3, <4>1 DEF Facts
        <5>2. memory[k].next # New
          BY <1>t, <2>2 DEF Facts
        <5>3. k = old /\ memory'[k].kind = memory[k].kind /\ old # 0
          BY <2>4, <4>1, <5>1, <5>2 DEF Facts
        <5> QED
          BY <2>1, <2>3, <3>1, <5>3
      <4>2. CASE memory'[k].next # New
        BY <2>1, <2>3, <3>1, <4>2
      <4> QED
        BY <4>1, <4>2
    <3>2. CASE m # New
      <4>1. memory'[k].next = m => k # New /\ memory[k].next = m
        BY <2>2, <2>3, <2>4, <3>2 DEF Facts
      <4> QED
        BY <1>1, <2>4, <3>2, <4>1
    <3> QED
      BY <3>1, <3>2
  <2> QED
    BY <1>g, <2>5
<1>4. CASE Forgot
  <2>1. \A m \in Facts : memory'[m] = memory[m] \/ memory'[m] = NoFact
    BY <1>4 DEF Forgot, Without
  <2>2. ASSUME NEW m \in Facts, NEW k \in Facts PROVE Fine(m, k)'
    <3>1. CASE memory'[m] = NoFact
      BY <3>1 DEF Exists
    <3>2. CASE memory'[m] = memory[m]
      <4>1. memory'[k].next = m => memory'[k] = memory[k]
        BY <2>1 DEF NoFact, Facts
      <4> QED
        BY <1>1, <3>2, <4>1
    <3> QED
      BY <2>1, <3>1, <3>2
  <2> QED
    BY <1>g, <2>2
<1>5. ASSUME NEW i \in Facts, NEW j \in Facts, Consolidate(i, j)
      PROVE  RuleOnlyAgreed'
  <2>1. /\ memory[i] \in Fact /\ memory[j] \in Fact /\ i <= lastFact /\ j <= lastFact
        /\ memory[j].source = "extractor"
    BY <1>t, <1>5 DEF Consolidate, Mergeable, Active, Exists, Facts
  <2>2. CASE lastFact' = New /\ lastFact < MaxFacts
    <3>1. PICK t \in Texts : memory' = [k \in Facts |->
                    IF k = New THEN [text |-> t, kind |-> "plain", source |-> "consolidate",
                                     next |-> 0]
                    ELSE IF k \in {i, j} THEN [memory[k] EXCEPT !.next = New]
                    ELSE memory[k]]
      BY <1>5, <1>t, <2>2 DEF Consolidate, New
    <3>2. New \in Facts /\ New > lastFact
      BY <1>t, <2>2, VaultAssumption DEF New, Facts
    <3>3. memory'[New].source = "consolidate" /\ memory'[New].next = 0
      BY <3>1, <3>2
    <3>4. ASSUME NEW k \in Facts, k # New
          PROVE  /\ memory[k] = NoFact => memory'[k] = NoFact
                 /\ memory'[k].text = memory[k].text /\ memory'[k].kind = memory[k].kind
                 /\ memory'[k].source = memory[k].source
                 /\ memory'[k].next = memory[k].next \/ memory'[k].next = New
      <4>1. CASE k \in {i, j}
        <5>1. memory[k] \in Fact /\ memory[k] # NoFact
          BY <2>1, <4>1, <1>5 DEF Consolidate, Mergeable, Active, Exists
        <5>2. memory'[k] = [memory[k] EXCEPT !.next = New]
          BY <3>1, <3>4, <4>1
        <5> QED
          BY <5>1, <5>2 DEF Fact
      <4>2. CASE k \notin {i, j}
        BY <3>1, <3>4, <4>2
      <4> QED
        BY <4>1, <4>2
    <3>5. ASSUME NEW m \in Facts, NEW k \in Facts PROVE Fine(m, k)'
      <4>1. CASE m = New
        BY <3>3, <4>1
      <4>2. CASE m # New
        <5>1. memory'[k].next = m => k # New /\ memory[k].next = m
          BY <3>3, <3>4, <4>2 DEF Facts
        <5> QED
          BY <1>1, <3>4, <4>2, <5>1
      <4> QED
        BY <4>1, <4>2
    <3> QED
      BY <1>g, <3>5
  <2>3. CASE memory' = [memory EXCEPT ![i].next = j]
    <3>1. memory' = [memory EXCEPT ![i] = [memory[i] EXCEPT !.next = j]]
      BY <2>3
    <3>2. /\ memory'[i].text = memory[i].text /\ memory'[i].kind = memory[i].kind
          /\ memory'[i].source = memory[i].source /\ memory'[i].next = j
          /\ memory[i] # NoFact
      BY <1>t, <2>1, <3>1, <1>5 DEF Fact, Consolidate, Mergeable, Active, Exists
    <3>3. \A k \in Facts \ {i} : memory'[k] = memory[k]
      BY <1>t, <3>1
    <3>4. ASSUME NEW m \in Facts, NEW k \in Facts PROVE Fine(m, k)'
      <4>1. CASE m = j
        <5>1. memory'[m].source = "extractor"
          BY <2>1, <3>2, <3>3, <4>1
        <5> QED
          BY <5>1
      <4>2. CASE m # j
        <5>1. memory'[k].next = m => memory[k].next = m /\ memory'[k].kind = memory[k].kind
          BY <3>2, <3>3, <4>2
        <5> QED
          BY <1>1, <3>2, <3>3, <5>1
      <4> QED
        BY <4>1, <4>2
    <3> QED
      BY <1>g, <3>4
  <2> QED
    BY <1>5, <2>2, <2>3 DEF Consolidate
<1> QED
  BY <1>2, <1>3, <1>4, <1>5, MemorySteps

-----------------------------------------------------------------------------
(* What a step does to the rows of files.                                   *)

FilesOK ==
    /\ file \in [Rows -> File \union {NoFile}] /\ lastFile \in 0..MaxRows
    /\ hold \in [Rows -> RuleHold \union {NoHold}] /\ mass \subseteq Rows
    /\ \A r \in Rows : r > lastFile => file[r] = NoFile
    /\ OneRow /\ Asked

\* A row goes, or stays with its path.
StaysOrGoes(r) ==
    \/ file'[r] \in {file[r], NoFile}
    \/ /\ file[r] \in File /\ file'[r] \in File
       /\ file'[r].path = file[r].path

LEMMA NoFileIsNone == NoFile \notin File /\ NoFile.state = "none" /\ NoFile.memory = 0
<1>1. 0 \notin Paths
  BY DEF Paths
<1> QED
  BY <1>1 DEF NoFile, File

\* The rows whose fact is superseded.
LEMMA MovedRows ==
    ASSUME NEW old
    PROVE  /\ Moved(old) = [r \in Rows |-> Moved(old)[r]]
           /\ \A r \in Rows : \/ Moved(old)[r] = file[r]
                              \/ /\ file[r] # NoFile
                                 /\ Moved(old)[r] = [file[r] EXCEPT !.memory = New]
<1>1. 0 \notin Active
  BY DEF Active, Exists
<1> QED
  BY <1>1, NoFileIsNone DEF Moved

LEMMA FilesStay ==
    ASSUME FilesOK, file' = [r \in Rows |-> file'[r]], \A r \in Rows : StaysOrGoes(r),
           lastFile' = lastFile, hold' \in [Rows -> RuleHold \union {NoHold}],
           mass' \subseteq Rows,
           \A r \in Rows : /\ hold'[r] # NoHold => file'[r].state = "held" /\ r \notin mass'
                           /\ r \in mass' => file'[r].state = "held"
    PROVE  FilesOK'
<1>1. \A r \in Rows : file'[r] \in File \union {NoFile}
  BY DEF FilesOK, StaysOrGoes
<1>2. file' \in [Rows -> File \union {NoFile}]
  BY <1>1
<1>3. \A r \in Rows : file'[r] # NoFile => file[r] # NoFile /\ file'[r].path = file[r].path
  BY NoFileIsNone DEF StaysOrGoes
<1>4. OneRow'
  BY <1>3 DEF FilesOK, OneRow, Rowed, Rows
<1>5. \A r \in Rows : r > lastFile' => file'[r] = NoFile
  BY <1>3 DEF FilesOK
<1>6. Asked'
  BY DEF Asked, Rows
<1> QED
  BY <1>2, <1>4, <1>5, <1>6
     DEF FilesOK, Rows, File, Paths, Content, Texts, Kinds, RuleHold, Own

\* Only which fact the rows are about changes.
LEMMA FilesRelink ==
    ASSUME FilesOK, file' = [r \in Rows |-> file'[r]], UNCHANGED <<lastFile, hold, mass>>,
           \A r \in Rows : \/ file'[r] = file[r]
                           \/ \E m \in 0..MaxFacts : /\ file[r] # NoFile
                                                     /\ file'[r] = [file[r] EXCEPT !.memory = m]
    PROVE  FilesOK'
<1>1. ASSUME NEW r \in Rows PROVE StaysOrGoes(r) /\ file'[r].state = file[r].state
  <2>1. CASE file'[r] = file[r]
    BY <2>1 DEF StaysOrGoes
  <2>2. CASE file'[r] # file[r]
    <3>1. file[r] \in File
      BY <2>2 DEF FilesOK
    <3>2. PICK m \in 0..MaxFacts : file'[r] = [file[r] EXCEPT !.memory = m]
      BY <2>2
    <3> QED
      BY <3>1, <3>2 DEF File, StaysOrGoes
  <2> QED
    BY <2>1, <2>2
<1> QED
  BY <1>1, FilesStay DEF FilesOK, Asked

\* One row's state, digest or time of absence changes; it keeps its path.
LEMMA FilesTouch ==
    ASSUME FilesOK, NEW r \in Rows, NEW f \in File,
           file[r] \in File, f.path = file[r].path, file' = [file EXCEPT ![r] = f],
           lastFile' = lastFile, hold' \in [Rows -> RuleHold \union {NoHold}], mass' = mass,
           \A q \in Rows \ {r} : hold'[q] = hold[q],
           hold'[r] # NoHold => f.state = "held" /\ r \notin mass,
           r \in mass => f.state = "held"
    PROVE  FilesOK'
<1>0. file \in [Rows -> File \union {NoFile}] /\ Asked /\ mass \subseteq Rows
  BY DEF FilesOK
<1>1. file' = [q \in Rows |-> file'[q]] /\ file'[r] = f /\ \A q \in Rows \ {r} : file'[q] = file[q]
  BY <1>0
<1>2. \A q \in Rows : StaysOrGoes(q)
  BY <1>1 DEF StaysOrGoes
<1>3. \A q \in Rows : /\ hold'[q] # NoHold => file'[q].state = "held" /\ q \notin mass'
                      /\ q \in mass' => file'[q].state = "held"
  BY <1>0, <1>1 DEF Asked
<1> QED
  BY <1>0, <1>1, <1>2, <1>3, FilesStay

\* One row is placed at a path no other row has; the others stay or go.
LEMMA FilesPlace ==
    ASSUME FilesOK, NEW r \in Rows, NEW p \in Paths, RowsAt(p) \subseteq {r},
           file' = [q \in Rows |-> file'[q]], file'[r] \in File, file'[r].path = p,
           \A q \in Rows \ {r} : StaysOrGoes(q),
           lastFile' \in 0..MaxRows, lastFile <= lastFile', r <= lastFile',
           hold' \in [Rows -> RuleHold \union {NoHold}], mass' = mass,
           \A q \in Rows : /\ hold'[q] # NoHold => file'[q].state = "held" /\ q \notin mass'
                           /\ q \in mass' => file'[q].state = "held"
    PROVE  FilesOK'
<1>1. \A q \in Rows : file'[q] \in File \union {NoFile}
  BY DEF FilesOK, StaysOrGoes
<1>2. file' \in [Rows -> File \union {NoFile}]
  BY <1>1
<1>3. \A q \in Rows \ {r} : file'[q] # NoFile => file[q] # NoFile /\ file'[q].path = file[q].path
  BY NoFileIsNone DEF StaysOrGoes
<1>4. \A q \in Rows \ {r} : file'[q] # NoFile => file'[q].path # p
  BY <1>3 DEF RowsAt, Rowed
<1>5. OneRow'
  <2>1. \A q, s \in Rows \ {r} : (/\ file'[q] # NoFile /\ file'[s] # NoFile
                                 /\ file'[q].path = file'[s].path) => q = s
    BY <1>3 DEF FilesOK, OneRow, Rowed
  <2> QED
    BY <1>4, <2>1 DEF OneRow, Rowed, Rows
<1>6. \A q \in Rows : q > lastFile' => file'[q] = NoFile
  BY <1>3, VaultAssumption DEF FilesOK, Rows
<1>7. Asked'
  BY DEF Asked, Rows
<1> QED
  BY <1>2, <1>5, <1>6, <1>7
     DEF FilesOK, Rows, File, Paths, Content, Texts, Kinds, RuleHold, Own

\* A new file's row, or the spare one that is there.
LEMMA FreshRow ==
    ASSUME FilesOK, NEW p \in Paths, Fresh(p) <= MaxRows, Copied(p) \/ NewFile(p)
    PROVE  /\ Fresh(p) \in Rows /\ RowsAt(p) \subseteq {Fresh(p)}
           /\ Max({lastFile, Fresh(p)}) \in 0..MaxRows
           /\ lastFile <= Max({lastFile, Fresh(p)}) /\ Fresh(p) <= Max({lastFile, Fresh(p)})
           /\ Untracked(p) => Fresh(p) = lastFile + 1 /\ file[Fresh(p)] = NoFile
           /\ ~Untracked(p) => Fresh(p) \in Rowed /\ Spare(Fresh(p)) /\ file[Fresh(p)].path = p
<1>0. lastFile \in 0..MaxRows /\ OneRow /\ \A r \in Rows : r > lastFile => file[r] = NoFile
  BY DEF FilesOK
<1>1. CASE Untracked(p)
  <2>1. Fresh(p) = lastFile + 1 /\ Fresh(p) \in Rows
    BY <1>0, <1>1, VaultAssumption DEF Fresh, Rows
  <2>2. RowsAt(p) = {}
    BY <1>1 DEF Untracked
  <2>3. file[Fresh(p)] = NoFile
    BY <1>0, <2>1
  <2>4. {lastFile, Fresh(p)} \subseteq 0..MaxRows
    BY <1>0, <2>1, VaultAssumption DEF Rows
  <2> QED
    BY <1>0, <1>1, <2>1, <2>2, <2>3, <2>4, VaultAssumption, Greatest
<1>2. CASE ~Untracked(p)
  <2>1. PICK r \in RowsAt(p) : Spare(r)
    BY <1>2 DEF Copied, NewFile
  <2>2. Fresh(p) \in RowsAt(p)
    BY <1>2, <2>1 DEF Fresh
  <2>3. \A q \in RowsAt(p) : q = r
    BY <1>0, <2>1 DEF OneRow, RowsAt
  <2>4. Fresh(p) = r /\ r \in Rowed /\ file[r].path = p /\ r \in Rows
    BY <2>1, <2>2, <2>3 DEF RowsAt, Rowed
  <2>5. {lastFile, Fresh(p)} \subseteq 0..MaxRows
    BY <1>0, <2>4, VaultAssumption DEF Rows
  <2> QED
    BY <1>2, <2>1, <2>3, <2>4, <2>5, VaultAssumption, Greatest
<1> QED
  BY <1>1, <1>2

LEMMA AddRowOK ==
    ASSUME FilesOK, disk \in [Paths -> Content \union {None}],
           NEW p \in Paths, Copied(p) \/ NewFile(p),
           NEW state \in {"ok", "quarantined", "held"}, NEW m \in 0..MaxFacts,
           AddRow(p, state, m), mass' = mass,
           \/ hold' = hold
           \/ state = "held" /\ \E h \in RuleHold : hold' = [hold EXCEPT ![Fresh(p)] = h]
    PROVE  FilesOK'
<1> DEFINE r == Fresh(p)
           f == [Row(p, state, m) EXCEPT !.missing =
                   IF Untracked(p) THEN "no" ELSE file[r].missing]
<1>0. /\ file \in [Rows -> File \union {NoFile}] /\ Asked /\ mass \subseteq Rows
      /\ hold \in [Rows -> RuleHold \union {NoHold}]
  BY DEF FilesOK
<1>1. r <= MaxRows /\ lastFile' = Max({lastFile, r}) /\ file' = [file EXCEPT ![r] = f]
  BY DEF AddRow
<1>2. /\ r \in Rows /\ RowsAt(p) \subseteq {r} /\ lastFile' \in 0..MaxRows
      /\ lastFile <= lastFile' /\ r <= lastFile'
  BY <1>1, FreshRow
<1>3. file[r].state \in {"none", "quarantined"}
  <2>1. CASE Untracked(p)
    BY <1>1, <2>1, FreshRow, NoFileIsNone
  <2>2. CASE ~Untracked(p)
    BY <1>1, <2>2, FreshRow DEF Spare
  <2> QED
    BY <2>1, <2>2
<1>4. r \notin mass /\ hold[r] = NoHold
  BY <1>0, <1>2, <1>3 DEF Asked
<1>5. f \in File /\ f.path = p /\ f.state = state
  <2>1. ~Untracked(p) => file[r] \in File
    BY <1>0, <1>1, <1>2, FreshRow DEF Rowed
  <2>2. disk[p] \in Content \union {None}
    OBVIOUS
  <2> QED
    BY <2>1, <2>2 DEF Row, File
<1>6. file' = [q \in Rows |-> file'[q]] /\ file'[r] = f /\ \A q \in Rows \ {r} : file'[q] = file[q]
  BY <1>0, <1>1, <1>2
<1>7. \A q \in Rows \ {r} : StaysOrGoes(q)
  BY <1>6 DEF StaysOrGoes
<1>8. hold' \in [Rows -> RuleHold \union {NoHold}] /\ \A q \in Rows \ {r} : hold'[q] = hold[q]
  BY <1>0
<1>9. hold'[r] # NoHold => state = "held"
  BY <1>4
<1>10. \A q \in Rows : /\ hold'[q] # NoHold => file'[q].state = "held" /\ q \notin mass'
                       /\ q \in mass' => file'[q].state = "held"
  BY <1>0, <1>4, <1>5, <1>6, <1>8, <1>9 DEF Asked
<1> HIDE DEF r, f
<1> QED
  BY <1>2, <1>5, <1>6, <1>7, <1>8, <1>10, FilesPlace

\* The row of an edited file, under its path or its new name.
LEMMA EditedRow ==
    ASSUME FilesOK, NEW p \in Paths, NEW r \in Rows, Edited(p, r)
    PROVE  /\ file[r] \in File /\ RowsAt(p) \subseteq {r}
           /\ file[r].state # "held" /\ hold[r] = NoHold /\ r \notin mass
<1>1. file[r] # NoFile
  BY DEF Edited, EditOf, RowsAt, Rowed, Renamed, Named
<1>2. RowsAt(p) \subseteq {r}
  BY DEF FilesOK, OneRow, Edited, EditOf, Renamed, RowsAt, Untracked
<1> QED
  BY <1>1, <1>2 DEF FilesOK, Asked, Edited

LEMMA TakenOK ==
    ASSUME FilesOK, disk \in [Paths -> Content \union {None}],
           NEW p \in Paths, NEW r \in Rows, Edited(p, r),
           NEW state \in {"ok", "quarantined", "held"}, NEW m \in 0..MaxFacts,
           file' = [q \in Rows |-> file'[q]],
           file'[r] = [Taken(p, r, state) EXCEPT !.memory = m],
           \A q \in Rows \ {r} : StaysOrGoes(q) /\ file'[q].state = file[q].state,
           lastFile' = lastFile, mass' = mass,
           \/ hold' = hold
           \/ state = "held" /\ \E h \in RuleHold : hold' = [hold EXCEPT ![r] = h]
    PROVE  FilesOK'
<1>0. /\ file \in [Rows -> File \union {NoFile}] /\ Asked /\ mass \subseteq Rows
      /\ hold \in [Rows -> RuleHold \union {NoHold}] /\ lastFile \in 0..MaxRows
      /\ \A q \in Rows : q > lastFile => file[q] = NoFile
  BY DEF FilesOK
<1>1. /\ file[r] \in File /\ RowsAt(p) \subseteq {r} /\ hold[r] = NoHold /\ r \notin mass
  BY EditedRow
<1>2. file'[r] \in File /\ file'[r].path = p /\ file'[r].state = state
  <2>1. disk[p] \in Content \union {None}
    OBVIOUS
  <2> QED
    BY <1>1, <2>1 DEF Taken, File
<1>3. r <= lastFile
  BY <1>0, <1>1, NoFileIsNone, VaultAssumption DEF Rows
<1>4. hold' \in [Rows -> RuleHold \union {NoHold}] /\ \A q \in Rows \ {r} : hold'[q] = hold[q]
  BY <1>0
<1>5. hold'[r] # NoHold => state = "held"
  BY <1>1
<1>6. ASSUME NEW q \in Rows
      PROVE  /\ hold'[q] # NoHold => file'[q].state = "held" /\ q \notin mass'
             /\ q \in mass' => file'[q].state = "held"
  <2>1. CASE q = r
    BY <1>1, <1>2, <1>5, <2>1
  <2>2. CASE q # r
    <3>1. file'[q].state = file[q].state /\ hold'[q] = hold[q]
      BY <1>4, <2>2
    <3> QED
      BY <1>0, <3>1 DEF Asked
  <2> QED
    BY <2>1, <2>2
<1>7. lastFile' \in 0..MaxRows /\ lastFile <= lastFile' /\ r <= lastFile'
  BY <1>0, <1>3, VaultAssumption
<1> QED
  BY <1>1, <1>2, <1>4, <1>6, <1>7, FilesPlace

\* What the pass looks at while it writes is one of the views it has left.
LEMMA FirstViewOf ==
    ASSUME TypeOK, pc \in {"write", "writing", "record"}, todo # {}
    PROVE  FirstView \in todo /\ FirstView \in Content /\ FirstView.anchor \in 0..MaxFacts
<1>1. todo \subseteq Content
  BY DEF TypeOK
<1>2. \A v \in Content : v.anchor \in 0..MaxFacts
  BY VaultAssumption DEF Content, Garbled
<1> DEFINE S == {v.anchor : v \in todo}
<1>3. S \subseteq Nat /\ S # {}
  BY <1>1, <1>2, VaultAssumption
<1>4. PICK a \in S : \A b \in S : a <= b
  BY <1>3, Least
<1>5. \E v \in todo : \A w \in todo : v.anchor <= w.anchor
  BY <1>4
<1>6. FirstView \in todo
  BY <1>5 DEF FirstView
<1> QED
  BY <1>1, <1>2, <1>6

LEMMA LatestOf ==
    ASSUME NEW v, RowsOf(v) # {}
    PROVE  Latest(v) \in Rowed /\ Latest(v) \in Rows /\ seen[Latest(v)] = v.anchor
<1>1. RowsOf(v) \subseteq 0..MaxRows /\ MaxRows \in Nat
  BY VaultAssumption DEF RowsOf, Rowed, Rows
<1>2. Latest(v) \in RowsOf(v)
  BY <1>1, Greatest DEF Latest
<1> QED
  BY <1>2 DEF RowsOf, Rowed

LEMMA RenderOf ==
    ASSUME TypeOK, NEW m \in Facts, Exists(m)
    PROVE  Render(m) \in Content /\ Render(m).anchor = m
<1>1. memory[m] \in Fact
  BY DEF TypeOK, Exists
<1> QED
  BY <1>1, VaultAssumption DEF Render, Fact, Content, Facts

LEMMA WebEditFiles ==
    ASSUME Sound, NEW m \in Facts, WebEdit(m) PROVE FilesOK'
<1>1. FilesOK /\ New \in 0..MaxFacts /\ m # 0
  BY VaultAssumption DEF Sound, TypeOK, Numbered, FilesOK, WebEdit, WriteMemory, New, Facts
<1>2. file' = Moved(m) /\ UNCHANGED <<lastFile, hold, mass>>
  BY DEF WebEdit, Ops
<1>3. file' = [r \in Rows |-> file'[r]]
  BY <1>2, MovedRows
<1>4. \A r \in Rows : \/ file'[r] = file[r]
                      \/ file[r] # NoFile /\ file'[r] = [file[r] EXCEPT !.memory = New]
  BY <1>2, MovedRows
<1> QED
  BY <1>1, <1>2, <1>3, <1>4, FilesRelink

LEMMA UnlinkedRows ==
    ASSUME NEW gone, gone \subseteq Facts
    PROVE  /\ Unlinked(gone) = [r \in Rows |-> Unlinked(gone)[r]]
           /\ \A r \in Rows : \/ Unlinked(gone)[r] = file[r]
                              \/ /\ file[r] # NoFile
                                 /\ Unlinked(gone)[r] = [file[r] EXCEPT !.memory = 0]
BY NoFileIsNone, VaultAssumption DEF Unlinked, Facts

LEMMA ForgetFiles ==
    ASSUME Sound, NEW m \in Facts, Forget(m) PROVE FilesOK'
<1>1. FilesOK /\ 0 \in 0..MaxFacts
  BY VaultAssumption DEF Sound, TypeOK, Numbered, FilesOK
<1>2. file' = Unlinked(Lineage(m)) /\ UNCHANGED <<lastFile, hold, mass>>
  BY DEF Forget, Ops
<1>3. Lineage(m) \subseteq Facts
  BY DEF Lineage
<1> QED
  BY <1>1, <1>2, <1>3, UnlinkedRows, FilesRelink

LEMMA HoldFiles ==
    ASSUME Sound, NEW r \in Rows, Refuse(r) \/ Agree(r) PROVE FilesOK'
<1>1. FilesOK /\ file[r].state = "held" /\ r \notin mass /\ file \in [Rows -> File \union {NoFile}]
  BY DEF Sound, TypeOK, Numbered, FilesOK, Asked, Refuse, Agree
<1>2. file[r] \in File
  BY <1>1, NoFileIsNone
<1>3. /\ hold' = [hold EXCEPT ![r] = NoHold] /\ UNCHANGED <<lastFile, mass>>
      /\ hold \in [Rows -> RuleHold \union {NoHold}]
  BY <1>1 DEF Refuse, Agree, FilesOK
<1>4. CASE \E f \in File : f.path = file[r].path /\ file' = [file EXCEPT ![r] = f]
  <2>1. PICK f \in File : f.path = file[r].path /\ file' = [file EXCEPT ![r] = f]
    BY <1>4
  <2>2. /\ hold' \in [Rows -> RuleHold \union {NoHold}] /\ hold'[r] = NoHold
        /\ \A q \in Rows \ {r} : hold'[q] = hold[q]
    BY <1>3
  <2> QED
    BY <1>1, <1>2, <1>3, <2>1, <2>2, FilesTouch
<1>5. ASSUME NEW s \in {"ok", "quarantined"}, file' = [file EXCEPT ![r].state = s]
      PROVE  FilesOK'
  <2>1. file' = [file EXCEPT ![r] = [file[r] EXCEPT !.state = s]]
    BY <1>5
  <2>2. [file[r] EXCEPT !.state = s] \in File /\ [file[r] EXCEPT !.state = s].path = file[r].path
    BY <1>2, <1>5 DEF File
  <2> QED
    BY <1>4, <2>1, <2>2
<1>6. CASE Refuse(r)
  <2>1. Reverted(r) \in File /\ Reverted(r).path = file[r].path
    BY <1>2 DEF Reverted, File
  <2> QED
    BY <1>4, <1>6, <2>1 DEF Refuse
<1>7. ASSUME New \in 0..MaxFacts,
             file' = [Moved(hold[r].over) EXCEPT ![r] =
                         [file[r] EXCEPT !.state = "ok", !.memory = New]]
      PROVE  FilesOK'
  <2> DEFINE M == Moved(hold[r].over)
  <2>1. /\ M = [q \in Rows |-> M[q]]
        /\ \A q \in Rows : \/ M[q] = file[q]
                           \/ file[q] # NoFile /\ M[q] = [file[q] EXCEPT !.memory = New]
    BY MovedRows
  <2>2. file' = [M EXCEPT ![r] = [file[r] EXCEPT !.state = "ok", !.memory = New]]
    BY <1>7
  <2> HIDE DEF M
  <2>3. /\ file' = [q \in Rows |-> file'[q]]
        /\ file'[r] = [file[r] EXCEPT !.state = "ok", !.memory = New]
        /\ \A q \in Rows \ {r} : file'[q] = M[q]
    BY <2>1, <2>2
  <2>4. StaysOrGoes(r)
    BY <1>2, <1>7, <2>3 DEF StaysOrGoes, File
  <2>5. ASSUME NEW q \in Rows \ {r} PROVE StaysOrGoes(q) /\ file'[q].state = file[q].state
    <3>1. CASE file'[q] = file[q]
      BY <3>1 DEF StaysOrGoes
    <3>2. CASE file[q] # NoFile /\ file'[q] = [file[q] EXCEPT !.memory = New]
      <4>1. file[q] \in File
        BY <1>1, <3>2
      <4> QED
        BY <1>7, <3>2, <4>1 DEF StaysOrGoes, File
    <3> QED
      BY <2>1, <2>3, <3>1, <3>2
  <2>6. ASSUME NEW q \in Rows
        PROVE  /\ StaysOrGoes(q)
               /\ hold'[q] # NoHold => file'[q].state = "held" /\ q \notin mass'
               /\ q \in mass' => file'[q].state = "held"
    <3>1. /\ hold[q] # NoHold => file[q].state = "held" /\ q \notin mass
          /\ q \in mass => file[q].state = "held"
      BY <1>1 DEF FilesOK, Asked
    <3>2. CASE q = r
      BY <1>1, <1>3, <2>4, <3>2
    <3>3. CASE q # r
      BY <1>3, <2>5, <3>1, <3>3
    <3> QED
      BY <3>2, <3>3
  <2>7. hold' \in [Rows -> RuleHold \union {NoHold}] /\ mass' \subseteq Rows
    BY <1>1, <1>3 DEF FilesOK
  <2> QED
    BY <1>1, <1>3, <2>3, <2>6, <2>7, FilesStay
<1>8. CASE Agree(r)
  <2>1. \/ file' = [file EXCEPT ![r].state = "ok"] \/ file' = [file EXCEPT ![r].state = "quarantined"]
        \/ /\ lastFact < MaxFacts
           /\ file' = [Moved(hold[r].over) EXCEPT ![r] =
                           [file[r] EXCEPT !.state = "ok", !.memory = New]]
    BY <1>8 DEF Agree, WriteMemory
  <2>2. lastFact < MaxFacts => New \in 0..MaxFacts
    BY VaultAssumption DEF Sound, TypeOK, New
  <2> QED
    BY <1>5, <1>7, <2>1, <2>2
<1> QED
  BY <1>6, <1>8

LEMMA MassFiles ==
    ASSUME Sound, KeepAll \/ ForgetAll PROVE FilesOK'
<1>1. FilesOK /\ file \in [Rows -> File \union {NoFile}] /\ Asked
  BY DEF Sound, TypeOK, Numbered, FilesOK
<1>2. /\ hold' = hold /\ mass' = {} /\ lastFile' = lastFile
      /\ hold \in [Rows -> RuleHold \union {NoHold}]
  BY <1>1 DEF KeepAll, ForgetAll, FilesOK
<1>3. \A r \in mass : r \in Rows => hold[r] = NoHold
  BY <1>1 DEF Asked
<1>4. CASE KeepAll
  <2>1. file' = [r \in Rows |-> IF r \in mass THEN Restored(r) ELSE file[r]]
    BY <1>4 DEF KeepAll
  <2>2. ASSUME NEW r \in Rows, r \in mass PROVE StaysOrGoes(r)
    <3>1. file[r] \in File
      BY <1>1, <2>2, NoFileIsNone DEF Asked
    <3>2. Restored(r) \in File /\ Restored(r).path = file[r].path
      BY <3>1 DEF Restored, File
    <3> QED
      BY <2>1, <2>2, <3>1, <3>2 DEF StaysOrGoes
  <2>3. \A r \in Rows \ mass : StaysOrGoes(r) /\ file'[r] = file[r]
    BY <2>1 DEF StaysOrGoes
  <2>4. file' = [r \in Rows |-> file'[r]]
    BY <2>1
  <2>5. \A r \in Rows : hold'[r] # NoHold => file'[r].state = "held" /\ r \notin mass'
    BY <1>1, <1>2, <1>3, <2>3 DEF Asked
  <2> QED
    BY <1>1, <1>2, <2>2, <2>3, <2>4, <2>5, FilesStay
<1>5. CASE ForgetAll
  <2> DEFINE gone == UNION {Lineage(file[r].memory) : r \in {r \in mass : file[r].memory # 0}}
  <2>1. file' = [r \in Rows |-> IF r \in mass THEN NoFile ELSE Unlinked(gone)[r]]
    BY <1>5 DEF ForgetAll
  <2>2. gone \subseteq Facts
    BY DEF Lineage
  <2> HIDE DEF gone
  <2>3. ASSUME NEW r \in Rows, r \notin mass
        PROVE  StaysOrGoes(r) /\ file'[r].state = file[r].state
    <3>1. file'[r] = Unlinked(gone)[r]
      BY <2>1, <2>3
    <3>2. CASE Unlinked(gone)[r] = file[r]
      BY <3>1, <3>2 DEF StaysOrGoes
    <3>3. CASE file[r] # NoFile /\ Unlinked(gone)[r] = [file[r] EXCEPT !.memory = 0]
      <4>1. file[r] \in File /\ 0 \in 0..MaxFacts
        BY <1>1, <3>3, VaultAssumption
      <4> QED
        BY <3>1, <3>3, <4>1 DEF StaysOrGoes, File
    <3> QED
      BY <2>2, <3>2, <3>3, UnlinkedRows
  <2>4. \A r \in mass : r \in Rows => file'[r] = NoFile /\ StaysOrGoes(r)
    BY <2>1 DEF StaysOrGoes
  <2>5. file' = [r \in Rows |-> file'[r]]
    BY <2>1
  <2>6. \A r \in Rows : hold'[r] # NoHold => file'[r].state = "held" /\ r \notin mass'
    BY <1>1, <1>2, <1>3, <2>3 DEF Asked
  <2> QED
    BY <1>1, <1>2, <2>3, <2>4, <2>5, <2>6, FilesStay
<1> QED
  BY <1>4, <1>5

LEMMA GraceFiles ==
    ASSUME Sound, NEW r \in Rows, GraceElapses(r) PROVE FilesOK'
<1>1. FilesOK /\ file \in [Rows -> File \union {NoFile}] /\ Asked
      /\ hold \in [Rows -> RuleHold \union {NoHold}]
  BY DEF Sound, TypeOK, Numbered, FilesOK
<1> DEFINE f == [file[r] EXCEPT !.missing = IF file[r].missing = "new" THEN "old" ELSE file[r].missing]
<1>2. file' = [file EXCEPT ![r] = f] /\ UNCHANGED <<lastFile, hold, mass>>
  BY <1>1 DEF GraceElapses
<1>3. CASE file[r] = NoFile
  <2>1. f = NoFile
    BY <1>3 DEF NoFile
  <2>2. file' = file
    BY <1>1, <1>2, <1>3, <2>1
  <2>3. file' = [q \in Rows |-> file'[q]] /\ \A q \in Rows : file'[q] = file[q]
    BY <1>1, <2>2
  <2> QED
    BY <1>1, <1>2, <2>3, FilesRelink
<1>4. CASE file[r] \in File
  <2>1. f \in File /\ f.path = file[r].path /\ f.state = file[r].state
    BY <1>4 DEF File
  <2> HIDE DEF f
  <2> QED
    BY <1>1, <1>2, <1>4, <2>1, FilesTouch DEF Asked
<1> QED
  BY <1>1, <1>3, <1>4

LEMMA NewRowFiles ==
    ASSUME Sound, NEW p \in Paths, IngestRefuses(p) \/ IngestNewRule(p) \/ IngestNewFact(p)
    PROVE  FilesOK'
<1>1. /\ FilesOK /\ disk \in [Paths -> Content \union {None}] /\ lastFact \in 0..MaxFacts
      /\ Reads(p) /\ (Copied(p) \/ NewFile(p))
  BY DEF Sound, TypeOK, Numbered, FilesOK, IngestRefuses, IngestNewRule, IngestNewFact
<1>2. CASE IngestRefuses(p)
  <2>1. AddRow(p, "quarantined", 0) /\ mass' = mass /\ hold' = hold /\ 0 \in 0..MaxFacts
    BY <1>2, VaultAssumption DEF IngestRefuses
  <2> QED
    BY <1>1, <2>1, AddRowOK
<1>3. CASE IngestNewRule(p)
  <2> DEFINE h == [kind |-> "rule", text |-> disk[p].text, over |-> 0]
  <2>1. AddRow(p, "held", 0) /\ mass' = mass /\ 0 \in 0..MaxFacts
    BY <1>3, VaultAssumption DEF IngestNewRule
  <2>2. disk[p].text \in Texts
    BY <1>1, <1>3, ReadContent, Unbroken DEF IngestNewRule, Garbled
  <2>3. hold' = [hold EXCEPT ![Fresh(p)] = h] /\ h \in RuleHold
    BY <1>3, <2>1, <2>2 DEF IngestNewRule, RuleHold, Kinds
  <2> QED
    BY <1>1, <2>1, <2>3, AddRowOK
<1>4. CASE IngestNewFact(p)
  <2>1. AddRow(p, "ok", New) /\ mass' = mass /\ hold' = hold
    BY <1>4 DEF IngestNewFact
  <2>2. New \in 0..MaxFacts
    BY <1>1, <1>4, VaultAssumption DEF IngestNewFact, WriteMemory, New
  <2> QED
    BY <1>1, <2>1, <2>2, AddRowOK
<1> QED
  BY <1>2, <1>3, <1>4

LEMMA EditFiles ==
    ASSUME Sound, NEW p \in Paths, NEW r \in Rows,
           \/ IngestQuarantines(p, r) \/ IngestHolds(p, r) \/ IngestCosmetic(p, r)
    PROVE  FilesOK'
<1>1. /\ FilesOK /\ disk \in [Paths -> Content \union {None}] /\ seen \in [Rows -> 0..MaxFacts]
      /\ file \in [Rows -> File \union {NoFile}] /\ Edited(p, r)
  BY DEF Sound, TypeOK, Numbered, FilesOK, IngestQuarantines, IngestHolds, IngestCosmetic
<1>2. file[r] \in File /\ file[r].memory \in 0..MaxFacts
  BY <1>1, EditedRow DEF File
<1>3. PICK state \in {"ok", "quarantined", "held"} :
          /\ file' = [file EXCEPT ![r] = Taken(p, r, state)]
          /\ lastFile' = lastFile /\ mass' = mass
          /\ \/ hold' = hold
             \/ /\ state = "held" /\ Changed(p, seen[r])
                /\ hold' = [hold EXCEPT ![r] = [kind |-> disk[p].kind, text |-> disk[p].text,
                                                over |-> seen[r]]]
  BY DEF IngestQuarantines, IngestHolds, IngestCosmetic
<1>4. \/ hold' = hold
      \/ state = "held" /\ \E h \in RuleHold : hold' = [hold EXCEPT ![r] = h]
  <2>1. ASSUME Changed(p, seen[r])
        PROVE  [kind |-> disk[p].kind, text |-> disk[p].text, over |-> seen[r]] \in RuleHold
    <3>1. disk[p].text \in Texts /\ disk[p].kind \in Kinds
      BY <1>1, <2>1, ReadContent, Unbroken DEF Changed, Edited, Kinds
    <3> QED
      BY <1>1, <3>1 DEF RuleHold
  <2> QED
    BY <1>3, <2>1
<1>5. /\ file' = [q \in Rows |-> file'[q]]
      /\ file'[r] = Taken(p, r, state)
      /\ \A q \in Rows \ {r} : file'[q] = file[q]
  BY <1>1, <1>3
<1>6. Taken(p, r, state) = [Taken(p, r, state) EXCEPT !.memory = file[r].memory]
  BY <1>2 DEF Taken, File
<1>7. \A q \in Rows \ {r} : StaysOrGoes(q) /\ file'[q].state = file[q].state
  BY <1>5 DEF StaysOrGoes
<1>8. PICK m \in 0..MaxFacts : file'[r] = [Taken(p, r, state) EXCEPT !.memory = m]
  BY <1>2, <1>5, <1>6
<1>9. lastFile' = lastFile /\ mass' = mass /\ file' = [q \in Rows |-> file'[q]]
  BY <1>3, <1>5
<1> QED
  BY <1>1, <1>4, <1>7, <1>8, <1>9, TakenOK

\* A row the pass sees renamed is the only one, and no row is at the new name.
LEMMA RenamedRow ==
    ASSUME NEW p \in Paths, NEW r \in Rows, Renamed(p, r)
    PROVE  /\ r \in Rowed /\ RowsAt(p) = {} /\ manifest[file[r].path] = None
           /\ \A q \in Rows : Renamed(p, q) => q = r
BY DEF Renamed, Untracked, Named

LEMMA IgnoreFiles ==
    ASSUME Sound, NEW p \in Paths, IngestIgnores(p)
    PROVE  FilesOK' \/ UNCHANGED <<file, lastFile, hold, mass>>
<1>1. /\ FilesOK /\ file \in [Rows -> File \union {NoFile}] /\ Asked
      /\ lastFile \in 0..MaxRows /\ \A q \in Rows : q > lastFile => file[q] = NoFile
      /\ hold \in [Rows -> RuleHold \union {NoHold}]
  BY DEF Sound, TypeOK, Numbered, FilesOK
<1>2. /\ file' = [r \in Rows |-> IF Renamed(p, r)
                               THEN [file[r] EXCEPT !.path = p, !.missing = "no"] ELSE file[r]]
      /\ UNCHANGED <<lastFile, hold, mass>>
  BY DEF IngestIgnores
<1>3. CASE \A r \in Rows : ~Renamed(p, r)
  <2>1. file' = [r \in Rows |-> file[r]]
    BY <1>2, <1>3
  <2> QED
    BY <1>1, <1>2, <2>1
<1>4. ASSUME NEW r \in Rows, Renamed(p, r) PROVE FilesOK'
  <2>1. r \in Rowed /\ RowsAt(p) \subseteq {r} /\ \A q \in Rows : Renamed(p, q) => q = r
    BY <1>4, RenamedRow
  <2>2. file[r] \in File /\ r <= lastFile
    BY <1>1, <2>1, VaultAssumption DEF Rowed, Rows
  <2>3. file'[r] = [file[r] EXCEPT !.path = p, !.missing = "no"]
    BY <1>2, <1>4
  <2>4. file'[r] \in File /\ file'[r].path = p /\ file'[r].state = file[r].state
    BY <2>2, <2>3 DEF File
  <2>5. /\ file' = [q \in Rows |-> file'[q]]
        /\ \A q \in Rows \ {r} : file'[q] = file[q]
    BY <1>2, <2>1
  <2>6. \A q \in Rows \ {r} : StaysOrGoes(q)
    BY <2>5 DEF StaysOrGoes
  <2>7. \A q \in Rows : /\ hold'[q] # NoHold => file'[q].state = "held" /\ q \notin mass'
                        /\ q \in mass' => file'[q].state = "held"
    BY <1>1, <1>2, <2>4, <2>5 DEF Asked
  <2>8. hold' \in [Rows -> RuleHold \union {NoHold}] /\ mass' = mass /\ lastFile' = lastFile
    BY <1>1, <1>2
  <2>9. lastFile' \in 0..MaxRows /\ lastFile <= lastFile' /\ r <= lastFile'
    <3>1. lastFile \in 0..MaxRows
      BY <1>1
    <3> QED
      BY <3>1, <2>2, <2>8, VaultAssumption
  <2> QED
    BY <1>1, <2>1, <2>4, <2>5, <2>6, <2>7, <2>8, <2>9, FilesPlace
<1> QED
  BY <1>3, <1>4

LEMMA ChangeFiles ==
    ASSUME Sound, NEW p \in Paths, NEW r \in Rows, IngestChange(p, r) PROVE FilesOK'
<1> DEFINE M == Moved(seen[r])
<1>1. /\ FilesOK /\ disk \in [Paths -> Content \union {None}]
      /\ file \in [Rows -> File \union {NoFile}] /\ Edited(p, r)
  BY DEF Sound, TypeOK, Numbered, FilesOK, IngestChange
<1>2. New \in 0..MaxFacts
  BY VaultAssumption DEF Sound, TypeOK, IngestChange, WriteMemory, New
<1>3. /\ file' = [M EXCEPT ![r] = [Taken(p, r, "ok") EXCEPT !.memory = New]]
      /\ lastFile' = lastFile /\ mass' = mass /\ hold' = hold
  BY DEF IngestChange
<1>m. /\ M = [q \in Rows |-> M[q]]
      /\ \A q \in Rows : \/ M[q] = file[q]
                         \/ file[q] # NoFile /\ M[q] = [file[q] EXCEPT !.memory = New]
  BY MovedRows
<1> HIDE DEF M
<1>4. /\ file' = [q \in Rows |-> file'[q]] /\ file'[r] = [Taken(p, r, "ok") EXCEPT !.memory = New]
      /\ \A q \in Rows \ {r} : file'[q] = M[q]
  BY <1>3, <1>m
<1>5. ASSUME NEW q \in Rows \ {r} PROVE StaysOrGoes(q) /\ file'[q].state = file[q].state
  <2>1. CASE file'[q] = file[q]
    BY <2>1 DEF StaysOrGoes
  <2>2. CASE file[q] # NoFile /\ file'[q] = [file[q] EXCEPT !.memory = New]
    <3>1. file[q] \in File
      BY <1>1, <2>2
    <3> QED
      BY <1>2, <2>2, <3>1 DEF StaysOrGoes, File
  <2> QED
    BY <1>m, <1>4, <2>1, <2>2
<1> QED
  BY <1>1, <1>2, <1>3, <1>4, <1>5, TakenOK

LEMMA AdoptedFiles ==
    ASSUME Sound, Adopted PROVE FilesOK'
<1>1. /\ FilesOK /\ Asked /\ file \in [Rows -> File \union {NoFile}]
      /\ at \in Rowed /\ Exists(seen[at]) /\ seen \in [Rows -> 0..MaxFacts]
      /\ hold \in [Rows -> RuleHold \union {NoHold}]
  BY DEF Sound, TypeOK, Numbered, FilesOK, Reading, Adopted
<1>2. at \in Rows /\ file[at] \in File /\ seen[at] \in Facts
  BY <1>1 DEF Rowed, Exists, Facts
<1>3. Render(seen[at]) \in Content
  BY <1>1, <1>2, RenderOf DEF Sound
<1> DEFINE f == [file[at] EXCEPT !.disk = Render(seen[at]), !.digest = Render(seen[at])]
<1>4. f \in File /\ f.path = file[at].path /\ f.state = file[at].state
  BY <1>2, <1>3 DEF File
<1>5. file' = [file EXCEPT ![at] = f] /\ UNCHANGED <<lastFile, hold, mass>>
  BY <1>1, <1>2 DEF Adopted
<1> HIDE DEF f
<1> QED
  BY <1>1, <1>2, <1>4, <1>5, FilesTouch DEF Asked

LEMMA NotedRow ==
    ASSUME file \in [Rows -> File \union {NoFile}], \A q \in absent : q \in Rowed, NEW r \in Rows
    PROVE  /\ Noted(r) \in File \union {NoFile} /\ Noted(r).state = file[r].state
           /\ file[r] \in File => Noted(r) \in File /\ Noted(r).path = file[r].path
           /\ file[r] = NoFile => Noted(r) = NoFile
           /\ Noted(r).memory = file[r].memory /\ Noted(r).disk = file[r].disk
<1>1. CASE file[r] = NoFile
  <2>1. Noted(r) = NoFile
    BY <1>1 DEF Noted, Missing, Rowed
  <2> QED
    BY <1>1, <2>1, NoFileIsNone
<1>2. CASE file[r] \in File
  BY <1>2, NoFileIsNone DEF Noted, File
<1> QED
  BY <1>1, <1>2

LEMMA DeletionFiles ==
    ASSUME Sound, NoneDue \/ AskForAll \/ ForgetMissing PROVE FilesOK'
<1>1. /\ FilesOK /\ Asked /\ file \in [Rows -> File \union {NoFile}] /\ mass \subseteq Rows
      /\ hold \in [Rows -> RuleHold \union {NoHold}]
      /\ \A r \in absent : r \in Rowed
  BY DEF Sound, TypeOK, Numbered, FilesOK, Reading, NoneDue, AskForAll, ForgetMissing, Deleting
<1>2. /\ lastFile' = lastFile /\ hold' = hold
      /\ ~AskForAll => mass' = mass
  BY DEF NoneDue, AskForAll, ForgetMissing, Deleting
<1>3. \A r \in Due : r \in Rowed /\ file[r].state # "held"
  BY <1>1 DEF Due, Missing
<1>4. \A r \in Rows : /\ hold[r] # NoHold => file[r].state = "held" /\ r \notin mass
                      /\ r \in mass => file[r].state = "held"
  BY <1>1 DEF Asked
<1>5. CASE NoneDue
  <2>1. file' = [r \in Rows |-> Noted(r)]
    BY <1>5 DEF NoneDue
  <2>2. ASSUME NEW r \in Rows PROVE StaysOrGoes(r) /\ file'[r].state = file[r].state
    BY <1>1, <2>1, NotedRow DEF StaysOrGoes
  <2>3. file' = [r \in Rows |-> file'[r]]
    BY <2>1
  <2> QED
    BY <1>1, <1>2, <1>4, <1>5, <2>2, <2>3, FilesStay DEF NoneDue
<1>6. CASE AskForAll
  <2>1. /\ file' = [r \in Rows |-> IF r \in Due THEN [file[r] EXCEPT !.state = "held"] ELSE Noted(r)]
        /\ mass = {} /\ mass' = Due
    BY <1>6 DEF AskForAll
  <2>2. ASSUME NEW r \in Rows, r \notin Due PROVE StaysOrGoes(r) /\ file'[r].state = file[r].state
    BY <1>1, <2>1, <2>2, NotedRow DEF StaysOrGoes
  <2>3. ASSUME NEW r \in Rows, r \in Due PROVE StaysOrGoes(r) /\ file'[r].state = "held"
    <3>1. file[r] \in File /\ file'[r] = [file[r] EXCEPT !.state = "held"]
      BY <1>1, <1>3, <2>1, <2>3 DEF Rowed
    <3> QED
      BY <3>1 DEF StaysOrGoes, File
  <2>4. file' = [r \in Rows |-> file'[r]] /\ Due \subseteq Rows
    BY <1>3, <2>1 DEF Rowed
  <2>5. ASSUME NEW r \in Rows
        PROVE  /\ hold'[r] # NoHold => file'[r].state = "held" /\ r \notin mass'
               /\ r \in mass' => file'[r].state = "held"
    BY <1>2, <1>3, <1>4, <2>1, <2>2, <2>3
  <2> QED
    BY <1>1, <1>2, <2>1, <2>2, <2>3, <2>4, <2>5, FilesStay
<1>7. CASE ForgetMissing
  <2>1. PICK gone : file' = [r \in Rows |-> IF r \in Due THEN NoFile
                     ELSE [Noted(r) EXCEPT !.memory = IF @ \in gone THEN 0 ELSE @]]
    BY <1>7 DEF ForgetMissing
  <2>2. ASSUME NEW r \in Rows, r \notin Due
        PROVE  StaysOrGoes(r) /\ file'[r].state = file[r].state
    <3>1. file'[r] = [Noted(r) EXCEPT !.memory = IF Noted(r).memory \in gone THEN 0
                                                  ELSE Noted(r).memory]
      BY <2>1, <2>2
    <3>2. CASE file[r] = NoFile
      <4>1. Noted(r) = NoFile
        BY <1>1, <3>2, NotedRow
      <4>2. file'[r] = NoFile
        BY <3>1, <4>1 DEF NoFile
      <4> QED
        BY <3>2, <4>2 DEF StaysOrGoes
    <3>3. CASE file[r] \in File
      <4>1. Noted(r) \in File /\ Noted(r).path = file[r].path /\ Noted(r).state = file[r].state
        BY <1>1, <3>3, NotedRow
      <4>2. PICK m \in 0..MaxFacts : file'[r] = [Noted(r) EXCEPT !.memory = m]
        BY <3>1, <4>1, VaultAssumption DEF File
      <4> QED
        BY <3>3, <4>1, <4>2 DEF StaysOrGoes, File
    <3> QED
      BY <1>1, <3>2, <3>3
  <2>3. \A r \in Rows : r \in Due => file'[r] = NoFile /\ StaysOrGoes(r)
    BY <2>1 DEF StaysOrGoes
  <2>4. file' = [r \in Rows |-> file'[r]]
    BY <2>1
  <2>5. mass = {} /\ mass' = {}
    BY <1>7 DEF ForgetMissing
  <2>6. \A r \in Rows : hold'[r] # NoHold => file'[r].state = "held" /\ r \notin mass'
    BY <1>2, <1>3, <1>4, <2>2, <2>5
  <2> QED
    BY <1>1, <1>2, <2>2, <2>3, <2>4, <2>5, <2>6, FilesStay
<1> QED
  BY <1>5, <1>6, <1>7

LEMMA FollowedFact ==
    ASSUME Sound, NEW r \in Superseded PROVE Followed(r) \in 0..MaxFacts
<1>1. seen[r] \in Facts
  BY DEF Sound, TypeOK, Superseded, Rowed, Exists, Facts
<1>2. Head[seen[r]] \in Facts
  BY <1>1, NextOf, HeadLeads DEF Sound
<1> QED
  BY <1>2, VaultAssumption DEF Followed, Facts

LEMMA FollowFiles ==
    ASSUME Sound, FollowHeads PROVE FilesOK'
<1>1. FilesOK
  BY DEF Sound, TypeOK, Numbered, FilesOK
<1>2. /\ file' = [r \in Rows |-> IF r \in Superseded
                               THEN [file[r] EXCEPT !.memory = Followed(r)] ELSE file[r]]
      /\ UNCHANGED <<lastFile, hold, mass>>
  BY DEF FollowHeads
<1>3. file' = [r \in Rows |-> file'[r]]
  BY <1>2
<1>4. ASSUME NEW r \in Rows
      PROVE  \/ file'[r] = file[r]
             \/ \E m \in 0..MaxFacts : /\ file[r] # NoFile
                                       /\ file'[r] = [file[r] EXCEPT !.memory = m]
  <2>1. CASE r \in Superseded
    <3>1. Followed(r) \in 0..MaxFacts /\ file[r] # NoFile
      BY <2>1, FollowedFact DEF Superseded, Rowed
    <3> QED
      BY <1>2, <2>1, <3>1
  <2> QED
    BY <1>2, <2>1
<1> QED
  BY <1>1, <1>2, <1>3, <1>4, FilesRelink

LEMMA DropFiles ==
    ASSUME Sound, DropRow PROVE FilesOK'
<1>1. /\ FilesOK /\ Asked /\ file \in [Rows -> File \union {NoFile}] /\ mass \subseteq Rows
      /\ hold \in [Rows -> RuleHold \union {NoHold}]
      /\ at \in Rows /\ file[at].state # "held"
  BY DEF Sound, TypeOK, Numbered, FilesOK, Dropping, DropRow, Rowed
<1>2. /\ file' = [file EXCEPT ![at] = NoFile] /\ UNCHANGED <<lastFile, hold, mass>>
  BY DEF DropRow
<1>3. /\ file' = [r \in Rows |-> file'[r]] /\ file'[at] = NoFile
      /\ \A r \in Rows \ {at} : file'[r] = file[r]
  BY <1>1, <1>2
<1>4. \A r \in Rows : StaysOrGoes(r)
  BY <1>3 DEF StaysOrGoes
<1>5. \A r \in Rows : /\ hold'[r] # NoHold => file'[r].state = "held" /\ r \notin mass'
                      /\ r \in mass' => file'[r].state = "held"
  BY <1>1, <1>2, <1>3 DEF Asked
<1> QED
  BY <1>1, <1>2, <1>3, <1>4, <1>5, FilesStay

LEMMA WriteRowFiles ==
    ASSUME Sound, WriteRow(FirstView) PROVE FilesOK'
<1> DEFINE v == FirstView
           r == lastFile + 1
<1>1. /\ FilesOK /\ Asked /\ file \in [Rows -> File \union {NoFile}] /\ mass \subseteq Rows
      /\ hold \in [Rows -> RuleHold \union {NoHold}] /\ lastFile \in 0..MaxRows
  BY DEF Sound, TypeOK, Numbered, FilesOK
<1>2. v \in todo /\ v.anchor \in 0..MaxFacts
  BY FirstViewOf DEF Sound, WriteRow, WriteTurn
<1>3. v.anchor \in Paths
  BY <1>2, VaultAssumption DEF Sound, Writing, WriteRow, WriteTurn, Paths, Own
<1>4. /\ r \in Rows /\ lastFile' = r /\ RowsAt(v.anchor) = {}
      /\ file' = [file EXCEPT ![r] = [path |-> v.anchor, state |-> "ok",
            memory |-> v.anchor, disk |-> None, digest |-> None, missing |-> "no"]]
      /\ UNCHANGED <<hold, mass>>
  BY <1>1, VaultAssumption DEF WriteRow, Rows
<1>5. file[r] = NoFile
  BY <1>1, <1>4, VaultAssumption DEF FilesOK, Rows
<1>6. /\ file' = [q \in Rows |-> file'[q]]
      /\ file'[r] \in File /\ file'[r].path = v.anchor
      /\ \A q \in Rows \ {r} : file'[q] = file[q] /\ StaysOrGoes(q)
  <2>1. file'[r] = [path |-> v.anchor, state |-> "ok",
            memory |-> v.anchor, disk |-> None, digest |-> None, missing |-> "no"]
    BY <1>1, <1>4
  <2>2. file'[r] \in File /\ file'[r].path = v.anchor
    BY <1>2, <1>3, <2>1 DEF File
  <2> QED
    BY <1>1, <1>4, <2>2 DEF StaysOrGoes
<1>7. ASSUME NEW q \in Rows
      PROVE  /\ hold'[q] # NoHold => file'[q].state = "held" /\ q \notin mass'
             /\ q \in mass' => file'[q].state = "held"
  <2>1. /\ hold[q] # NoHold => file[q].state = "held" /\ q \notin mass
        /\ q \in mass => file[q].state = "held"
    BY <1>1 DEF Asked
  <2>2. q = r => hold[q] = NoHold /\ q \notin mass
    BY <1>5, <2>1, NoFileIsNone
  <2> QED
    BY <1>4, <1>6, <2>1, <2>2
<1>8. lastFile' \in 0..MaxRows /\ lastFile <= lastFile' /\ r <= lastFile' /\ RowsAt(v.anchor) \subseteq {r}
  BY <1>1, <1>4, VaultAssumption DEF Rows
<1>9. PICK p \in Paths : p = v.anchor
  BY <1>3
<1> HIDE DEF v, r
<1> QED
  BY <1>1, <1>4, <1>6, <1>7, <1>8, <1>9, FilesPlace

LEMMA QuarantineFiles ==
    ASSUME Sound, WriteQuarantines(FirstView) PROVE FilesOK'
<1> DEFINE r == Latest(FirstView)
           f == [file[r] EXCEPT !.state = "quarantined"]
<1>1. /\ FilesOK /\ Asked /\ file \in [Rows -> File \union {NoFile}]
      /\ hold \in [Rows -> RuleHold \union {NoHold}]
  BY DEF Sound, TypeOK, Numbered, FilesOK
<1>2. r \in Rowed /\ r \in Rows
  BY LatestOf DEF WriteQuarantines
<1>3. /\ file[r].state = "ok" /\ file' = [file EXCEPT ![r] = f] /\ UNCHANGED <<lastFile, hold, mass>>
  BY <1>1, <1>2 DEF WriteQuarantines
<1>4. file[r] \in File
  BY <1>1, <1>2 DEF Rowed
<1>5. f \in File /\ f.path = file[r].path
  BY <1>4 DEF File
<1>6. hold[r] = NoHold /\ r \notin mass
  BY <1>1, <1>2, <1>3 DEF Asked
<1> HIDE DEF r, f
<1> QED
  BY <1>1, <1>2, <1>3, <1>4, <1>5, <1>6, FilesTouch

LEMMA RecordFiles ==
    ASSUME Sound, Record PROVE FilesOK'
<1> DEFINE v == FirstView
           f == [file[at] EXCEPT !.state = "ok", !.disk = v, !.digest = v]
<1>1. /\ FilesOK /\ Asked /\ file \in [Rows -> File \union {NoFile}]
      /\ hold \in [Rows -> RuleHold \union {NoHold}]
      /\ at \in Rowed /\ file[at].state \in {"ok", "restore"}
  BY DEF Sound, TypeOK, Numbered, FilesOK, Writing, Record
<1>2. at \in Rows /\ file[at] \in File
  BY <1>1 DEF Rowed
<1>3. v \in Content
  BY FirstViewOf DEF Sound, Writing, Record
<1>4. f \in File /\ f.path = file[at].path
  BY <1>2, <1>3 DEF File
<1>5. file' = [file EXCEPT ![at] = f] /\ UNCHANGED <<lastFile, hold, mass>>
  BY <1>1, <1>2 DEF Record
<1>6. hold[at] = NoHold /\ at \notin mass
  BY <1>1, <1>2 DEF Asked
<1> HIDE DEF v, f
<1> QED
  BY <1>1, <1>2, <1>4, <1>5, <1>6, FilesTouch

LEMMA ExpireFiles ==
    ASSUME Sound, NEW which \in SUBSET Rows, NEW all \in {{}, mass}, ExpireHolds(which, all)
    PROVE  FilesOK'
<1>1. /\ FilesOK /\ Asked /\ file \in [Rows -> File \union {NoFile}] /\ mass \subseteq Rows
      /\ hold \in [Rows -> RuleHold \union {NoHold}]
  BY DEF Sound, TypeOK, Numbered, FilesOK
<1>2. /\ file' = [r \in Rows |-> IF r \in which THEN Reverted(r)
                                 ELSE IF r \in all THEN Restored(r) ELSE file[r]]
      /\ hold' = [r \in Rows |-> IF r \in which THEN NoHold ELSE hold[r]]
      /\ mass' = mass \ all /\ lastFile' = lastFile
      /\ which \subseteq {r \in Rows : hold[r] # NoHold}
  BY DEF ExpireHolds
<1>3. ASSUME NEW r \in Rows
      PROVE  /\ StaysOrGoes(r) /\ hold'[r] \in RuleHold \union {NoHold}
             /\ hold'[r] # NoHold => file'[r].state = "held" /\ r \notin mass'
             /\ r \in mass' => file'[r].state = "held"
  <2>0. /\ hold[r] # NoHold => file[r].state = "held" /\ r \notin mass
        /\ r \in mass => file[r].state = "held"
        /\ hold[r] \in RuleHold \union {NoHold}
    BY <1>1 DEF Asked
  <2>1. CASE r \in which
    <3>1. file[r] \in File /\ r \notin mass
      BY <1>1, <1>2, <2>0, <2>1, NoFileIsNone
    <3>2. Reverted(r) \in File /\ Reverted(r).path = file[r].path
      BY <3>1 DEF Reverted, File
    <3> QED
      BY <1>2, <2>1, <3>1, <3>2 DEF StaysOrGoes
  <2>2. CASE r \notin which /\ r \in all
    <3>1. file[r] \in File /\ hold[r] = NoHold /\ r \in mass
      BY <1>1, <1>2, <2>0, <2>2, NoFileIsNone
    <3>2. Restored(r) \in File /\ Restored(r).path = file[r].path
      BY <3>1 DEF Restored, File
    <3> QED
      BY <1>2, <2>2, <3>1, <3>2 DEF StaysOrGoes
  <2>3. CASE r \notin which /\ r \notin all
    BY <1>2, <2>0, <2>3 DEF StaysOrGoes
  <2> QED
    BY <2>1, <2>2, <2>3
<1>4. file' = [r \in Rows |-> file'[r]] /\ hold' \in [Rows -> RuleHold \union {NoHold}] /\ mass' \subseteq Rows
  BY <1>1, <1>2, <1>3
<1> QED
  BY <1>1, <1>2, <1>3, <1>4, FilesStay

LEMMA FilesNext ==
    ASSUME Sound, [Next]_vars PROVE FilesOK'
<1> DEFINE Same == UNCHANGED <<file, lastFile, hold, mass>>
<1>1. CASE Same
  BY <1>1 DEF Sound, TypeOK, Numbered, FilesOK, OneRow, Asked, Rowed, Rows, File, Paths, Content,
              Texts, Kinds, RuleHold, Own
<1>2. User => FilesOK' \/ Same
  <2>1. \A p \in Paths : UserWrites(p) \/ UserRemoves(p) \/ UserReturns(p) \/ UserCopies(p) => Same
    BY DEF UserWrites, UserRemoves, UserReturns, UserCopies, Touches, db
  <2> QED
    BY <2>1, WebEditFiles, ForgetFiles, HoldFiles, MassFiles DEF User
<1>3. Ingest => FilesOK' \/ Same
  <2>1. \A p \in Paths : IngestLater(p) \/ IngestRaises(p) => Same
    BY DEF IngestLater, IngestRaises, db
  <2>2. \A p \in Paths, r \in Rows : IngestSkips(p, r) => Same
    BY DEF IngestSkips, db
  <2>3. Adopt \/ AdoptSwap => Same
    BY DEF Adopt, AdoptSwap, db
  <2> QED
    BY <2>1, <2>2, <2>3, NewRowFiles, IgnoreFiles, EditFiles, ChangeFiles, AdoptedFiles DEF Ingest
<1>4. Write => FilesOK' \/ Same
  <2>1. \/ WriteFile(FirstView) \/ WriteSwap \/ WriteRaises(FirstView) \/ WriteSkips(FirstView)
        => Same
    BY DEF WriteFile, WriteSwap, WriteRaises, WriteSkips, db
  <2> QED
    BY <2>1, WriteRowFiles, QuarantineFiles DEF Write
<1>5. Pass => FilesOK' \/ Same
  <2>1. \A r \in Rows : DropFile(r) => Same
    BY DEF DropFile, db
  <2>2. StartPass \/ DropSwap \/ DropRaises \/ Views => Same
    BY DEF StartPass, DropSwap, DropRaises, Views, db
  <2> QED
    BY <1>3, <1>4, <2>1, <2>2, DeletionFiles, FollowFiles, DropFiles, RecordFiles, ExpireFiles DEF Pass
<1>6. \A m, n \in Facts : Consolidate(m, n) => Same
  BY DEF Consolidate, Ops
<1>7. WindowMoves \/ PassStops \/ UNCHANGED vars => Same
  BY DEF WindowMoves, PassStops, vars, db
<1> QED
  BY <1>1, <1>2, <1>5, <1>6, <1>7, GraceFiles DEF Next

-----------------------------------------------------------------------------
(* What a step does to the vault and to the pass.                           *)

VaultOK == disk \in [Paths -> Content \union {None}] /\ limbo \in Content \union {None}

LEMMA PutOK ==
    ASSUME VaultOK, NEW r, NEW c \in Content \union {None}, Put(r, c)
    PROVE  VaultOK'
<1>1. disk' \in [Paths -> Content \union {None}] /\ limbo' = limbo
  BY DEF Put, VaultOK
<1> QED
  BY <1>1 DEF VaultOK, Paths, Own, Content, Texts, Kinds

LEMMA TypedOf ==
    ASSUME NEW c \in Content \union {None}
    PROVE  Typed(c) \subseteq Content /\ Disowned(c) \in Content
<1> DEFINE Any == [anchor : 0..MaxFacts, text : Texts \union {0},
                   kind : Kinds \union {"none", "garbled", "other"}]
<1>1. c \in Any
  <2>1. 0 \in 0..MaxFacts
    BY VaultAssumption
  <2>2. Garbled \in Any /\ None \in Any
    BY <2>1 DEF Garbled, None
  <2> QED
    BY <2>2 DEF Content
<1>2. ASSUME NEW t \in Texts, NEW kind \in Kinds \union {"other"}
      PROVE  [c EXCEPT !.text = t, !.kind = kind] \in Content
  BY <1>1 DEF Content
<1>3. {1, 3} \subseteq Texts /\ 3 \in Texts /\ "plain" \in Kinds /\ "rule" \in Kinds
  BY DEF Texts, Kinds
<1>4. Garbled \in Content
  BY DEF Content
<1>5. /\ \A t \in {1, 3} : [c EXCEPT !.text = t, !.kind = "plain"] \in Content
      /\ [c EXCEPT !.text = 3, !.kind = "rule"] \in Content /\ Disowned(c) \in Content
  BY <1>2, <1>3 DEF Disowned
<1> QED
  BY <1>4, <1>5 DEF Typed

LEMMA VaultNext ==
    ASSUME Sound, [Next]_vars PROVE VaultOK'
<1>1. VaultOK
  BY DEF Sound, TypeOK, VaultOK
<1> DEFINE Same == UNCHANGED <<disk, limbo>>
<1>2. Same => VaultOK'
  BY <1>1 DEF VaultOK, Paths, Own, Content, Texts, Kinds
<1>3. ASSUME NEW p \in Paths,
             UserWrites(p) \/ UserRemoves(p) \/ UserReturns(p) \/ UserCopies(p)
      PROVE  VaultOK'
  <2>1. disk[p] \in Content \union {None} /\ limbo \in Content \union {None}
    BY <1>1 DEF VaultOK
  <2>2. \E q \in Paths, c \in Content \union {None} : Holds(q, c)
    <3>1. CASE UserWrites(p)
      BY <2>1, <3>1, TypedOf DEF UserWrites
    <3>2. CASE UserRemoves(p)
      BY <3>2 DEF UserRemoves
    <3>3. CASE UserReturns(p)
      BY <2>1, <3>3, TypedOf DEF UserReturns
    <3>4. CASE UserCopies(p)
      BY <2>1, <3>4, VaultAssumption DEF UserCopies, Paths, Own
    <3> QED
      BY <1>3, <3>1, <3>2, <3>3, <3>4
  <2>3. disk' \in [Paths -> Content \union {None}]
    BY <1>1, <2>2 DEF Holds, VaultOK
  <2>4. limbo' \in Content \union {None}
    BY <1>3, <2>1 DEF UserWrites, UserRemoves, UserReturns, UserCopies
  <2> QED
    BY <2>3, <2>4 DEF VaultOK, Paths, Own, Content, Texts, Kinds
<1>4. CASE AdoptSwap
  <2>1. seen[at] \in Facts /\ Exists(seen[at])
    BY <1>4 DEF Sound, TypeOK, Reading, AdoptSwap, Rowed, Exists, Facts
  <2>2. Render(seen[at]) \in Content \union {None}
    BY <2>1, RenderOf DEF Sound
  <2>3. Put(at, Render(seen[at]))
    BY <1>4 DEF AdoptSwap
  <2> QED
    BY <1>1, <2>2, <2>3, PutOK
<1>5. CASE DropSwap
  BY <1>1, <1>5, PutOK DEF DropSwap
<1>6. CASE WriteFile(FirstView) \/ WriteSwap
  <2>1. FirstView \in Content \union {None}
    BY <1>6, FirstViewOf DEF Sound, Writing, WriteFile, WriteTurn, WriteSwap
  <2>2. Same \/ \E r : Put(r, FirstView)
    BY <1>6 DEF WriteFile, WriteSwap, vault
  <2> QED
    BY <1>1, <1>2, <2>1, <2>2, PutOK
<1>7. User => VaultOK'
  <2>1. \A m \in Facts : WebEdit(m) \/ Forget(m) => Same
    BY DEF WebEdit, Forget, Ops, vault
  <2>2. (\E r \in Rows : Refuse(r) \/ Agree(r)) \/ KeepAll \/ ForgetAll => Same
    BY DEF Refuse, Agree, KeepAll, ForgetAll, vault
  <2> QED
    BY <1>2, <1>3, <2>1, <2>2 DEF User
<1>8. Ingest => VaultOK'
  <2>1. \A p \in Paths : (\/ IngestLater(p) \/ IngestRaises(p) \/ IngestRefuses(p)
                          \/ IngestNewRule(p) \/ IngestNewFact(p) \/ IngestIgnores(p)) => Same
    BY DEF IngestLater, IngestRaises, IngestRefuses, IngestNewRule, IngestNewFact, IngestIgnores, vault
  <2>2. \A p \in Paths, r \in Rows : (\/ IngestSkips(p, r) \/ IngestQuarantines(p, r)
                                      \/ IngestHolds(p, r) \/ IngestChange(p, r)
                                      \/ IngestCosmetic(p, r)) => Same
    BY DEF IngestSkips, IngestQuarantines, IngestHolds, IngestChange, IngestCosmetic, vault
  <2>3. Adopt \/ Adopted => Same
    BY DEF Adopt, Adopted, vault
  <2> QED
    BY <1>2, <1>4, <2>1, <2>2, <2>3 DEF Ingest
<1>9. Write => VaultOK'
  <2>1. (\/ WriteRow(FirstView) \/ WriteQuarantines(FirstView) \/ WriteRaises(FirstView)
         \/ WriteSkips(FirstView)) => Same
    BY DEF WriteRow, WriteQuarantines, WriteRaises, WriteSkips, vault
  <2> QED
    BY <1>2, <1>6, <2>1 DEF Write
<1>10. Pass => VaultOK'
  <2>1. \/ StartPass \/ NoneDue \/ AskForAll \/ ForgetMissing \/ FollowHeads
        \/ (\E r \in Rows : DropFile(r)) \/ DropRaises \/ DropRow \/ Views \/ Record
        => Same
    BY DEF StartPass, NoneDue, AskForAll, ForgetMissing, Deleting, FollowHeads, DropFile,
           DropRaises, DropRow, Views, Record, vault
  <2>2. \A which \in SUBSET Rows, all \in {{}, mass} : ExpireHolds(which, all) => Same
    BY DEF ExpireHolds, vault
  <2> QED
    BY <1>2, <1>5, <1>8, <1>9, <2>1, <2>2 DEF Pass
<1>11. (\/ (\E m, n \in Facts : Consolidate(m, n)) \/ (\E r \in Rows : GraceElapses(r))
        \/ WindowMoves \/ PassStops \/ UNCHANGED vars) => Same
  BY DEF Consolidate, Ops, GraceElapses, WindowMoves, PassStops, vars, vault
<1> QED
  BY <1>2, <1>7, <1>10, <1>11 DEF Next

PassOK ==
    /\ pc \in PCs /\ manifest \in [Paths -> Content \union {None}]
    /\ absent \subseteq Rows /\ seen \in [Rows -> 0..MaxFacts]
    /\ todo \subseteq (IF pc \in {"write", "writing", "record"} THEN Content ELSE Nat)
    /\ at \in 0..MaxRows
    /\ Reading /\ Dropping /\ Writing

\* The parts of it, one at a time.
LEMMA PassIs ==
    ASSUME pc' \in PCs, manifest' \in [Paths -> Content \union {None}], absent' \subseteq Rows,
           seen' \in [Rows -> 0..MaxFacts], at' \in 0..MaxRows,
           todo' \subseteq (IF pc' \in {"write", "writing", "record"} THEN Content ELSE Nat),
           Reading', Dropping', Writing'
    PROVE  PassOK'
BY DEF PassOK, PCs, Paths, Own, Content, Texts, Kinds, Rows

LEMMA PassIdle ==
    ASSUME PassOK, Leaves \/ (pc = "idle" /\ UNCHANGED pass)
    PROVE  PassOK'
<1>1. pc' = "idle"
  BY DEF Leaves, pass
<1>2. Reading' /\ Dropping' /\ Writing'
  BY <1>1 DEF Reading, Dropping, Writing
<1>3. /\ manifest' \in [Paths -> Content \union {None}] /\ absent' \subseteq Rows
      /\ seen' \in [Rows -> 0..MaxFacts] /\ at' \in 0..MaxRows
      /\ todo' \subseteq (IF pc' \in {"write", "writing", "record"} THEN Content ELSE Nat)
  BY <1>1, VaultAssumption DEF PassOK, Leaves, pass
<1> QED
  BY <1>1, <1>2, <1>3, PassIs DEF PCs

\* A row that is missing stays where it was, or is no longer said to be missing.
Lingers(r) ==
    /\ file'[r] # NoFile
    /\ \/ file'[r].missing = "no"
       \/ file'[r].path = file[r].path /\ file'[r].missing = file[r].missing

\* While files are read, what was missing stays missing and rows keep their paths.
LEMMA PassReads ==
    ASSUME PassOK, pc \in {"ingest", "adopt", "adopting", "adopted"},
           pc' \in {"ingest", "adopt", "adopting", "adopted"}, manifest' = manifest,
           \A p \in Paths : manifest[p] = None => disk'[p] = disk[p],
           todo' \subseteq todo, absent' \subseteq absent,
           \A r \in absent' : Lingers(r),
           seen' \in [Rows -> 0..MaxFacts], at' \in 0..MaxRows,
           pc' # "ingest" => /\ at' \in Rows /\ file'[at'] # NoFile
                             /\ manifest[file'[at'].path] # None
                             /\ seen'[at'] # 0 /\ memory'[seen'[at']] # NoFact
    PROVE  PassOK'
<1>1. Reading /\ absent \subseteq Rows /\ manifest \in [Paths -> Content \union {None}]
      /\ todo \subseteq Nat
  BY DEF PassOK
<1>2. /\ \A p \in Paths : manifest[p] = None => disk[p] = None
      /\ todo \subseteq {p \in Paths : manifest[p] # None}
      /\ \A r \in absent : manifest[file[r].path] = None \/ file[r].missing = "no"
  BY <1>1 DEF Reading
<1>3. \A p \in Paths : manifest'[p] = None => disk'[p] = None
  BY <1>2
<1>4. todo' \subseteq {p \in Paths : manifest'[p] # None}
  BY <1>2
<1>5. \A r \in absent' : /\ r \in Rows /\ file'[r] # NoFile
                         /\ manifest'[file'[r].path] = None \/ file'[r].missing = "no"
  BY <1>1, <1>2 DEF Lingers
<1>6. Reading'
  BY <1>3, <1>4, <1>5 DEF Reading, Rowed, Rows, Exists, Paths, Own
<1>7. Dropping' /\ Writing'
  BY DEF Dropping, Writing
<1> QED
  BY <1>1, <1>6, <1>7, PassIs DEF PCs

\* While rows are dropped, those it has left stay as they are.
LEMMA PassDrops ==
    ASSUME PassOK, pc' \in {"drop", "dropping", "dropped"},
           manifest' \in [Paths -> Content \union {None}], absent' \subseteq Rows,
           seen' \in [Rows -> 0..MaxFacts], at' \in 0..MaxRows,
           todo' \subseteq Rows,
           \A r \in todo' : file'[r] # NoFile /\ file'[r].state \notin {"held", "quarantined"},
           pc' # "drop" => at' \in todo'
    PROVE  PassOK'
<1>1. todo' \subseteq Nat /\ pc' \in PCs
  BY VaultAssumption DEF Rows, PCs
<1>2. Dropping'
  BY DEF Dropping, Rowed, Rows
<1>3. Reading' /\ Writing'
  BY DEF Reading, Writing
<1> QED
  BY <1>1, <1>2, <1>3, PassIs

\* While views are written, those it has left are of facts.
LEMMA PassWrites ==
    ASSUME PassOK, pc' \in {"write", "writing", "record"},
           manifest' \in [Paths -> Content \union {None}], absent' \subseteq Rows,
           seen' \in [Rows -> 0..MaxFacts], at' \in 0..MaxRows,
           todo' \subseteq Content, \A v \in todo' : v.anchor # 0,
           pc' # "write" => /\ todo' # {} /\ at' \in Rows /\ file'[at'] # NoFile
                            /\ file'[at'].state \in {"ok", "restore"}
    PROVE  PassOK'
<1>1. Writing'
  BY DEF Writing, Rowed, Rows
<1>2. Reading' /\ Dropping' /\ pc' \in PCs
  BY DEF Reading, Dropping, PCs
<1> QED
  BY <1>1, <1>2, PassIs

\* Nothing of the pass changes, nor whether there is a row or where its file is, nor
\* what is in the places where nothing was.
LEMMA PassStays ==
    ASSUME Sound, UNCHANGED pass,
           pc \in {"adopt", "adopting", "adopted", "writing", "record"} => UNCHANGED <<file, memory>>,
           pc \in {"drop", "dropping", "dropped"} => todo = {} \/ file' = file,
           pc = "ingest" => \A r \in absent : Lingers(r),
           pc \in {"ingest", "adopt", "adopting", "adopted"} =>
               \A p \in Paths : manifest[p] = None => disk'[p] = disk[p]
    PROVE  PassOK'
<1>1. PassOK
  BY DEF Sound, TypeOK, PassOK
<1>2. /\ pc' = pc /\ manifest' = manifest /\ absent' = absent /\ seen' = seen /\ todo' = todo
      /\ at' = at
  BY DEF pass
<1>3. /\ manifest \in [Paths -> Content \union {None}] /\ absent \subseteq Rows
      /\ seen \in [Rows -> 0..MaxFacts] /\ at \in 0..MaxRows /\ pc \in PCs
      /\ todo \subseteq (IF pc \in {"write", "writing", "record"} THEN Content ELSE Nat)
      /\ Reading /\ Dropping /\ Writing
  BY <1>1 DEF PassOK
<1>4. CASE pc \in {"ingest", "adopt", "adopting", "adopted"}
  <2>1. \A r \in absent : Lingers(r)
    BY <1>3, <1>4 DEF Reading, Rowed, Lingers
  <2>2. pc # "ingest" => /\ at \in Rows /\ file'[at] # NoFile
                         /\ manifest[file'[at].path] # None
                         /\ seen[at] # 0 /\ memory'[seen[at]] # NoFact
    BY <1>3, <1>4 DEF Reading, Rowed, Exists
  <2> QED
    BY <1>1, <1>2, <1>3, <1>4, <2>1, <2>2, PassReads
<1>5. CASE pc \in {"drop", "dropping", "dropped"}
  <2>1. /\ todo \subseteq Rows /\ (pc # "drop" => at \in todo)
        /\ \A r \in todo : file'[r] # NoFile /\ file'[r].state \notin {"held", "quarantined"}
    BY <1>3, <1>5 DEF Dropping, Rowed
  <2> QED
    BY <1>1, <1>2, <1>3, <1>5, <2>1, PassDrops
<1>6. CASE pc \in {"write", "writing", "record"}
  <2>1. /\ todo \subseteq Content /\ \A v \in todo : v.anchor # 0
        /\ pc # "write" => /\ todo # {} /\ at \in Rows /\ file'[at] # NoFile
                           /\ file'[at].state \in {"ok", "restore"}
    BY <1>3, <1>6 DEF Writing, Rowed
  <2> QED
    BY <1>1, <1>2, <1>3, <1>6, <2>1, PassWrites
<1>7. CASE pc = "idle"
  BY <1>1, <1>7, PassIdle
<1>8. CASE pc = "follow"
  <2>1. Reading' /\ Dropping' /\ Writing'
    BY <1>2, <1>8 DEF Reading, Dropping, Writing
  <2> QED
    BY <1>2, <1>3, <2>1, PassIs
<1> QED
  BY <1>3, <1>4, <1>5, <1>6, <1>7, <1>8 DEF PCs

\* The path the pass goes to next had a file.
LEMMA NextHadFile ==
    ASSUME Sound, pc \in {"ingest", "adopt", "adopting", "adopted"}, NextPath # 0
    PROVE  manifest[NextPath] # None
<1>1. CASE pc = "ingest"
  <2>1. todo # {} /\ NextPath = First(todo)
    BY <1>1 DEF NextPath
  <2>2. First(todo) \in todo
    BY <1>1, <2>1, FirstOf DEF Sound, TypeOK
  <2> QED
    BY <1>1, <2>1, <2>2 DEF Sound, Reading
<1>2. CASE pc \in {"adopt", "adopting"}
  BY <1>2 DEF NextPath, Sound, Reading
<1>3. CASE pc = "adopted"
  BY <1>3 DEF NextPath
<1> QED
  BY <1>1, <1>2, <1>3

LEMMA UserPass ==
    ASSUME Sound, User PROVE PassOK'
<1>1. PassOK /\ file \in [Rows -> File \union {NoFile}]
  BY DEF Sound, TypeOK, PassOK
<1>2. ASSUME NEW p \in Paths,
             UserWrites(p) \/ UserRemoves(p) \/ UserReturns(p) \/ UserCopies(p)
      PROVE  PassOK'
  <2>1. UNCHANGED pass /\ file' = file /\ memory' = memory
    BY <1>2 DEF UserWrites, UserRemoves, UserReturns, UserCopies, Touches, db
  <2>2. PICK q \in Paths : Touches(q) /\ \E c : Holds(q, c)
    BY <1>2, VaultAssumption DEF UserWrites, UserRemoves, UserReturns, UserCopies, Paths, Own
  <2>3. \A s \in Paths \ {q} : disk'[s] = disk[s]
    BY <2>2 DEF Holds, Sound, TypeOK
  <2>4. pc \in {"ingest", "adopt", "adopting", "adopted"} => manifest[q] # None
    BY <2>2, NextHadFile DEF Touches, Paths
  <2>5. \A r \in absent : pc = "ingest" => Lingers(r)
    BY <2>1 DEF Sound, Reading, Rowed, Lingers
  <2> QED
    BY <2>1, <2>3, <2>4, <2>5, PassStays
<1>3. ASSUME NEW m \in Facts, WebEdit(m) \/ Forget(m) PROVE PassOK'
  <2>1. UNCHANGED pass /\ disk' = disk /\ ReadsFacts
    BY <1>3 DEF WebEdit, Forget, Ops, vault
  <2>2. /\ pc \notin {"adopt", "adopting", "adopted", "writing", "record", "dropping", "dropped"}
        /\ pc = "drop" => todo = {}
    BY <2>1 DEF ReadsFacts
  <2>3. ASSUME NEW r \in absent, pc = "ingest" PROVE Lingers(r)
    <3>1. r \in Rows /\ file[r] \in File
      BY <1>1, <2>3 DEF Sound, Reading, Rowed
    <3>2. \/ file'[r] = file[r] \/ \E x : file'[r] = [file[r] EXCEPT !.memory = x]
      BY <1>3, <3>1, MovedRows DEF WebEdit, Forget, Unlinked
    <3>3. 0 \notin Paths
      BY DEF Paths
    <3>4. file[r].path \in Paths
      BY <3>1 DEF File
    <3>5. file'[r].path = file[r].path /\ file'[r].missing = file[r].missing
      BY <3>1, <3>2 DEF File
    <3> QED
      BY <3>3, <3>4, <3>5 DEF NoFile, Lingers
  <2> QED
    BY <2>1, <2>2, <2>3, PassStays
<1>4. CASE (\E r \in Rows : Refuse(r) \/ Agree(r)) \/ KeepAll \/ ForgetAll
  <2>1. pc = "idle" /\ UNCHANGED pass
    BY <1>4 DEF Refuse, Agree, KeepAll, ForgetAll
  <2> QED
    BY <1>1, <2>1, PassIdle
<1> QED
  BY <1>2, <1>3, <1>4 DEF User

LEMMA StartOK ==
    ASSUME Sound, StartPass PROVE PassOK'
<1>1. /\ file \in [Rows -> File \union {NoFile}] /\ disk \in [Paths -> Content \union {None}]
  BY DEF Sound, TypeOK
<1>2. \A r \in Rows : file[r].memory \in 0..MaxFacts
  BY <1>1, VaultAssumption, NoFileIsNone DEF File
<1>3. /\ pc' = "ingest" /\ at' = 0 /\ manifest' = disk /\ disk' = disk /\ file' = file
      /\ absent' = {r \in Rowed : disk[file[r].path] = None}
      /\ seen' = [r \in Rows |-> file[r].memory]
      /\ todo' \subseteq {p \in Paths : disk[p] # None}
  BY DEF StartPass, db, vault
<1>4. seen' \in [Rows -> 0..MaxFacts] /\ absent' \subseteq Rows
  BY <1>2, <1>3 DEF Rowed
<1>5. todo' \subseteq Nat
  BY <1>3, VaultAssumption DEF Paths, Own
<1>6. \A r \in absent' : r \in Rows /\ file'[r] # NoFile /\ manifest'[file'[r].path] = None
  BY <1>3 DEF Rowed
<1>7. Reading'
  BY <1>3, <1>6 DEF Reading, Rowed, Rows, Paths, Own
<1>8. Dropping' /\ Writing'
  BY <1>3 DEF Dropping, Writing
<1>9. at' \in 0..MaxRows /\ pc' \in PCs /\ pc' \notin {"write", "writing", "record"}
  BY <1>3, VaultAssumption DEF PCs
<1>10. manifest' \in [Paths -> Content \union {None}]
  BY <1>1, <1>3
<1> QED
  BY <1>4, <1>5, <1>7, <1>8, <1>9, <1>10, PassIs

LEMMA IngestPass ==
    ASSUME Sound, NEW p \in Paths,
           \/ IngestLater(p) \/ IngestRefuses(p) \/ IngestNewRule(p) \/ IngestNewFact(p)
           \/ IngestIgnores(p)
           \/ \E r \in Rows : IngestSkips(p, r)
    PROVE  PassOK'
<1>1. /\ PassOK /\ file \in [Rows -> File \union {NoFile}] /\ seen \in [Rows -> 0..MaxFacts]
      /\ at \in 0..MaxRows /\ disk \in [Paths -> Content \union {None}] /\ Reading
  BY DEF Sound, TypeOK, PassOK
<1>2. /\ Turn(p) /\ pc = "ingest" /\ UNCHANGED <<disk, manifest, absent>> /\ todo' \subseteq todo
  BY DEF IngestLater, IngestRefuses, IngestNewRule, IngestNewFact, IngestIgnores, IngestSkips,
         Reads, Turn, Rest, vault
<1>3. \A r \in absent : r \in Rows /\ file[r] # NoFile
  BY <1>1, <1>2 DEF Reading, Rowed
<1>4. manifest[p] # None
  BY <1>1, <1>2 DEF Reading, Turn
<1>5. CASE IngestLater(p) \/ \E r \in Rows : IngestSkips(p, r)
  <2>1. file' = file /\ seen' = seen /\ at' = at /\ pc' = pc
    BY <1>5 DEF IngestLater, IngestSkips, Rest, db
  <2>2. \A r \in absent : Lingers(r)
    BY <1>3, <2>1 DEF Lingers
  <2> QED
    BY <1>1, <1>2, <2>1, <2>2, PassReads
<1>6. ASSUME Copied(p) \/ NewFile(p), NEW state, NEW m, AddRow(p, state, m)
      PROVE  /\ \A r \in absent : Lingers(r)
             /\ Fresh(p) \in Rows /\ file'[Fresh(p)] # NoFile /\ file'[Fresh(p)].path = p
  <2> DEFINE s == Fresh(p)
             f == [Row(p, state, m) EXCEPT !.missing =
                      IF Untracked(p) THEN "no" ELSE file[s].missing]
  <2>1. /\ s \in Rows /\ (Untracked(p) => file[s] = NoFile) /\ (~Untracked(p) => file[s].path = p)
    <3>1. FilesOK
      BY DEF Sound, TypeOK, Numbered, FilesOK
    <3> QED
      BY <1>6, <3>1, FreshRow DEF AddRow
  <2>2. file' = [file EXCEPT ![s] = f]
    BY <1>6 DEF AddRow
  <2>3. f.path = p /\ f # NoFile
    <3>1. f.path = p
      BY DEF Row
    <3>2. p # 0
      BY DEF Paths
    <3> QED
      BY <3>1, <3>2 DEF NoFile
  <2>4. /\ file'[s] = f /\ \A r \in Rows \ {s} : file'[r] = file[r]
    BY <1>1, <2>1, <2>2
  <2>5. s \in absent => file[s].path = p /\ f.missing = file[s].missing
    BY <1>3, <2>1 DEF Row
  <2> HIDE DEF f, s
  <2>6. \A r \in absent : Lingers(r)
    BY <1>3, <2>3, <2>4, <2>5 DEF Lingers
  <2> QED
    BY <2>1, <2>3, <2>4, <2>6 DEF s
<1>7. CASE IngestRefuses(p) \/ IngestNewRule(p)
  <2>1. pc' = pc /\ seen' = seen /\ at' = at
    BY <1>7 DEF IngestRefuses, IngestNewRule, Rest
  <2>2. \A r \in absent : Lingers(r)
    BY <1>6, <1>7 DEF IngestRefuses, IngestNewRule
  <2> QED
    BY <1>1, <1>2, <2>1, <2>2, PassReads
<1>8. CASE IngestNewFact(p)
  <2>1. /\ NewFile(p) /\ AddRow(p, "ok", New) /\ pc' = "adopt" /\ at' = Fresh(p)
        /\ seen' = [seen EXCEPT ![Fresh(p)] = New]
        /\ WriteMemory(disk[p].text, "plain", "vault", 0, {})
    BY <1>8 DEF IngestNewFact
  <2>2. New \in 0..MaxFacts /\ New # 0 /\ New \in Facts
    BY <2>1, VaultAssumption DEF Sound, TypeOK, WriteMemory, New, Facts
  <2>3. memory'[New] # NoFact
    <3>1. memory'[New].source = "vault"
      BY <2>1, <2>2 DEF WriteMemory
    <3> QED
      BY <3>1 DEF NoFact
  <2>4. /\ \A r \in absent : Lingers(r)
        /\ Fresh(p) \in Rows /\ file'[Fresh(p)] # NoFile /\ file'[Fresh(p)].path = p
    BY <1>6, <2>1
  <2>5. seen' \in [Rows -> 0..MaxFacts] /\ seen'[at'] = New /\ at' \in 0..MaxRows
    BY <1>1, <2>1, <2>2, <2>4, VaultAssumption DEF Rows
  <2> QED
    BY <1>1, <1>2, <1>4, <2>1, <2>2, <2>3, <2>4, <2>5, PassReads
<1>9. CASE IngestIgnores(p)
  <2>1. /\ seen' = seen /\ at' = at /\ pc' = pc
        /\ file' = [r \in Rows |-> IF Renamed(p, r)
                               THEN [file[r] EXCEPT !.path = p, !.missing = "no"] ELSE file[r]]
    BY <1>9 DEF IngestIgnores, Rest
  <2>2. ASSUME NEW r \in absent PROVE Lingers(r)
    <3>1. r \in Rows /\ file[r] \in File /\ p # 0
      BY <1>1, <1>3 DEF Paths
    <3>2. CASE Renamed(p, r)
      <4>1. file'[r] = [file[r] EXCEPT !.path = p, !.missing = "no"]
        BY <2>1, <3>1, <3>2
      <4>2. file'[r].path = p /\ file'[r].missing = "no"
        BY <3>1, <4>1 DEF File
      <4> QED
        BY <3>1, <4>2 DEF Lingers, NoFile
    <3>3. CASE ~Renamed(p, r)
      <4>1. file'[r] = file[r]
        BY <2>1, <3>1, <3>3
      <4> QED
        BY <1>3, <4>1 DEF Lingers
    <3> QED
      BY <3>2, <3>3
  <2> QED
    BY <1>1, <1>2, <2>1, <2>2, PassReads
<1> QED
  BY <1>5, <1>7, <1>8, <1>9

LEMMA EditPass ==
    ASSUME Sound, NEW p \in Paths, NEW r \in Rows,
           \/ IngestQuarantines(p, r) \/ IngestHolds(p, r) \/ IngestChange(p, r)
           \/ IngestCosmetic(p, r)
    PROVE  PassOK'
<1>1. /\ PassOK /\ file \in [Rows -> File \union {NoFile}] /\ seen \in [Rows -> 0..MaxFacts]
      /\ at \in 0..MaxRows /\ Reading /\ FilesOK /\ absent \subseteq Rows
  BY DEF Sound, TypeOK, PassOK, Numbered, FilesOK
<1>2. /\ Edited(p, r) /\ pc = "ingest" /\ UNCHANGED <<disk, manifest, at, pc>> /\ todo' \subseteq todo
      /\ absent' = IF Renamed(p, r) THEN absent \ {r} ELSE absent
  BY DEF IngestQuarantines, IngestHolds, IngestChange, IngestCosmetic, Edited, Reads, Turn, Done, vault
<1>3. \A q \in absent : q \in Rows /\ file[q] # NoFile
  BY <1>1, <1>2 DEF Reading, Rowed
<1>4. file[r] \in File
  BY <1>1, <1>2, EditedRow
<1>5. file'[r].path = p /\ (Renamed(p, r) \/ file'[r].missing = file[r].missing)
  <2>1. \A state : LET t == Taken(p, r, state)
                   IN  t.path = p /\ (Renamed(p, r) \/ t.missing = file[r].missing)
    BY <1>4 DEF Taken, File
  <2>2. \A state, m : LET t == [Taken(p, r, state) EXCEPT !.memory = m]
                      IN  t.path = p /\ (Renamed(p, r) \/ t.missing = file[r].missing)
    BY <1>4 DEF Taken, File
  <2>3. \/ \E state : file' = [file EXCEPT ![r] = Taken(p, r, state)]
        \/ file'[r] = [Taken(p, r, "ok") EXCEPT !.memory = New]
    BY MovedRows DEF IngestQuarantines, IngestHolds, IngestChange, IngestCosmetic
  <2>4. CASE \E state : file' = [file EXCEPT ![r] = Taken(p, r, state)]
    <3>1. PICK state : file' = [file EXCEPT ![r] = Taken(p, r, state)]
      BY <2>4
    <3>2. file'[r] = Taken(p, r, state)
      BY <1>1, <3>1
    <3> QED
      BY <2>1, <3>2
  <2>5. CASE file'[r] = [Taken(p, r, "ok") EXCEPT !.memory = New]
    BY <2>2, <2>5
  <2> QED
    BY <2>3, <2>4, <2>5
<1>6. ASSUME NEW q \in Rows \ {r}
      PROVE  file'[q] = file[q] \/ \E m : file'[q] = [file[q] EXCEPT !.memory = m]
  <2>1. CASE IngestChange(p, r)
    <3>1. file'[q] = Moved(seen[r])[q]
      BY <2>1, MovedRows DEF IngestChange
    <3>2. \/ Moved(seen[r])[q] = file[q]
          \/ Moved(seen[r])[q] = [file[q] EXCEPT !.memory = New]
      BY MovedRows
    <3> QED
      BY <3>1, <3>2
  <2>2. CASE ~IngestChange(p, r)
    BY <1>1, <2>2 DEF IngestQuarantines, IngestHolds, IngestCosmetic
  <2> QED
    BY <2>1, <2>2
<1>7. r \in absent' => file[r].path = p /\ ~Renamed(p, r)
  BY <1>2 DEF Edited, EditOf, RowsAt
<1>8. ASSUME NEW q \in absent' PROVE Lingers(q)
  <2>1. q \in absent /\ q \in Rows /\ file[q] \in File /\ file[q].path # 0
    BY <1>1, <1>2, <1>3, <1>8 DEF File, Paths
  <2>2. file'[q].path = file[q].path /\ file'[q].missing = file[q].missing
    <3>1. CASE q = r
      BY <1>5, <1>7, <1>8, <3>1
    <3>2. CASE q # r
      BY <1>6, <2>1, <3>2 DEF File
    <3> QED
      BY <3>1, <3>2
  <2> QED
    BY <2>1, <2>2 DEF NoFile, Lingers
<1>9. seen' \in [Rows -> 0..MaxFacts]
  <2>1. CASE seen' = seen
    BY <1>1, <2>1
  <2>2. CASE IngestChange(p, r)
    <3>1. New \in 0..MaxFacts
      BY <2>2, VaultAssumption DEF Sound, TypeOK, IngestChange, WriteMemory, New
    <3> QED
      BY <1>1, <2>2, <3>1 DEF IngestChange
  <2> QED
    BY <2>1, <2>2 DEF IngestQuarantines, IngestHolds, IngestCosmetic
<1> QED
  BY <1>1, <1>2, <1>8, <1>9, PassReads

LEMMA AdoptPass ==
    ASSUME Sound, Adopt \/ AdoptSwap \/ Adopted PROVE PassOK'
<1>1. /\ PassOK /\ file \in [Rows -> File \union {NoFile}] /\ seen \in [Rows -> 0..MaxFacts]
      /\ at \in 0..MaxRows /\ Reading /\ pc \in {"adopt", "adopting", "adopted"}
      /\ disk \in [Paths -> Content \union {None}]
  BY DEF Sound, TypeOK, PassOK, Adopt, AdoptSwap, Adopted
<1>2. /\ at \in Rows /\ file[at] \in File /\ manifest[file[at].path] # None /\ seen[at] # 0
      /\ memory[seen[at]] # NoFact
      /\ \A q \in absent : q \in Rows /\ file[q] \in File
  BY <1>1 DEF Reading, Rowed, Exists
<1>3. CASE Adopt \/ AdoptSwap
  <2>1. /\ UNCHANGED <<file, memory, manifest, absent, seen, at>>
        /\ pc' \in {"adopting", "adopted", "ingest"} /\ todo' \subseteq todo
        /\ \A q \in Paths \ {file[at].path} : disk'[q] = disk[q]
    BY <1>1, <1>3 DEF Adopt, AdoptSwap, db, vault, Put
  <2>2. \A q \in Paths : manifest[q] = None => disk'[q] = disk[q]
    BY <1>2, <2>1
  <2>3. \A q \in absent : Lingers(q)
    BY <1>2, <2>1, NoFileIsNone DEF Lingers
  <2> QED
    BY <1>1, <1>2, <2>1, <2>2, <2>3, NoFileIsNone, PassReads
<1>4. CASE Adopted
  <2> DEFINE f == [file[at] EXCEPT !.disk = Render(seen[at]), !.digest = Render(seen[at])]
  <2>1. /\ UNCHANGED <<disk, manifest, absent, seen, at>> /\ pc' = "ingest"
        /\ todo' \subseteq todo /\ file' = [file EXCEPT ![at] = f]
    BY <1>1, <1>2, <1>4 DEF Adopted, vault
  <2>2. f.path = file[at].path /\ f.path # 0 /\ f.missing = file[at].missing
    BY <1>2 DEF File, Paths
  <2>3. ASSUME NEW q \in absent PROVE Lingers(q)
    <3>1. CASE q = at
      <4>1. file'[q] = f
        BY <1>1, <1>2, <2>1, <3>1
      <4> HIDE DEF f
      <4> QED
        BY <2>2, <3>1, <4>1 DEF NoFile, Lingers
    <3>2. CASE q # at
      BY <1>1, <1>2, <2>1, <3>2, NoFileIsNone DEF Lingers
    <3> QED
      BY <3>1, <3>2
  <2> QED
    BY <1>1, <2>1, <2>3, PassReads
<1> QED
  BY <1>3, <1>4

LEMMA DeletePass ==
    ASSUME Sound, NoneDue \/ AskForAll \/ ForgetMissing PROVE PassOK'
<1>1. /\ pc' = "follow" /\ todo' = {} /\ absent' = {} /\ UNCHANGED <<manifest, at>>
      /\ \A r \in Rows : seen' = seen \/ seen' = [q \in Rows |-> IF q \in Due THEN 0 ELSE seen[q]]
  BY DEF NoneDue, AskForAll, ForgetMissing, Deleting
<1>2. seen' \in [Rows -> 0..MaxFacts]
  BY VaultAssumption DEF NoneDue, AskForAll, ForgetMissing, Sound, TypeOK
<1>3. Reading' /\ Dropping' /\ Writing' /\ pc' \in PCs
  BY <1>1 DEF Reading, Dropping, Writing, PCs
<1>4. at' \in 0..MaxRows /\ manifest' \in [Paths -> Content \union {None}]
  BY <1>1 DEF Sound, TypeOK
<1> QED
  BY <1>1, <1>2, <1>3, <1>4, PassIs

LEMMA FollowPass ==
    ASSUME Sound, FollowHeads PROVE PassOK'
<1>1. /\ PassOK /\ file \in [Rows -> File \union {NoFile}] /\ seen \in [Rows -> 0..MaxFacts]
      /\ manifest \in [Paths -> Content \union {None}] /\ absent \subseteq Rows /\ at \in 0..MaxRows
  BY DEF Sound, TypeOK, PassOK
<1>2. /\ seen' = [r \in Rows |-> IF r \in Superseded THEN Followed(r) ELSE seen[r]]
      /\ file' = [r \in Rows |-> IF r \in Superseded
                               THEN [file[r] EXCEPT !.memory = Followed(r)] ELSE file[r]]
      /\ todo' \subseteq {r \in Rowed : file[r].state \notin {"held", "quarantined"}}
      /\ pc' = "drop" /\ UNCHANGED <<manifest, absent, at>>
  BY DEF FollowHeads
<1>3. seen' \in [Rows -> 0..MaxFacts]
  BY <1>1, <1>2, FollowedFact
<1>4. ASSUME NEW r \in todo'
      PROVE  file'[r] # NoFile /\ file'[r].state \notin {"held", "quarantined"}
  <2>1. r \in Rows /\ file[r] \in File /\ file[r].state \notin {"held", "quarantined"}
    BY <1>1, <1>2, <1>4 DEF Rowed
  <2>2. file'[r] = file[r] \/ \E m : file'[r] = [file[r] EXCEPT !.memory = m]
    BY <1>2, <2>1
  <2>3. file'[r].state = file[r].state /\ file[r].state # "none"
    BY <2>1, <2>2 DEF File
  <2> QED
    BY <2>1, <2>3, NoFileIsNone
<1>5. todo' \subseteq Rows
  BY <1>2 DEF Rowed
<1> QED
  BY <1>1, <1>2, <1>3, <1>4, <1>5, PassDrops

LEMMA DropPass ==
    ASSUME Sound, DropSwap \/ DropRaises \/ DropRow \/ \E r \in Rows : DropFile(r) PROVE PassOK'
<1>1. /\ PassOK /\ file \in [Rows -> File \union {NoFile}] /\ seen \in [Rows -> 0..MaxFacts]
      /\ manifest \in [Paths -> Content \union {None}] /\ absent \subseteq Rows /\ at \in 0..MaxRows
      /\ Dropping
  BY DEF Sound, TypeOK, PassOK
<1>2. pc \in {"drop", "dropping", "dropped"}
  BY DEF DropSwap, DropRaises, DropRow, DropFile, DropTurn
<1>3. /\ \A r \in todo : r \in Rows /\ file[r] # NoFile /\ file[r].state \notin {"held", "quarantined"}
      /\ pc # "drop" => at \in todo
  BY <1>1, <1>2 DEF Dropping, Rowed
<1>4. CASE DropRow
  <2>1. /\ file' = [file EXCEPT ![at] = NoFile] /\ pc' = "drop" /\ todo' = todo \ {at} /\ at' = 0
        /\ manifest' = [manifest EXCEPT ![file[at].path] = None] /\ UNCHANGED <<absent, seen>>
    BY <1>4 DEF DropRow
  <2>2. \A r \in todo' : file'[r] # NoFile /\ file'[r].state \notin {"held", "quarantined"}
    BY <1>1, <1>3, <2>1
  <2>3. manifest' \in [Paths -> Content \union {None}]
    BY <1>1, <2>1
  <2>4. at' \in 0..MaxRows /\ todo' \subseteq Rows
    BY <1>3, <2>1, VaultAssumption
  <2> QED
    BY <1>1, <2>1, <2>2, <2>3, <2>4, PassDrops
<1>5. ASSUME NEW r \in Rows, DropFile(r) PROVE PassOK'
  <2>1. /\ file' = file /\ UNCHANGED <<manifest, absent, seen>> /\ r \in todo /\ todo' \subseteq todo
        /\ \/ pc' \in {"dropping", "dropped"} /\ at' = r /\ todo' = todo
           \/ pc' = pc /\ pc = "drop" /\ at' = at
    BY <1>5 DEF DropFile, DropTurn, db
  <2>2. at' \in 0..MaxRows /\ todo' \subseteq Rows
    BY <1>1, <1>3, <2>1, VaultAssumption DEF Rows
  <2> QED
    BY <1>1, <1>3, <2>1, <2>2, PassDrops
<1>6. CASE DropSwap
  <2>1. /\ UNCHANGED <<file, manifest, absent, seen, todo, at>>
        /\ pc = "dropping" /\ pc' = "dropped"
    BY <1>6 DEF DropSwap, db
  <2>2. todo' \subseteq Rows
    BY <1>3, <2>1
  <2> QED
    BY <1>1, <1>3, <2>1, <2>2, PassDrops
<1>7. CASE DropRaises
  BY <1>1, <1>7, PassIdle DEF DropRaises
<1> QED
  BY <1>4, <1>5, <1>6, <1>7

LEMMA WritePass ==
    ASSUME Sound, Views \/ Write \/ Record PROVE PassOK'
<1>1. /\ PassOK /\ file \in [Rows -> File \union {NoFile}] /\ seen \in [Rows -> 0..MaxFacts]
      /\ manifest \in [Paths -> Content \union {None}] /\ absent \subseteq Rows /\ at \in 0..MaxRows
      /\ Writing /\ lastFile \in 0..MaxRows
      /\ pc \in {"write", "writing", "record"} => todo \subseteq Content
  BY DEF Sound, TypeOK, PassOK
<1>2. CASE Views
  <2>1. /\ pc' = "write" /\ UNCHANGED <<manifest, absent, seen, at>>
        /\ todo' = {Render(m) : m \in Active}
    BY <1>2 DEF Views
  <2>2. \A m \in Active : Render(m) \in Content /\ Render(m).anchor # 0
    BY RenderOf DEF Sound, Active, Exists
  <2> QED
    BY <1>1, <2>1, <2>2, PassWrites
<1>3. CASE WriteRow(FirstView)
  <2>1. /\ pc = "write" /\ pc' = pc /\ UNCHANGED <<manifest, absent, todo, at>>
        /\ seen' = [seen EXCEPT ![lastFile + 1] = FirstView.anchor] /\ todo # {}
    BY <1>3 DEF WriteRow, WriteTurn
  <2>2. FirstView.anchor \in 0..MaxFacts
    BY <2>1, FirstViewOf DEF Sound
  <2>3. seen' \in [Rows -> 0..MaxFacts]
    BY <1>1, <2>1, <2>2
  <2>4. \A v \in todo : v.anchor # 0
    BY <1>1, <2>1 DEF Writing
  <2> QED
    BY <1>1, <2>1, <2>3, <2>4, PassWrites
<1>4. CASE WriteFile(FirstView)
  <2> DEFINE r == Latest(FirstView)
  <2>1. /\ pc = "write" /\ pc' \in {"writing", "record"}
        /\ UNCHANGED <<file, manifest, absent, seen, todo>>
        /\ at' = r /\ todo # {} /\ RowsOf(FirstView) # {} /\ file[r].state \in {"ok", "restore"}
    BY <1>4 DEF WriteFile, WriteTurn, CreateOnly, Current, db
  <2>2. r \in Rows /\ file[r] # NoFile
    BY <2>1, LatestOf DEF Rowed
  <2>3. \A v \in todo : v.anchor # 0
    BY <1>1, <2>1 DEF Writing
  <2>4. r \in 0..MaxRows
    BY <2>2, VaultAssumption DEF Rows
  <2> HIDE DEF r
  <2> QED
    BY <1>1, <2>1, <2>2, <2>3, <2>4, PassWrites
<1>5. CASE WriteQuarantines(FirstView) \/ WriteSkips(FirstView)
  <2>1. pc = "write" /\ pc' = pc /\ UNCHANGED <<manifest, absent, seen, at>> /\ todo' \subseteq todo
    BY <1>5 DEF WriteQuarantines, WriteSkips, WriteTurn, Rest
  <2>2. \A v \in todo' : v.anchor # 0
    BY <1>1, <2>1 DEF Writing
  <2> QED
    BY <1>1, <2>1, <2>2, PassWrites
<1>6. CASE WriteRaises(FirstView)
  BY <1>1, <1>6, PassIdle DEF WriteRaises
<1>8. CASE WriteSwap
  <2>1. /\ pc = "writing" /\ pc' = "record"
        /\ UNCHANGED <<file, manifest, absent, seen, todo, at>>
    BY <1>8 DEF WriteSwap, db
  <2>2. /\ todo # {} /\ at \in Rows /\ file[at] # NoFile /\ file[at].state \in {"ok", "restore"}
        /\ \A v \in todo : v.anchor # 0
    BY <1>1, <2>1 DEF Writing, Rowed
  <2> QED
    BY <1>1, <2>1, <2>2, PassWrites
<1>7. CASE Record
  <2>1. /\ pc = "record" /\ pc' = "write" /\ at' = 0 /\ UNCHANGED <<manifest, absent, seen>>
        /\ todo' \subseteq todo
    BY <1>7 DEF Record
  <2>2. at' \in 0..MaxRows /\ \A v \in todo' : v.anchor # 0
    BY <1>1, <2>1, VaultAssumption DEF Writing
  <2> QED
    BY <1>1, <2>1, <2>2, PassWrites
<1> QED
  BY <1>2, <1>3, <1>4, <1>5, <1>6, <1>7, <1>8 DEF Write

LEMMA PassNext ==
    ASSUME Sound, [Next]_vars PROVE PassOK'
<1>1. PassOK
  BY DEF Sound, TypeOK, PassOK
<1>2. Ingest => PassOK'
  <2>1. \A p \in Paths : IngestRaises(p) => PassOK'
    BY <1>1, PassIdle DEF IngestRaises
  <2> QED
    BY <2>1, IngestPass, EditPass, AdoptPass DEF Ingest
<1>3. Pass => PassOK'
  <2>1. \A which \in SUBSET Rows, all \in {{}, mass} : ExpireHolds(which, all) => PassOK'
    BY <1>1, PassIdle DEF ExpireHolds
  <2> QED
    BY <1>2, <2>1, StartOK, DeletePass, FollowPass, DropPass, WritePass DEF Pass
<1>4. (\E m, n \in Facts : Consolidate(m, n)) \/ (\E r \in Rows : GraceElapses(r)) \/ WindowMoves
      => PassOK'
  <2>1. (\E m, n \in Facts : Consolidate(m, n)) => pc = "idle" /\ UNCHANGED pass
    BY DEF Consolidate, Ops
  <2>2. (\E r \in Rows : GraceElapses(r)) \/ WindowMoves => pc = "idle" /\ UNCHANGED pass
    BY DEF GraceElapses, WindowMoves
  <2> QED
    BY <1>1, <2>1, <2>2, PassIdle
<1>5. PassStops => PassOK'
  BY <1>1, PassIdle DEF PassStops
<1>6. UNCHANGED vars => PassOK'
  <2>1. UNCHANGED vars => UNCHANGED <<pass, file, memory, disk>>
    BY DEF vars, db, vault
  <2>2. pc = "ingest" /\ file' = file => \A r \in absent : Lingers(r)
    BY DEF Sound, Reading, Rowed, Lingers
  <2> QED
    BY <2>1, <2>2, PassStays
<1> QED
  BY <1>3, <1>4, <1>5, <1>6, UserPass DEF Next

-----------------------------------------------------------------------------
(* The invariant is one.                                                    *)

RestOK ==
    /\ window \in Nat /\ edits \in Nat /\ events \in Nat
    /\ away \in [Rows -> {"no", "new", "old"}] /\ hasty \subseteq Rows
    /\ unread \subseteq Paths /\ lost \subseteq Paths \X {"recorded", "unrecorded", "raced"}
    /\ agreed \subseteq Kinds \X Texts /\ crossed \subseteq Facts

LEMMA SoundIs ==
    Sound <=> MemoryOK /\ FilesOK /\ VaultOK /\ PassOK /\ RestOK
BY DEF Sound, TypeOK, Numbered, MemoryOK, FilesOK, VaultOK, PassOK, RestOK

\* Most steps only count, or have the user's words read.
LEMMA RestKept ==
    ASSUME RestOK, window' = window, edits' \in {edits, edits + 1}, events' \in {events, events + 1},
           away' \in [Rows -> {"no", "new", "old"}], hasty' = hasty, unread' \subseteq Paths,
           lost' \subseteq Paths \X {"recorded", "unrecorded", "raced"},
           agreed' \subseteq Kinds \X Texts, crossed' \subseteq Facts
    PROVE  RestOK'
BY DEF RestOK, Rows, Paths, Own, Kinds, Texts, Facts

LEMMA PutRest ==
    ASSUME unread \subseteq Paths, lost \subseteq Paths \X {"recorded", "unrecorded", "raced"},
           NEW r, NEW c, Put(r, c)
    PROVE  unread' \subseteq Paths /\ lost' \subseteq Paths \X {"recorded", "unrecorded", "raced"}
<1>1. \/ lost' = lost
      \/ \E how \in {"recorded", "unrecorded", "raced"} :
            file[r].path \in unread /\ lost' = lost \union {<<file[r].path, how>>}
  BY DEF Put
<1> QED
  BY <1>1 DEF Put

LEMMA RestUser ==
    ASSUME Sound, User \/ \E m, n \in Facts : Consolidate(m, n) PROVE RestOK'
<1>1. RestOK
  BY SoundIs
<1>2. /\ unread \subseteq Paths /\ lost \subseteq Paths \X {"recorded", "unrecorded", "raced"}
      /\ agreed \subseteq Kinds \X Texts /\ crossed \subseteq Facts
      /\ away \in [Rows -> {"no", "new", "old"}]
      /\ hold \in [Rows -> RuleHold \union {NoHold}] /\ origin \in [Facts -> SUBSET Facts]
  BY DEF Sound, TypeOK
<1>3. ASSUME NEW p \in Paths,
             UserWrites(p) \/ UserRemoves(p) \/ UserReturns(p) \/ UserCopies(p)
      PROVE  RestOK'
  <2>1. PICK q \in Paths : Touches(q) /\ \E c : Holds(q, c)
    BY <1>3, VaultAssumption DEF UserWrites, UserRemoves, UserReturns, UserCopies, Paths, Own
  <2>2. unread' \subseteq Paths
    BY <1>2, <2>1 DEF Holds
  <2>3. /\ window' = window /\ edits' = edits + 1 /\ events' = events + 1
        /\ UNCHANGED <<away, hasty, lost, agreed, crossed>>
    BY <2>1 DEF Touches, Event, db
  <2> QED
    BY <1>1, <1>2, <2>2, <2>3, RestKept
<1>4. ASSUME (\E m \in Facts : WebEdit(m) \/ Forget(m)) \/ \E m, n \in Facts : Consolidate(m, n)
      PROVE  RestOK'
  <2>1. window' = window /\ edits' = edits /\ events' = events + 1
        /\ UNCHANGED <<away, hasty, lost, agreed>>
    BY <1>4 DEF WebEdit, Forget, Consolidate, Ops, Event
  <2>2. unread' \subseteq Paths /\ crossed' \subseteq Facts
    BY <1>2, <1>4 DEF WebEdit, Forget, Consolidate
  <2> QED
    BY <1>1, <1>2, <2>1, <2>2, RestKept
<1>5. ASSUME NEW r \in Rows, Refuse(r) \/ Agree(r) PROVE RestOK'
  <2>1. /\ window' = window /\ UNCHANGED <<edits, events, away, hasty, lost, crossed>>
        /\ unread' \subseteq unread
    BY <1>5 DEF Refuse, Agree, Settled, bounds
  <2>2. agreed' \subseteq Kinds \X Texts
    <3>1. CASE agreed' = agreed
      BY <1>2, <3>1
    <3>2. CASE Agree(r)
      <4>1. hold[r].kind \in Kinds /\ hold[r].text \in Texts
        BY <1>2, <3>2 DEF Agree, RuleHold
      <4>2. agreed' = agreed \union {<<hold[r].kind, hold[r].text>>}
        BY <3>2 DEF Agree
      <4> QED
        BY <1>2, <4>1, <4>2
    <3> QED
      BY <1>5, <3>1, <3>2 DEF Refuse
  <2> QED
    BY <1>1, <1>2, <2>1, <2>2, RestKept
<1>6. CASE KeepAll \/ ForgetAll
  <2>1. /\ window' = window /\ UNCHANGED <<edits, events, away, hasty, lost, agreed, crossed>>
        /\ unread' \subseteq unread
    BY <1>6 DEF KeepAll, ForgetAll, bounds, history
  <2> QED
    BY <1>1, <1>2, <2>1, RestKept
<1> QED
  BY <1>3, <1>4, <1>5, <1>6 DEF User

LEMMA RestPass ==
    ASSUME Sound, Pass PROVE RestOK'
<1>1. RestOK
  BY SoundIs
<1>2. /\ unread \subseteq Paths /\ lost \subseteq Paths \X {"recorded", "unrecorded", "raced"}
      /\ agreed \subseteq Kinds \X Texts /\ crossed \subseteq Facts /\ hasty \subseteq Rows
      /\ away \in [Rows -> {"no", "new", "old"}] /\ window \in Nat /\ absent \subseteq Rows
      /\ edits \in Nat /\ events \in Nat
  BY DEF Sound, TypeOK
<1>3. ASSUME UNCHANGED <<window, edits, events, away, hasty, agreed, crossed>>,
             unread' \subseteq Paths, lost' \subseteq Paths \X {"recorded", "unrecorded", "raced"}
      PROVE  RestOK'
  BY <1>1, <1>2, <1>3, RestKept
<1>4. CASE StartPass
  <2>1. /\ UNCHANGED <<window, edits, events, hasty, unread, lost, agreed, crossed>>
        /\ away' = [r \in Rows |-> IF r \notin absent' THEN "no"
                               ELSE IF away[r] = "no" THEN "new" ELSE away[r]]
    BY <1>4 DEF StartPass, db, bounds
  <2>2. away' \in [Rows -> {"no", "new", "old"}]
    BY <1>2, <2>1
  <2> QED
    BY <1>1, <1>2, <2>1, <2>2, RestKept
<1>5. CASE Ingest
  <2>1. ASSUME NEW p \in Paths, \/ IngestLater(p) \/ IngestRaises(p) \/ IngestRefuses(p)
                                \/ IngestNewRule(p) \/ IngestNewFact(p)
        PROVE  /\ UNCHANGED <<window, edits, events, away, hasty, agreed, crossed, lost>>
               /\ unread' \subseteq unread
    BY <2>1 DEF IngestLater, IngestRaises, IngestRefuses, IngestNewRule, IngestNewFact,
                history, bounds, db
  <2>2. ASSUME NEW p \in Paths, NEW r \in Rows,
               \/ IngestSkips(p, r) \/ IngestQuarantines(p, r) \/ IngestHolds(p, r)
               \/ IngestChange(p, r) \/ IngestCosmetic(p, r)
        PROVE  /\ UNCHANGED <<window, edits, events, away, hasty, agreed, crossed, lost>>
               /\ unread' \subseteq unread
    BY <2>2 DEF IngestSkips, IngestQuarantines, IngestHolds, IngestChange, IngestCosmetic,
                history, bounds, db
  <2>3. ASSUME NEW p \in Paths, IngestIgnores(p)
        PROVE  /\ UNCHANGED <<window, edits, events, away, hasty, agreed, crossed, lost>>
               /\ unread' \subseteq unread
    BY <2>3 DEF IngestIgnores, bounds
  <2>4. CASE AdoptSwap
    <3>1. Put(at, Render(seen[at])) /\ UNCHANGED <<window, edits, events, away, hasty, agreed, crossed>>
      BY <2>4 DEF AdoptSwap, bounds, db
    <3> QED
      BY <1>2, <1>3, <3>1, PutRest
  <2>5. CASE Adopt \/ Adopted
    BY <1>2, <1>3, <2>5 DEF Adopt, Adopted, history, bounds, db
  <2>6. ASSUME UNCHANGED <<window, edits, events, away, hasty, agreed, crossed, lost>>,
               unread' \subseteq unread
        PROVE  RestOK'
    BY <1>2, <1>3, <2>6
  <2>7. ASSUME NEW p \in Paths,
               \/ IngestLater(p) \/ IngestRaises(p) \/ IngestRefuses(p)
               \/ IngestNewRule(p) \/ IngestNewFact(p) \/ IngestIgnores(p)
        PROVE  RestOK'
    BY <2>1, <2>3, <2>6, <2>7
  <2>8. ASSUME NEW p \in Paths, NEW r \in Rows,
               \/ IngestSkips(p, r) \/ IngestQuarantines(p, r) \/ IngestHolds(p, r)
               \/ IngestChange(p, r) \/ IngestCosmetic(p, r)
        PROVE  RestOK'
    BY <2>2, <2>6, <2>8
  <2> QED
    BY <1>5, <2>4, <2>5, <2>7, <2>8 DEF Ingest
<1>6. CASE (\E r \in Rows : DropFile(r)) \/ DropRaises
  <2>1. UNCHANGED <<window, edits, events, away, hasty, agreed, crossed, lost, unread>>
    BY <1>6 DEF DropFile, DropRaises, bounds, db, history
  <2> QED
    BY <1>2, <1>3, <2>1
<1>7. CASE DropSwap
  <2>1. Put(at, None) /\ UNCHANGED <<window, edits, events, away, hasty, agreed, crossed>>
    BY <1>7 DEF DropSwap, bounds, db
  <2> QED
    BY <1>2, <1>3, <2>1, PutRest
<1>8. CASE Write
  <2>1. CASE WriteFile(FirstView)
    <3>1. UNCHANGED <<window, edits, events, away, hasty, agreed, crossed>>
      BY <2>1 DEF WriteFile, bounds, db
    <3>2. Put(Latest(FirstView), FirstView) \/ UNCHANGED <<lost, unread>>
      BY <2>1 DEF WriteFile
    <3> QED
      BY <1>2, <1>3, <3>1, <3>2, PutRest
  <2>2. CASE WriteSwap
    <3>1. Put(at, FirstView) /\ UNCHANGED <<window, edits, events, away, hasty, agreed, crossed>>
      BY <2>2 DEF WriteSwap, bounds, db
    <3> QED
      BY <1>2, <1>3, <3>1, PutRest
  <2>3. \/ WriteRow(FirstView) \/ WriteQuarantines(FirstView) \/ WriteRaises(FirstView)
        \/ WriteSkips(FirstView)
        => UNCHANGED <<window, edits, events, away, hasty, agreed, crossed, lost, unread>>
    BY DEF WriteRow, WriteQuarantines, WriteRaises, WriteSkips, history, bounds, db
  <2> QED
    BY <1>2, <1>3, <1>8, <2>1, <2>2, <2>3 DEF Write
<1>9. CASE ForgetMissing
  <2> DEFINE named == {r \in Due : seen[r] # 0}
  <2>1. /\ window' = window + Cardinality(named)
        /\ hasty' = hasty \union {r \in named : away[r] # "old"}
        /\ unread' \subseteq unread
        /\ UNCHANGED <<edits, events, away, lost, agreed, crossed>>
    BY <1>9 DEF ForgetMissing, Deleting, bounds
  <2>2. named \subseteq Rows
    BY <1>2 DEF Due, Missing
  <2>3. Cardinality(named) \in Nat
    <3>1. IsFiniteSet(Rows)
      BY FS_Interval, VaultAssumption DEF Rows
    <3> QED
      BY <2>2, <3>1, FS_Subset, FS_CardinalityType
  <2>4. hasty' \subseteq Rows /\ unread' \subseteq Paths
    BY <1>2, <2>1, <2>2
  <2>5. window' \in Nat
    BY <1>2, <2>1, <2>3
  <2> HIDE DEF named
  <2> QED
    BY <1>2, <2>1, <2>4, <2>5 DEF RestOK, Rows, Paths, Own, Kinds, Texts, Facts
<1>10. NoneDue \/ AskForAll \/ FollowHeads \/ DropRow \/ Views \/ Record => RestOK'
  <2>1. NoneDue \/ AskForAll \/ FollowHeads \/ DropRow \/ Views \/ Record
        => UNCHANGED <<window, edits, events, away, hasty, agreed, crossed, lost, unread>>
    BY DEF NoneDue, AskForAll, Deleting, FollowHeads, DropRow, Views, Record, history, bounds, db
  <2> QED
    BY <1>2, <1>3, <2>1
<1>11. ASSUME NEW which \in SUBSET Rows, NEW all \in {{}, mass}, ExpireHolds(which, all)
       PROVE  RestOK'
  <2>1. UNCHANGED <<window, edits, events, away, hasty, agreed, crossed, lost>> /\ unread' \subseteq unread
    BY <1>11 DEF ExpireHolds, bounds
  <2> QED
    BY <1>2, <1>3, <2>1
<1> QED
  BY <1>4, <1>5, <1>6, <1>7, <1>8, <1>9, <1>10, <1>11 DEF Pass

LEMMA RestNext ==
    ASSUME Sound, [Next]_vars PROVE RestOK'
<1>1. RestOK
  BY SoundIs
<1>2. /\ unread \subseteq Paths /\ lost \subseteq Paths \X {"recorded", "unrecorded", "raced"}
      /\ agreed \subseteq Kinds \X Texts /\ crossed \subseteq Facts
      /\ away \in [Rows -> {"no", "new", "old"}] /\ hasty \subseteq Rows /\ window \in Nat
  BY DEF Sound, TypeOK
<1>3. ASSUME NEW r \in Rows, GraceElapses(r) PROVE RestOK'
  <2>1. /\ UNCHANGED <<window, edits, events, hasty, unread, lost, agreed, crossed>>
        /\ away' \in [Rows -> {"no", "new", "old"}]
    BY <1>2, <1>3 DEF GraceElapses, bounds
  <2> QED
    BY <1>1, <1>2, <2>1, RestKept
<1>4. CASE WindowMoves
  <2>1. /\ UNCHANGED <<edits, events, away, hasty, unread, lost, agreed, crossed>>
        /\ window' \in Nat
    BY <1>2, <1>4 DEF WindowMoves, bounds, history
  <2> QED
    BY <1>1, <2>1 DEF RestOK, Rows, Paths, Own, Kinds, Texts, Facts
<1>5. CASE PassStops \/ UNCHANGED vars
  <2>1. /\ UNCHANGED <<window, edits, away, hasty, unread, lost, agreed, crossed>>
        /\ events' \in {events, events + 1}
    BY <1>5 DEF PassStops, Event, vars, db, history, bounds
  <2> QED
    BY <1>1, <1>2, <2>1, RestKept
<1> QED
  BY <1>3, <1>4, <1>5, RestUser, RestPass DEF Next

LEMMA SoundNext == Sound /\ [Next]_vars => Sound'
<1>1. Sound' <=> (MemoryOK /\ FilesOK /\ VaultOK /\ PassOK /\ RestOK)'
  BY SoundIs, PTL
<1> QED
  BY <1>1, MemoryNext, FilesNext, VaultNext, PassNext, RestNext

LEMMA SoundInit == Init => Sound
<1> SUFFICES ASSUME Init PROVE Sound
  OBVIOUS
<1>1. lastFact = 2 /\ lastFact \in 0..MaxFacts /\ lastFile = 2 /\ lastFile \in 0..MaxRows
  BY VaultAssumption DEF Init
<1>2. ASSUME NEW r \in Rows
      PROVE  /\ r <= 2 => file[r] = Synced(r) /\ Synced(r) \in File /\ Synced(r).path = r
             /\ r > 2 => file[r] = NoFile
             /\ Synced(r).memory = r /\ Synced(r).state = "ok"
  <2>1. file = [q \in Rows |-> IF q <= lastFile THEN Synced(q) ELSE NoFile]
    BY DEF Init
  <2>2. r <= 2 => r \in Texts /\ r \in Paths /\ r \in 0..MaxFacts
    BY VaultAssumption DEF Rows, Texts, Paths, Own
  <2>3. r <= 2 => [anchor |-> r, text |-> r, kind |-> "plain"] \in Content
    BY <2>2 DEF Content, Kinds
  <2>4. r <= 2 => Synced(r) \in File
    BY <2>2, <2>3 DEF Synced, File
  <2> QED
    BY <1>1, <2>1, <2>4 DEF Synced, Rows
<1>3. MemoryOK
  <2>1. ASSUME NEW m \in Facts
        PROVE  /\ memory[m] \in Fact \union {NoFact} /\ memory[m].next = 0
               /\ m > lastFact => memory[m] = NoFact
    <3>1. CASE m <= lastFact
      <4>1. memory[m] = [text |-> m, kind |-> "plain", source |-> "extractor", next |-> 0]
        BY <3>1 DEF Init
      <4>2. m \in Texts
        BY <1>1, <3>1 DEF Facts, Texts
      <4> QED
        BY <1>1, <3>1, <4>1, <4>2, VaultAssumption DEF Fact, Kinds, Facts
    <3>2. CASE ~(m <= lastFact)
      BY <3>2 DEF Init, NoFact
    <3> QED
      BY <3>1, <3>2
  <2>2. memory \in [Facts -> Fact \union {NoFact}]
    BY <2>1 DEF Init
  <2>3. origin \in [Facts -> SUBSET Facts]
    BY DEF Init
  <2>4. Rooted
    <3> SUFFICES ASSUME NEW S \in SUBSET Facts, S # {} PROVE \E k \in S : memory[k].next \notin S
      BY DEF Rooted
    <3>1. PICK k \in S : k \in Facts
      OBVIOUS
    <3> QED
      BY <2>1, <3>1 DEF Facts
  <2>5. \E h : Leads(h)
    <3>1. PICK h : h = [m \in Facts |-> m]
      OBVIOUS
    <3>2. h = [m \in Facts |-> IF memory[m].next = 0 THEN m ELSE h[memory[m].next]]
      BY <2>1, <3>1
    <3> QED
      BY <3>2 DEF Leads
  <2> QED
    BY <1>1, <2>1, <2>2, <2>3, <2>4, <2>5, VaultAssumption DEF MemoryOK, Chained
<1>4. FilesOK
  <2>1. file \in [Rows -> File \union {NoFile}]
    BY <1>2 DEF Init, Rows
  <2>2. \A r \in Rows : r > lastFile => file[r] = NoFile
    BY <1>1, <1>2
  <2>3. OneRow
    <3>1. \A r \in Rowed : r \in Rows /\ file[r].path = r
      BY <1>2 DEF Rowed, Rows
    <3> QED
      BY <3>1 DEF OneRow
  <2>4. hold \in [Rows -> RuleHold \union {NoHold}] /\ mass \subseteq Rows /\ Asked
    BY DEF Init, Asked
  <2> QED
    BY <1>1, <2>1, <2>2, <2>3, <2>4 DEF FilesOK
<1>5. VaultOK
  <2>1. ASSUME NEW p \in Paths PROVE disk[p] \in Content \union {None}
    <3>1. CASE p <= lastFile
      <4>1. disk[p] = [anchor |-> p, text |-> p, kind |-> "plain"]
        BY <3>1 DEF Init, Synced
      <4>2. p \in Texts /\ p \in 0..MaxFacts
        BY <1>1, <3>1, VaultAssumption DEF Paths, Own, Texts
      <4> QED
        BY <4>1, <4>2 DEF Content, Kinds
    <3>2. CASE ~(p <= lastFile)
      BY <3>2 DEF Init
    <3> QED
      BY <3>1, <3>2
  <2> QED
    BY <2>1 DEF VaultOK, Init
<1>6. PassOK
  <2>1. pc = "idle"
    BY DEF Init
  <2>2. Reading /\ Dropping /\ Writing
    BY <2>1 DEF Reading, Dropping, Writing
  <2> QED
    BY <2>2, VaultAssumption DEF Init, PassOK, PCs
<1>7. RestOK
  BY DEF Init, RestOK
<1> QED
  BY <1>3, <1>4, <1>5, <1>6, <1>7, SoundIs

-----------------------------------------------------------------------------
(* What nobody has read.                                                    *)

\* Row r waits for the user, or has no hash of the unread content at its path.
Calm(r) ==
    (/\ file[r] # NoFile /\ file[r].path \in unread
     /\ file[r].disk = disk[file[r].path])
    => file[r].state = "quarantined" \/ (file[r].state = "held" /\ r \notin mass)

Unseen ==
    /\ \A p \in unread : disk[p] # None
    /\ \A r \in Rows : Calm(r)
    /\ pc \in {"adopt", "adopting"} => file[at].state = "ok"
    /\ pc \in {"adopted", "record"} => file[at].path \notin unread

\* Nothing new is unread; a row goes, or stays as it was, or is calm.
LEMMA UnseenKept ==
    ASSUME Unseen, \A p \in unread' : p \in unread /\ disk'[p] = disk[p],
           \A r \in Rows : \/ file'[r] = NoFile \/ Calm(r)'
                           \/ /\ file[r] # NoFile /\ file'[r].path = file[r].path
                              /\ file'[r].disk = file[r].disk /\ file'[r].state = file[r].state
                              /\ r \in mass' => r \in mass,
           pc' \in {"adopt", "adopting"} => file'[at'].state = "ok",
           pc' \in {"adopted", "record"} => file'[at'].path \notin unread'
    PROVE  Unseen'
<1>1. \A p \in unread' : disk'[p] # None
  BY DEF Unseen
<1>2. ASSUME NEW r \in Rows PROVE Calm(r)'
  <2>1. CASE file'[r] = NoFile
    BY <2>1 DEF Calm
  <2>2. CASE /\ file[r] # NoFile /\ file'[r].path = file[r].path
             /\ file'[r].disk = file[r].disk /\ file'[r].state = file[r].state
             /\ r \in mass' => r \in mass
    BY <2>2 DEF Calm, Unseen
  <2> QED
    BY <2>1, <2>2
<1> QED
  BY <1>1, <1>2 DEF Unseen, Rows

\* The same where only what is not looked at here changes.
LEMMA UnseenSame ==
    ASSUME Unseen, UNCHANGED <<disk, mass>>, unread' \subseteq unread,
           \A r \in Rows : \/ file'[r] = file[r] \/ file'[r] = NoFile
                           \/ /\ file[r] # NoFile /\ file'[r].path = file[r].path
                              /\ file'[r].disk = file[r].disk /\ file'[r].state = file[r].state,
           pc' \notin {"adopt", "adopting", "adopted", "record"}
    PROVE  Unseen'
<1>1. ASSUME NEW r \in Rows
      PROVE  \/ file'[r] = NoFile \/ Calm(r)'
             \/ /\ file[r] # NoFile /\ file'[r].path = file[r].path
                /\ file'[r].disk = file[r].disk /\ file'[r].state = file[r].state
                /\ r \in mass' => r \in mass
  OBVIOUS
<1> QED
  BY <1>1, UnseenKept

\* A row that only its fact changes of.
LEMMA RelinkedRow ==
    ASSUME file \in [Rows -> File \union {NoFile}], NEW r \in Rows, NEW f, file[r] # NoFile,
           \E x : f = [file[r] EXCEPT !.memory = x]
    PROVE  f.path = file[r].path /\ f.disk = file[r].disk /\ f.state = file[r].state
<1>1. file[r] \in File
  OBVIOUS
<1>2. PICK x : f = [file[r] EXCEPT !.memory = x]
  OBVIOUS
<1> QED
  BY <1>1, <1>2 DEF File

\* What the user did to a file is unread unless a row has it on record.
LEMMA UnseenTouch ==
    ASSUME Sound, Unseen, NEW p \in Paths, NEW c, Touches(p), Holds(p, c)
    PROVE  Unseen'
<1>1. /\ disk' = [disk EXCEPT ![p] = c] /\ disk \in [Paths -> Content \union {None}]
      /\ unread' = IF c = None \/ Known(p, c) THEN unread \ {p} ELSE unread \union {p}
  BY DEF Holds, Sound, TypeOK
<1>2. UNCHANGED <<file, mass, pc, at>>
  BY DEF Touches, db, pass
<1>3. pc \notin {"adopted", "record"}
  BY DEF Touches, NextPath, Paths
<1>4. ASSUME NEW r \in Rows PROVE Calm(r)'
  <2>1. Calm(r)
    BY DEF Unseen
  <2>2. CASE file[r].path = p
    <3>1. p \in unread' /\ file[r] # NoFile => file[r].disk # c
      BY <1>1, <2>2 DEF Known, RowsAt, Rowed
    <3>2. disk'[p] = c
      BY <1>1
    <3> QED
      BY <1>2, <2>2, <3>1, <3>2 DEF Calm
  <2>3. CASE file[r].path # p
    <3>1. file[r].path \in unread' => file[r].path \in unread /\ file[r].path \in Paths
      BY <1>1, <2>3 DEF Sound, TypeOK
    <3>2. file[r].path \in Paths => disk'[file[r].path] = disk[file[r].path]
      BY <1>1, <2>3
    <3> QED
      BY <1>2, <2>1, <3>1, <3>2 DEF Calm
  <2> QED
    BY <2>2, <2>3
<1>5. \A q \in unread' : disk'[q] # None
  <2>1. \A q \in unread' \ {p} : q \in unread /\ q \in Paths
    BY <1>1 DEF Sound, TypeOK
  <2>2. p \in unread' => c # None
    BY <1>1
  <2> QED
    BY <1>1, <2>1, <2>2 DEF Unseen
<1> QED
  BY <1>2, <1>3, <1>4, <1>5 DEF Unseen, Rows

LEMMA UnseenUser ==
    ASSUME Sound, Unseen, User PROVE Unseen'
<1>1. /\ file \in [Rows -> File \union {NoFile}] /\ Asked
  BY DEF Sound, TypeOK
<1>2. ASSUME NEW p \in Paths,
             UserWrites(p) \/ UserRemoves(p) \/ UserReturns(p) \/ UserCopies(p)
      PROVE  Unseen'
  <2>1. PICK q \in Paths : Touches(q) /\ \E c : Holds(q, c)
    BY <1>2, VaultAssumption DEF UserWrites, UserRemoves, UserReturns, UserCopies, Paths, Own
  <2> QED
    BY <2>1, UnseenTouch
<1>3. ASSUME NEW m \in Facts, WebEdit(m) \/ Forget(m) PROVE Unseen'
  <2>1. /\ UNCHANGED <<disk, mass, pc>> /\ unread' \subseteq unread /\ ReadsFacts
    BY <1>3 DEF WebEdit, Forget, Ops, vault, pass
  <2>2. pc' \notin {"adopt", "adopting", "adopted", "record"}
    BY <2>1 DEF ReadsFacts
  <2>3. \A r \in Rows : file'[r] = file[r] \/ \E x : /\ file[r] # NoFile
                                                      /\ file'[r] = [file[r] EXCEPT !.memory = x]
    <3>1. 0 \notin Facts /\ Lineage(m) \subseteq Facts
      BY DEF Facts, Lineage
    <3>2. CASE WebEdit(m)
      BY <3>2, MovedRows DEF WebEdit
    <3>3. CASE Forget(m)
      <4>1. ASSUME NEW r \in Rows, file[r].memory \in Lineage(m)
            PROVE  file[r] # NoFile
        BY <3>1, <4>1, NoFileIsNone
      <4>2. ASSUME NEW r \in Rows
            PROVE  file'[r] = IF file[r].memory \in Lineage(m)
                              THEN [file[r] EXCEPT !.memory = 0] ELSE file[r]
        BY <3>3 DEF Forget, Unlinked
      <4> QED
        BY <4>1, <4>2
    <3> QED
      BY <1>3, <3>2, <3>3
  <2>4. \A r \in Rows : \/ file'[r] = file[r]
                        \/ /\ file[r] # NoFile /\ file'[r].path = file[r].path
                           /\ file'[r].disk = file[r].disk /\ file'[r].state = file[r].state
    <3>1. ASSUME NEW r \in Rows, file[r] # NoFile,
                 \E x : file'[r] = [file[r] EXCEPT !.memory = x]
          PROVE  /\ file'[r].path = file[r].path /\ file'[r].disk = file[r].disk
                 /\ file'[r].state = file[r].state
      BY <1>1, <3>1, RelinkedRow
    <3> QED
      BY <2>3, <3>1
  <2> QED
    BY <2>1, <2>2, <2>4, UnseenSame
<1>4. ASSUME NEW r \in Rows, Refuse(r) \/ Agree(r) PROVE Unseen'
  <2>1. /\ UNCHANGED <<disk, mass, pc, at>> /\ pc = "idle" /\ Settled(r)
    BY <1>4 DEF Refuse, Agree, vault, pass
  <2>2. file[r] \in File
    BY <1>1, <1>4, NoFileIsNone DEF Refuse, Agree, Asked
  <2>3. /\ file'[r].path = file[r].path /\ file'[r].disk = file[r].disk
        /\ \A q \in Rows \ {r} : \/ file'[q] = file[q]
                                 \/ file[q] # NoFile /\ file'[q] = [file[q] EXCEPT !.memory = New]
    <3>1. CASE Refuse(r)
      <4>1. /\ file'[r] = Reverted(r)
            /\ \A q \in Rows \ {r} : file'[q] = file[q]
        BY <1>1, <3>1 DEF Refuse
      <4>2. Reverted(r).path = file[r].path /\ Reverted(r).disk = file[r].disk
        BY <2>2 DEF Reverted, File
      <4> QED
        BY <4>1, <4>2
    <3>2. ASSUME NEW s \in {"ok", "quarantined"}, file' = [file EXCEPT ![r].state = s]
          PROVE  /\ file'[r].path = file[r].path /\ file'[r].disk = file[r].disk
                 /\ \A q \in Rows \ {r} : file'[q] = file[q]
      <4>1. file'[r] = [file[r] EXCEPT !.state = s]
        BY <1>1, <3>2
      <4> QED
        BY <1>1, <2>2, <3>2, <4>1 DEF File
    <3>3. ASSUME file' = [Moved(hold[r].over) EXCEPT ![r] =
                             [file[r] EXCEPT !.state = "ok", !.memory = New]]
          PROVE  /\ file'[r].path = file[r].path /\ file'[r].disk = file[r].disk
                 /\ \A q \in Rows \ {r} : \/ file'[q] = file[q]
                                          \/ file[q] # NoFile /\ file'[q] = [file[q] EXCEPT !.memory = New]
      <4>1. /\ file'[r] = [file[r] EXCEPT !.state = "ok", !.memory = New]
            /\ \A q \in Rows \ {r} : file'[q] = Moved(hold[r].over)[q]
        BY <3>3, MovedRows
      <4>2. file'[r].path = file[r].path /\ file'[r].disk = file[r].disk
        BY <2>2, <4>1 DEF File
      <4>3. ASSUME NEW q \in Rows \ {r}
            PROVE  \/ file'[q] = file[q]
                   \/ file[q] # NoFile /\ file'[q] = [file[q] EXCEPT !.memory = New]
        <5>1. \/ Moved(hold[r].over)[q] = file[q]
              \/ file[q] # NoFile /\ Moved(hold[r].over)[q] = [file[q] EXCEPT !.memory = New]
          BY MovedRows
        <5> QED
          BY <4>1, <5>1
      <4> QED
        BY <4>2, <4>3
    <3>4. CASE Agree(r)
      <4>1. \/ file' = [file EXCEPT ![r].state = "ok"] \/ file' = [file EXCEPT ![r].state = "quarantined"]
            \/ file' = [Moved(hold[r].over) EXCEPT ![r] =
                            [file[r] EXCEPT !.state = "ok", !.memory = New]]
        BY <3>4 DEF Agree
      <4>2. CASE file' = [file EXCEPT ![r].state = "ok"]
        BY <3>2, <4>2
      <4>3. CASE file' = [file EXCEPT ![r].state = "quarantined"]
        BY <3>2, <4>3
      <4> QED
        BY <3>3, <4>1, <4>2, <4>3
    <3> QED
      BY <1>4, <3>1, <3>4
  <2>4. Calm(r)'
    <3>1. file[r].disk = disk[file[r].path] => file[r].path \notin unread'
      BY <1>1, <2>1, <2>2, NoFileIsNone DEF Settled, Known, RowsAt, Rowed
    <3> QED
      BY <2>1, <2>3, <3>1 DEF Calm
  <2>5. \A p \in unread' : p \in unread /\ disk'[p] = disk[p]
    BY <2>1 DEF Settled
  <2>6. ASSUME NEW q \in Rows
        PROVE  \/ file'[q] = NoFile \/ Calm(q)'
               \/ /\ file[q] # NoFile /\ file'[q].path = file[q].path
                  /\ file'[q].disk = file[q].disk /\ file'[q].state = file[q].state
                  /\ q \in mass' => q \in mass
    <3>1. CASE q = r
      BY <2>4, <3>1
    <3>2. CASE q # r /\ file'[q] = file[q]
      BY <2>1, <3>2
    <3>3. CASE file[q] # NoFile /\ file'[q] = [file[q] EXCEPT !.memory = New]
      BY <1>1, <2>1, <3>3, RelinkedRow
    <3> QED
      BY <2>3, <3>1, <3>2, <3>3
  <2> QED
    BY <2>1, <2>5, <2>6, UnseenKept
<1>5. CASE KeepAll
  <2>1. /\ UNCHANGED <<disk, unread, pc>> /\ pc = "idle" /\ mass' = {}
        /\ file' = [r \in Rows |-> IF r \in mass THEN Restored(r) ELSE file[r]]
    BY <1>5 DEF KeepAll, vault, pass, history
  <2>2. ASSUME NEW r \in Rows, r \in mass PROVE Calm(r)'
    <3>1. file[r] \in File /\ file[r].state = "held"
      BY <1>1, <2>2, NoFileIsNone DEF Asked
    <3>2. file'[r].path = file[r].path /\ file'[r].disk = file[r].disk
      BY <2>1, <2>2, <3>1 DEF Restored, File
    <3>3. Calm(r)
      BY DEF Unseen
    <3> QED
      BY <2>1, <2>2, <3>1, <3>2, <3>3, NoFileIsNone DEF Calm
  <2>3. ASSUME NEW r \in Rows
        PROVE  \/ file'[r] = NoFile \/ Calm(r)'
               \/ /\ file[r] # NoFile /\ file'[r].path = file[r].path
                  /\ file'[r].disk = file[r].disk /\ file'[r].state = file[r].state
                  /\ r \in mass' => r \in mass
    BY <2>1, <2>2
  <2> QED
    BY <2>1, <2>3, UnseenKept
<1>6. CASE ForgetAll
  <2> DEFINE gone == UNION {Lineage(file[r].memory) : r \in {r \in mass : file[r].memory # 0}}
  <2>1. /\ UNCHANGED <<disk, pc>> /\ pc = "idle" /\ mass' = {} /\ unread' \subseteq unread
        /\ file' = [r \in Rows |-> IF r \in mass THEN NoFile ELSE Unlinked(gone)[r]]
    BY <1>6 DEF ForgetAll, vault, pass
  <2>2. gone \subseteq Facts
    BY DEF Lineage
  <2> HIDE DEF gone
  <2>3. ASSUME NEW r \in Rows
        PROVE  \/ file'[r] = NoFile \/ Calm(r)'
               \/ /\ file[r] # NoFile /\ file'[r].path = file[r].path
                  /\ file'[r].disk = file[r].disk /\ file'[r].state = file[r].state
                  /\ r \in mass' => r \in mass
    <3>1. \/ Unlinked(gone)[r] = file[r]
          \/ file[r] # NoFile /\ Unlinked(gone)[r] = [file[r] EXCEPT !.memory = 0]
      BY <2>2, UnlinkedRows
    <3> QED
      BY <1>1, <2>1, <3>1, RelinkedRow
  <2> QED
    BY <2>1, <2>3, UnseenKept
<1> QED
  BY <1>2, <1>3, <1>4, <1>5, <1>6 DEF User

\* A file read: its row waits, or what it holds is read by it.
LEMMA UnseenIngest ==
    ASSUME Sound, Unseen, NEW p \in Paths,
           \/ IngestLater(p) \/ IngestRaises(p) \/ IngestRefuses(p) \/ IngestNewRule(p)
           \/ IngestNewFact(p) \/ IngestIgnores(p) \/ \E r \in Rows : IngestSkips(p, r)
    PROVE  Unseen'
<1>1. /\ file \in [Rows -> File \union {NoFile}] /\ Asked /\ FilesOK /\ mass \subseteq Rows
  BY DEF Sound, TypeOK, Numbered, FilesOK
<1>2. UNCHANGED <<disk, mass>> /\ unread' \subseteq unread
  <2>1. CASE IngestIgnores(p)
    BY <2>1 DEF IngestIgnores, vault
  <2> QED
    BY <2>1 DEF IngestLater, IngestRaises, IngestRefuses, IngestNewRule, IngestNewFact, IngestSkips,
                vault, db, history
<1>3. CASE \/ IngestLater(p) \/ IngestRaises(p) \/ \E r \in Rows : IngestSkips(p, r)
  <2>1. file' = file /\ pc' \in {"idle", "ingest"}
    BY <1>3 DEF IngestLater, IngestRaises, IngestSkips, Rest, Leaves, Reads, Turn, db
  <2> QED
    BY <1>2, <2>1, UnseenSame
<1>4. ASSUME Copied(p) \/ NewFile(p), NEW state, NEW m, AddRow(p, state, m),
             state \in {"quarantined", "held"} \/ p \notin unread'
      PROVE  /\ \A r \in Rows : \/ file'[r] = NoFile \/ Calm(r)'
                                \/ /\ file[r] # NoFile /\ file'[r].path = file[r].path
                                   /\ file'[r].disk = file[r].disk /\ file'[r].state = file[r].state
                                   /\ r \in mass' => r \in mass
             /\ file'[Fresh(p)].state = state
  <2>0. PICK s : s = Fresh(p)
    OBVIOUS
  <2> DEFINE f == [Row(p, state, m) EXCEPT !.missing =
                      IF Untracked(p) THEN "no" ELSE file[s].missing]
  <2>1. /\ s \in Rows /\ (Untracked(p) => file[s] = NoFile) /\ (~Untracked(p) => Spare(s))
    BY <1>1, <1>4, <2>0, FreshRow DEF AddRow
  <2>2. f.path = p /\ f.state = state
    BY DEF Row
  <2>3. file' = [file EXCEPT ![s] = f]
    BY <1>4, <2>0 DEF AddRow
  <2>4. file'[s].path = p /\ file'[s].state = state
    BY <1>1, <2>1, <2>2, <2>3
  <2>5. s \notin mass
    BY <1>1, <2>1, NoFileIsNone DEF Asked, Spare
  <2>6. Calm(s)'
    BY <1>2, <1>4, <2>4, <2>5 DEF Calm
  <2>7. \A r \in Rows \ {s} : file'[r] = file[r]
    BY <1>1, <2>1, <2>3
  <2> HIDE DEF f
  <2>8. ASSUME NEW r \in Rows
        PROVE  \/ file'[r] = NoFile \/ Calm(r)'
               \/ /\ file[r] # NoFile /\ file'[r].path = file[r].path
                  /\ file'[r].disk = file[r].disk /\ file'[r].state = file[r].state
                  /\ r \in mass' => r \in mass
    BY <1>2, <2>6, <2>7
  <2> QED
    BY <2>0, <2>4, <2>8
<1>5. CASE IngestRefuses(p)
  <2>1. AddRow(p, "quarantined", 0) /\ (Copied(p) \/ NewFile(p)) /\ pc' = "ingest"
    BY <1>5 DEF IngestRefuses, Rest, Reads, Turn
  <2> QED
    BY <1>2, <1>4, <2>1, UnseenKept
<1>6. CASE IngestNewRule(p)
  <2>1. AddRow(p, "held", 0) /\ NewFile(p) /\ pc' = "ingest"
    BY <1>6 DEF IngestNewRule, Rest, Reads, Turn
  <2> QED
    BY <1>2, <1>4, <2>1, UnseenKept
<1>7. CASE IngestNewFact(p)
  <2>1. /\ AddRow(p, "ok", New) /\ NewFile(p) /\ pc' = "adopt" /\ at' = Fresh(p)
        /\ unread' = unread \ {p}
    BY <1>7 DEF IngestNewFact
  <2>2. p \notin unread'
    BY <2>1
  <2>3. /\ \A r \in Rows : \/ file'[r] = NoFile \/ Calm(r)'
                           \/ /\ file[r] # NoFile /\ file'[r].path = file[r].path
                              /\ file'[r].disk = file[r].disk /\ file'[r].state = file[r].state
                              /\ r \in mass' => r \in mass
        /\ file'[at'].state = "ok"
    BY <1>4, <2>1, <2>2
  <2> QED
    BY <1>2, <2>1, <2>3, UnseenKept
<1>8. CASE IngestIgnores(p)
  <2>1. /\ file' = [r \in Rows |-> IF Renamed(p, r)
                                   THEN [file[r] EXCEPT !.path = p, !.missing = "no"]
                                   ELSE file[r]]
        /\ \A r \in Answering(p) : file[r].state # "held"
        /\ pc' = "ingest"
    BY <1>8 DEF IngestIgnores, Rest, Reads, Turn
  <2>2. ASSUME NEW r \in Rows, Renamed(p, r) PROVE Calm(r)'
    <3>1. file[r] \in File /\ r \notin mass
      BY <1>1, <2>1, <2>2 DEF Renamed, Answering, Named, Rowed, Asked
    <3>2. file'[r].path = p /\ file'[r].disk = file[r].disk
      BY <2>1, <2>2, <3>1 DEF File
    <3>3. file[r].disk = disk[p] => p \notin unread'
      BY <1>8, <2>2 DEF IngestIgnores
    <3> QED
      BY <1>2, <3>2, <3>3 DEF Calm
  <2>3. ASSUME NEW r \in Rows
        PROVE  \/ file'[r] = NoFile \/ Calm(r)'
               \/ /\ file[r] # NoFile /\ file'[r].path = file[r].path
                  /\ file'[r].disk = file[r].disk /\ file'[r].state = file[r].state
                  /\ r \in mass' => r \in mass
    BY <1>2, <2>1, <2>2
  <2> QED
    BY <1>2, <2>1, <2>3, UnseenKept
<1> QED
  BY <1>3, <1>5, <1>6, <1>7, <1>8

LEMMA UnseenEdit ==
    ASSUME Sound, Unseen, NEW p \in Paths, NEW r \in Rows,
           \/ IngestQuarantines(p, r) \/ IngestHolds(p, r) \/ IngestChange(p, r)
           \/ IngestCosmetic(p, r)
    PROVE  Unseen'
<1>1. /\ file \in [Rows -> File \union {NoFile}] /\ FilesOK
  BY DEF Sound, TypeOK, Numbered, FilesOK
<1>2. /\ UNCHANGED <<disk, mass, pc>> /\ pc = "ingest" /\ unread' \subseteq unread /\ Edited(p, r)
  BY DEF IngestQuarantines, IngestHolds, IngestChange, IngestCosmetic, Edited, Reads, Turn, Done,
         vault, history
<1>3. file[r] \in File /\ r \notin mass
  BY <1>1, <1>2, EditedRow
<1>4. ASSUME NEW state, \/ file'[r] = Taken(p, r, state)
                        \/ \E m : file'[r] = [Taken(p, r, state) EXCEPT !.memory = m],
             state \in {"quarantined", "held"} \/ p \notin unread'
      PROVE  Calm(r)'
  <2>1. \A m : /\ [Taken(p, r, state) EXCEPT !.memory = m].path = p
               /\ [Taken(p, r, state) EXCEPT !.memory = m].state = state
    BY <1>3 DEF Taken, File
  <2>2. Taken(p, r, state).path = p /\ Taken(p, r, state).state = state
    BY <1>3 DEF Taken, File
  <2>3. file'[r].path = p /\ file'[r].state = state
    BY <1>4, <2>1, <2>2
  <2> QED
    BY <1>2, <1>3, <1>4, <2>3 DEF Calm
<1>5. Calm(r)'
  <2>1. CASE IngestQuarantines(p, r)
    <3>1. file'[r] = Taken(p, r, "quarantined")
      BY <1>1, <2>1 DEF IngestQuarantines
    <3> QED
      BY <1>4, <3>1
  <2>2. CASE IngestHolds(p, r)
    <3>1. file'[r] = Taken(p, r, "held")
      BY <1>1, <2>2 DEF IngestHolds
    <3> QED
      BY <1>4, <3>1
  <2>3. CASE IngestChange(p, r)
    <3>1. file'[r] = [Taken(p, r, "ok") EXCEPT !.memory = New] /\ p \notin unread'
      BY <2>3, MovedRows DEF IngestChange
    <3> QED
      BY <1>4, <3>1
  <2>4. CASE IngestCosmetic(p, r)
    <3>1. file'[r] = Taken(p, r, "ok") /\ p \notin unread'
      BY <1>1, <2>4 DEF IngestCosmetic
    <3> QED
      BY <1>4, <3>1
  <2> QED
    BY <2>1, <2>2, <2>3, <2>4
<1>6. ASSUME NEW q \in Rows \ {r}
      PROVE  \/ file'[q] = NoFile
             \/ /\ file[q] # NoFile /\ file'[q].path = file[q].path
                /\ file'[q].disk = file[q].disk /\ file'[q].state = file[q].state
                /\ q \in mass' => q \in mass
  <2>1. CASE file'[q] = file[q]
    BY <1>2, <2>1
  <2>2. CASE IngestChange(p, r)
    <3>1. \/ file'[q] = file[q]
          \/ file[q] # NoFile /\ file'[q] = [file[q] EXCEPT !.memory = New]
      BY <2>2, MovedRows DEF IngestChange
    <3> QED
      BY <1>1, <2>1, <3>1, <1>2, RelinkedRow
  <2> QED
    BY <1>1, <2>1, <2>2 DEF IngestQuarantines, IngestHolds, IngestCosmetic
<1> QED
  BY <1>2, <1>5, <1>6, UnseenKept

\* A put replaces what was there.
LEMMA UnseenPut ==
    ASSUME Unseen, disk \in [Paths -> Content \union {None}], unread \subseteq Paths,
           NEW r, NEW c, Put(r, c), UNCHANGED <<file, mass>>,
           pc' \notin {"adopt", "adopting"},
           pc' \in {"adopted", "record"} => file[at'].path = file[r].path
    PROVE  Unseen'
<1>1. /\ unread' = unread \ {file[r].path}
      /\ \A p \in Paths \ {file[r].path} : disk'[p] = disk[p]
  BY DEF Put
<1>2. \A p \in unread' : p \in unread /\ disk'[p] = disk[p]
  BY <1>1
<1>3. ASSUME NEW q \in Rows
      PROVE  \/ file'[q] = NoFile \/ Calm(q)'
             \/ /\ file[q] # NoFile /\ file'[q].path = file[q].path
                /\ file'[q].disk = file[q].disk /\ file'[q].state = file[q].state
                /\ q \in mass' => q \in mass
  OBVIOUS
<1> QED
  BY <1>1, <1>2, <1>3, UnseenKept

LEMMA UnseenAdopt ==
    ASSUME Sound, Unseen, Adopt \/ AdoptSwap \/ Adopted PROVE Unseen'
<1>1. /\ disk \in [Paths -> Content \union {None}] /\ unread \subseteq Paths
      /\ file \in [Rows -> File \union {NoFile}] /\ at \in Rows /\ file[at] \in File
  BY DEF Sound, TypeOK, Reading, Adopt, AdoptSwap, Adopted, Rowed
<1>2. CASE Adopt
  <2>1. UNCHANGED <<file, mass, at, disk, unread>> /\ pc' \in {"adopting", "ingest"} /\ pc = "adopt"
    BY <1>2 DEF Adopt, db, vault, history
  <2>2. CASE pc' = "adopting"
    BY <2>1, <2>2 DEF Unseen, Calm, Rows
  <2>3. CASE pc' = "ingest"
    BY <2>1, <2>3, UnseenSame
  <2> QED
    BY <2>1, <2>2, <2>3
<1>4. CASE AdoptSwap
  <2>1. Put(at, Render(seen[at])) /\ UNCHANGED <<file, mass, at>> /\ pc' = "adopted"
    BY <1>4 DEF AdoptSwap, db
  <2> QED
    BY <1>1, <2>1, UnseenPut
<1>3. CASE Adopted
  <2>0. PICK a : a = at
    OBVIOUS
  <2> DEFINE f == [file[a] EXCEPT !.disk = Render(seen[a]), !.digest = Render(seen[a])]
  <2>1. /\ UNCHANGED <<disk, unread, mass>> /\ pc' = "ingest"
        /\ file' = [file EXCEPT ![a] = f] /\ file[a].path \notin unread
    BY <1>1, <1>3, <2>0 DEF Adopted, vault, history, Unseen
  <2>2. f.path = file[a].path
    BY <1>1, <2>0 DEF File
  <2>3. Calm(a)'
    <3>1. file'[a].path \notin unread'
      BY <1>1, <2>0, <2>1, <2>2
    <3> QED
      BY <3>1 DEF Calm
  <2>4. ASSUME NEW q \in Rows
        PROVE  \/ file'[q] = NoFile \/ Calm(q)'
               \/ /\ file[q] # NoFile /\ file'[q].path = file[q].path
                  /\ file'[q].disk = file[q].disk /\ file'[q].state = file[q].state
                  /\ q \in mass' => q \in mass
    BY <1>1, <2>0, <2>1, <2>3
  <2> HIDE DEF f
  <2> QED
    BY <2>1, <2>4, UnseenKept
<1> QED
  BY <1>2, <1>3, <1>4

LEMMA UnseenDelete ==
    ASSUME Sound, Unseen, NoneDue \/ AskForAll \/ ForgetMissing PROVE Unseen'
<1>1. /\ file \in [Rows -> File \union {NoFile}] /\ absent \subseteq Rows /\ absent \subseteq Rowed
      /\ \A r \in Due : r \in Rowed /\ disk[file[r].path] = None
  <2>1. /\ file \in [Rows -> File \union {NoFile}] /\ pc = "ingest" /\ Reading
        /\ absent \subseteq Rows
    BY DEF Sound, TypeOK, NoneDue, AskForAll, ForgetMissing, Deleting
  <2>2. ASSUME NEW r \in Due PROVE r \in Rowed /\ disk[file[r].path] = None
    <3>1. r \in Rowed /\ manifest[file[r].path] = None /\ r \in Rows
      BY <2>1 DEF Reading, Rowed, Due, Missing
    <3>2. file[r].path \in Paths
      BY <2>1, <3>1 DEF Rowed, File
    <3> QED
      BY <2>1, <3>1, <3>2 DEF Reading
  <2> QED
    BY <2>1, <2>2 DEF Reading
<1>2. disk' = disk /\ unread' \subseteq unread /\ pc' = "follow" /\ (AskForAll \/ mass' = mass)
  BY DEF NoneDue, AskForAll, ForgetMissing, Deleting, vault, history
<1>3. ASSUME NEW r \in Rows, file'[r] = Noted(r)
      PROVE  \/ file'[r] = NoFile
             \/ /\ file[r] # NoFile /\ file'[r].path = file[r].path
                /\ file'[r].disk = file[r].disk /\ file'[r].state = file[r].state
  <2>1. /\ Noted(r).state = file[r].state /\ Noted(r).disk = file[r].disk
        /\ file[r] \in File => Noted(r).path = file[r].path
        /\ file[r] = NoFile => Noted(r) = NoFile
    BY <1>1, NotedRow
  <2> QED
    BY <1>1, <1>3, <2>1
<1>4. CASE NoneDue
  <2>1. \A r \in Rows : file'[r] = Noted(r)
    BY <1>4 DEF NoneDue
  <2>2. mass' = mass
    BY <1>4 DEF NoneDue
  <2> QED
    BY <1>2, <1>3, <2>1, <2>2, UnseenKept
<1>5. CASE AskForAll
  <2>1. /\ mass' = Due /\ mass = {}
        /\ file' = [r \in Rows |-> IF r \in Due THEN [file[r] EXCEPT !.state = "held"] ELSE Noted(r)]
    BY <1>5 DEF AskForAll
  <2>2. ASSUME NEW r \in Rows, r \in Due PROVE Calm(r)'
    <3>1. file[r] \in File /\ disk[file[r].path] = None
      BY <1>1, <2>2 DEF Rowed
    <3>2. file'[r].path = file[r].path
      BY <2>1, <2>2, <3>1 DEF File
    <3>3. file[r].path \notin unread
      BY <3>1 DEF Unseen
    <3> QED
      BY <1>2, <3>2, <3>3 DEF Calm
  <2>3. ASSUME NEW r \in Rows
        PROVE  \/ file'[r] = NoFile \/ Calm(r)'
               \/ /\ file[r] # NoFile /\ file'[r].path = file[r].path
                  /\ file'[r].disk = file[r].disk /\ file'[r].state = file[r].state
                  /\ r \in mass' => r \in mass
    BY <1>3, <2>1, <2>2
  <2> QED
    BY <1>2, <2>3, UnseenKept
<1>6. CASE ForgetMissing
  <2>1. PICK gone : file' = [r \in Rows |-> IF r \in Due THEN NoFile
                     ELSE [Noted(r) EXCEPT !.memory = IF @ \in gone THEN 0 ELSE @]]
    BY <1>6 DEF ForgetMissing
  <2>2. mass' = mass
    BY <1>6 DEF ForgetMissing
  <2>3. ASSUME NEW r \in Rows
        PROVE  \/ file'[r] = NoFile
               \/ /\ file[r] # NoFile /\ file'[r].path = file[r].path
                  /\ file'[r].disk = file[r].disk /\ file'[r].state = file[r].state
    <3>1. CASE r \in Due
      BY <2>1, <3>1
    <3>2. CASE r \notin Due
      <4>1. file'[r] = [Noted(r) EXCEPT !.memory = IF Noted(r).memory \in gone THEN 0
                                                    ELSE Noted(r).memory]
        BY <2>1, <3>2
      <4>2. CASE file[r] = NoFile
        <5>1. Noted(r) = NoFile
          BY <1>1, <4>2, NotedRow
        <5>2. file'[r] = NoFile
          BY <4>1, <5>1 DEF NoFile
        <5> QED
          BY <5>2
      <4>3. CASE file[r] \in File
        <5>1. /\ Noted(r) \in File /\ Noted(r).path = file[r].path
              /\ Noted(r).state = file[r].state /\ Noted(r).disk = file[r].disk
          BY <1>1, <4>3, NotedRow
        <5> QED
          BY <4>1, <4>3, <5>1, NoFileIsNone DEF File
      <4> QED
        BY <1>1, <4>2, <4>3
    <3> QED
      BY <3>1, <3>2
  <2> QED
    BY <1>2, <2>2, <2>3, UnseenKept
<1> QED
  BY <1>4, <1>5, <1>6

LEMMA UnseenDrop ==
    ASSUME Sound, Unseen,
           FollowHeads \/ DropRow \/ DropSwap \/ DropRaises \/ \E r \in Rows : DropFile(r)
    PROVE  Unseen'
<1>1. /\ disk \in [Paths -> Content \union {None}] /\ unread \subseteq Paths
      /\ file \in [Rows -> File \union {NoFile}]
  BY DEF Sound, TypeOK
<1>2. CASE FollowHeads
  <2>1. /\ UNCHANGED <<disk, mass, unread>> /\ pc' = "drop"
        /\ \A r \in Rows : \/ file'[r] = file[r]
                           \/ file[r] # NoFile /\ \E x : file'[r] = [file[r] EXCEPT !.memory = x]
    BY <1>2 DEF FollowHeads, vault, history, Superseded, Rowed
  <2>2. \A r \in Rows : \/ file'[r] = file[r]
                        \/ /\ file[r] # NoFile /\ file'[r].path = file[r].path
                           /\ file'[r].disk = file[r].disk /\ file'[r].state = file[r].state
    BY <1>1, <2>1, RelinkedRow
  <2> QED
    BY <2>1, <2>2, UnseenSame
<1>3. CASE DropRow
  <2>1. /\ UNCHANGED <<disk, mass, unread>> /\ pc' = "drop"
        /\ \A r \in Rows : file'[r] = file[r] \/ file'[r] = NoFile
    BY <1>1, <1>3 DEF DropRow, vault, history
  <2> QED
    BY <2>1, UnseenSame
<1>4. CASE DropRaises \/ \E r \in Rows : DropFile(r)
  <2>1. UNCHANGED <<file, mass, disk, unread>> /\ pc' \in {"idle", "drop", "dropping", "dropped"}
    BY <1>4 DEF DropRaises, Leaves, DropFile, DropTurn, db, vault, history
  <2> QED
    BY <2>1, UnseenSame
<1>5. CASE DropSwap
  <2>1. UNCHANGED <<file, mass>> /\ pc' = "dropped" /\ Put(at, None)
    BY <1>5 DEF DropSwap, db
  <2> QED
    BY <1>1, <2>1, UnseenPut
<1> QED
  BY <1>2, <1>3, <1>4, <1>5

\* What WriteFile's check finds is nothing, or what its row has on record.
LEMMA WrittenIsRead ==
    ASSUME Sound, Unseen, WriteFile(FirstView) PROVE file[Latest(FirstView)].path \notin unread
<1> DEFINE r == Latest(FirstView)
           p == file[r].path
<1>1. r \in Rows /\ file[r] # NoFile
  BY LatestOf DEF WriteFile, Rowed
<1>2. CASE disk[p] = None
  BY <1>2 DEF Unseen
<1>3. CASE Current(r)
  <2>1. file[r].state = "ok" /\ file[r].disk = disk[p]
    BY <1>3 DEF Current
  <2>2. Calm(r)
    BY <1>1 DEF Unseen
  <2> QED
    BY <1>1, <2>1, <2>2 DEF Calm
<1> QED
  BY <1>2, <1>3 DEF WriteFile

LEMMA UnseenWrite ==
    ASSUME Sound, Unseen, Views \/ Write \/ Record PROVE Unseen'
<1>1. /\ disk \in [Paths -> Content \union {None}] /\ unread \subseteq Paths
      /\ file \in [Rows -> File \union {NoFile}] /\ mass \subseteq Rows /\ lastFile \in 0..MaxRows
  BY DEF Sound, TypeOK
<1>2. CASE Views \/ WriteRaises(FirstView) \/ WriteSkips(FirstView)
  <2>1. UNCHANGED <<disk, mass, unread, file>> /\ pc' \in {"write", "idle"}
    BY <1>2 DEF Views, WriteRaises, WriteSkips, WriteTurn, Leaves, Rest, db, vault, history
  <2> QED
    BY <2>1, UnseenSame
<1>3. CASE WriteRow(FirstView)
  <2>0. PICK s : s = lastFile + 1
    OBVIOUS
  <2>1. /\ UNCHANGED <<disk, mass, unread>> /\ pc' = "write" /\ s \in Rows
        /\ file'[s].disk = None
        /\ \A r \in Rows \ {s} : file'[r] = file[r]
    BY <1>1, <1>3, <2>0, VaultAssumption DEF WriteRow, WriteTurn, vault, history, Rows
  <2>2. Calm(s)'
    BY <2>1 DEF Calm, Unseen
  <2>3. ASSUME NEW q \in Rows
        PROVE  \/ file'[q] = NoFile \/ Calm(q)'
               \/ /\ file[q] # NoFile /\ file'[q].path = file[q].path
                  /\ file'[q].disk = file[q].disk /\ file'[q].state = file[q].state
                  /\ q \in mass' => q \in mass
    BY <2>1, <2>2
  <2> QED
    BY <2>1, <2>3, UnseenKept
<1>4. CASE WriteFile(FirstView)
  <2>1. /\ UNCHANGED <<mass, file>> /\ at' = Latest(FirstView)
        /\ \/ Put(Latest(FirstView), FirstView) /\ pc' = "record"
           \/ UNCHANGED <<disk, unread>> /\ pc' \in {"record", "writing"}
    BY <1>4 DEF WriteFile, db, vault
  <2>2. CASE Put(Latest(FirstView), FirstView) /\ pc' = "record"
    <3>1. file[at'].path = file[Latest(FirstView)].path
      BY <2>1
    <3> QED
      BY <1>1, <2>1, <2>2, <3>1, UnseenPut
  <2>3. CASE UNCHANGED <<disk, unread>> /\ pc' \in {"record", "writing"}
    <3>1. file'[at'].path \notin unread'
      BY <1>4, <2>1, <2>3, WrittenIsRead
    <3>2. \A q \in Rows : \/ file'[q] = NoFile
                          \/ /\ file[q] # NoFile /\ file'[q].path = file[q].path
                             /\ file'[q].disk = file[q].disk /\ file'[q].state = file[q].state
                             /\ q \in mass' => q \in mass
      BY <2>1
    <3> QED
      BY <2>1, <2>3, <3>1, <3>2, UnseenKept
  <2> QED
    BY <2>1, <2>2, <2>3
<1>7. CASE WriteSwap
  <2>1. Put(at, FirstView) /\ UNCHANGED <<file, mass, at>> /\ pc' = "record"
    BY <1>7 DEF WriteSwap, db
  <2> QED
    BY <1>1, <2>1, UnseenPut
<1>5. CASE WriteQuarantines(FirstView)
  <2>0. PICK s : s = Latest(FirstView)
    OBVIOUS
  <2>1. s \in Rows /\ file[s] \in File
    BY <1>1, <1>5, <2>0, LatestOf DEF WriteQuarantines, Rowed
  <2>2. /\ UNCHANGED <<disk, mass, unread>> /\ pc' = "write"
        /\ file' = [file EXCEPT ![s] = [file[s] EXCEPT !.state = "quarantined"]]
    BY <1>5, <2>0 DEF WriteQuarantines, WriteTurn, Rest, vault, history
  <2>3. file'[s].state = "quarantined" /\ \A r \in Rows \ {s} : file'[r] = file[r]
    BY <1>1, <2>1, <2>2 DEF File
  <2>4. Calm(s)'
    BY <2>3 DEF Calm
  <2>5. ASSUME NEW q \in Rows
        PROVE  \/ file'[q] = NoFile \/ Calm(q)'
               \/ /\ file[q] # NoFile /\ file'[q].path = file[q].path
                  /\ file'[q].disk = file[q].disk /\ file'[q].state = file[q].state
                  /\ q \in mass' => q \in mass
    BY <2>2, <2>3, <2>4
  <2> QED
    BY <2>2, <2>5, UnseenKept
<1>6. CASE Record
  <2>0. PICK a, v : a = at /\ v = FirstView
    OBVIOUS
  <2>1. a \in Rows /\ file[a] \in File /\ file[a].path \notin unread
    BY <1>1, <1>6, <2>0 DEF Record, Sound, Writing, Rowed, Unseen
  <2>2. /\ UNCHANGED <<disk, mass, unread>> /\ pc' = "write"
        /\ file' = [file EXCEPT ![a].state = "ok", ![a].disk = v, ![a].digest = v]
    BY <1>6, <2>0 DEF Record, vault, history
  <2>3. file' = [file EXCEPT ![a] = [file[a] EXCEPT !.state = "ok", !.disk = v, !.digest = v]]
    BY <1>1, <2>1, <2>2
  <2>4. file'[a].path = file[a].path /\ \A r \in Rows \ {a} : file'[r] = file[r]
    BY <1>1, <2>1, <2>3 DEF File
  <2>5. Calm(a)'
    BY <2>1, <2>2, <2>4 DEF Calm
  <2>6. ASSUME NEW q \in Rows
        PROVE  \/ file'[q] = NoFile \/ Calm(q)'
               \/ /\ file[q] # NoFile /\ file'[q].path = file[q].path
                  /\ file'[q].disk = file[q].disk /\ file'[q].state = file[q].state
                  /\ q \in mass' => q \in mass
    BY <2>2, <2>4, <2>5
  <2> QED
    BY <2>2, <2>6, UnseenKept
<1> QED
  BY <1>2, <1>3, <1>4, <1>5, <1>6, <1>7 DEF Write

LEMMA UnseenExpire ==
    ASSUME Sound, Unseen, NEW which \in SUBSET Rows, NEW all \in {{}, mass},
           ExpireHolds(which, all)
    PROVE  Unseen'
<1>1. /\ file \in [Rows -> File \union {NoFile}] /\ Asked
  BY DEF Sound, TypeOK
<1>2. /\ file' = [r \in Rows |-> IF r \in which THEN Reverted(r)
                                 ELSE IF r \in all THEN Restored(r) ELSE file[r]]
      /\ which \subseteq {r \in Rows : hold[r] # NoHold}
      /\ mass' \subseteq mass /\ disk' = disk /\ pc' = "idle"
      /\ unread' = unread \ {file[r].path : r \in {r \in which :
                               Known(file[r].path, disk[file[r].path])}}
  BY DEF ExpireHolds, Leaves, vault
<1>3. ASSUME NEW r \in Rows, r \in which PROVE Calm(r)'
  <2>1. file[r] \in File /\ r \in Rowed
    BY <1>1, <1>2, <1>3, NoFileIsNone DEF Asked, Rowed
  <2>2. file'[r].path = file[r].path /\ file'[r].disk = file[r].disk
    BY <1>2, <1>3, <2>1 DEF Reverted, File
  <2>3. file[r].disk = disk[file[r].path] => file[r].path \notin unread'
    BY <1>2, <1>3, <2>1 DEF Known, RowsAt
  <2> QED
    BY <1>2, <2>2, <2>3 DEF Calm
<1>4. ASSUME NEW r \in Rows, r \notin which, r \in all PROVE Calm(r)'
  <2>1. file[r] \in File /\ file[r].state = "held" /\ r \in mass
    BY <1>1, <1>4, NoFileIsNone DEF Asked
  <2>2. file'[r].path = file[r].path /\ file'[r].disk = file[r].disk
    BY <1>2, <1>4, <2>1 DEF Restored, File
  <2>3. Calm(r)
    BY DEF Unseen
  <2> QED
    BY <1>2, <2>1, <2>2, <2>3, NoFileIsNone DEF Calm
<1>5. ASSUME NEW r \in Rows
      PROVE  \/ file'[r] = NoFile \/ Calm(r)'
             \/ /\ file[r] # NoFile /\ file'[r].path = file[r].path
                /\ file'[r].disk = file[r].disk /\ file'[r].state = file[r].state
                /\ r \in mass' => r \in mass
  BY <1>2, <1>3, <1>4
<1> QED
  BY <1>2, <1>5, UnseenKept

LEMMA UnseenNext ==
    ASSUME Sound, Unseen, [Next]_vars PROVE Unseen'
<1>1. /\ file \in [Rows -> File \union {NoFile}]
  BY DEF Sound, TypeOK
<1>2. Ingest => Unseen'
  BY UnseenIngest, UnseenEdit, UnseenAdopt DEF Ingest
<1>3. StartPass => Unseen'
  <2>1. StartPass => UNCHANGED <<disk, mass, unread, file>> /\ pc' = "ingest"
    BY DEF StartPass, db, vault
  <2> QED
    BY <2>1, UnseenSame
<1>4. Pass => Unseen'
  BY <1>2, <1>3, UnseenDelete, UnseenDrop, UnseenWrite, UnseenExpire DEF Pass
<1>5. (\E m, n \in Facts : Consolidate(m, n)) \/ WindowMoves \/ PassStops => Unseen'
  <2>1. (\E m, n \in Facts : Consolidate(m, n)) \/ WindowMoves \/ PassStops
        => UNCHANGED <<disk, mass, unread, file>> /\ pc' = "idle"
    BY DEF Consolidate, Ops, WindowMoves, PassStops, Leaves, db, vault, pass, history
  <2> QED
    BY <2>1, UnseenSame
<1>6. ASSUME NEW r \in Rows, GraceElapses(r) PROVE Unseen'
  <2>1. /\ UNCHANGED <<disk, mass, unread>> /\ pc' = "idle"
        /\ file' = [file EXCEPT ![r].missing = IF @ = "new" THEN "old" ELSE @]
    BY <1>6 DEF GraceElapses, vault, pass
  <2>2. ASSUME NEW q \in Rows
        PROVE  \/ file'[q] = file[q]
               \/ /\ file[q] # NoFile /\ file'[q].path = file[q].path
                  /\ file'[q].disk = file[q].disk /\ file'[q].state = file[q].state
    <3>1. CASE q # r
      BY <1>1, <2>1, <3>1
    <3>2. CASE q = r /\ file[q] = NoFile
      BY <1>1, <2>1, <3>2 DEF NoFile
    <3>3. CASE q = r /\ file[q] \in File
      BY <1>1, <2>1, <3>3, NoFileIsNone DEF File
    <3> QED
      BY <1>1, <3>1, <3>2, <3>3
  <2> QED
    BY <2>1, <2>2, UnseenSame
<1>7. UNCHANGED vars => Unseen'
  BY DEF vars, db, vault, pass, history, Unseen, Calm, Rows
<1> QED
  BY <1>4, <1>5, <1>6, <1>7, UnseenUser DEF Next

\* Only a put loses anything, of a file that is not, or no longer, what its row has on
\* record.
LEMMA LostNext ==
    ASSUME Sound, Unseen, LostOnlyIfUnrecordedOrRaced, [Next]_vars
    PROVE  LostOnlyIfUnrecordedOrRaced'
<1>0. /\ unread \subseteq Paths /\ lost \subseteq Paths \X {"unrecorded", "raced"}
      /\ file \in [Rows -> File \union {NoFile}]
  BY DEF Sound, TypeOK, LostOnlyIfUnrecordedOrRaced
<1>1. lost' = lost => LostOnlyIfUnrecordedOrRaced'
  BY <1>0 DEF LostOnlyIfUnrecordedOrRaced, Paths, Own
<1>2. ASSUME NEW r \in Rows, NEW c, Put(r, c), file[r] # NoFile,
             file[r].state \notin {"held", "quarantined"}
      PROVE  LostOnlyIfUnrecordedOrRaced'
  <2>1. CASE file[r].path \in unread
    <3>1. disk[file[r].path] = Expected(r) => file[r].disk = None
      BY <1>2, <2>1 DEF Expected, Unseen, Calm
    <3>2. PICK how \in {"unrecorded", "raced"} : lost' = lost \union {<<file[r].path, how>>}
      BY <1>2, <2>1, <3>1 DEF Put
    <3>3. <<file[r].path, how>> \in Paths \X {"unrecorded", "raced"}
      BY <1>0, <2>1
    <3>4. lost' \subseteq Paths \X {"unrecorded", "raced"}
      BY ONLY <1>0, <3>2, <3>3
    <3> QED
      BY <3>4 DEF LostOnlyIfUnrecordedOrRaced, Paths, Own
  <2>2. CASE file[r].path \notin unread
    BY <1>1, <1>2, <2>2 DEF Put
  <2> QED
    BY <2>1, <2>2
<1>3. CASE AdoptSwap
  <2>1. at \in Rows /\ file[at] # NoFile /\ file[at].state = "ok" /\ Put(at, Render(seen[at]))
    BY <1>3 DEF AdoptSwap, Sound, Reading, Rowed, Unseen
  <2> QED
    BY <1>2, <2>1
<1>4. CASE DropSwap
  <2>1. /\ at \in Rows /\ file[at] # NoFile /\ file[at].state \notin {"held", "quarantined"}
        /\ Put(at, None)
    BY <1>4 DEF DropSwap, Sound, Dropping, Rowed
  <2> QED
    BY <1>2, <2>1
<1>5. CASE WriteFile(FirstView) \/ WriteSwap
  <2>1. CASE WriteFile(FirstView)
    <3>1. Latest(FirstView) \in Rows /\ file[Latest(FirstView)] # NoFile
      BY <2>1, LatestOf DEF WriteFile, Rowed
    <3>2. \/ lost' = lost
          \/ /\ Put(Latest(FirstView), FirstView)
             /\ file[Latest(FirstView)].state \in {"ok", "restore"}
      BY <2>1 DEF WriteFile, CreateOnly
    <3> QED
      BY <1>1, <1>2, <3>1, <3>2
  <2>2. CASE WriteSwap
    <3>1. /\ at \in Rows /\ file[at] # NoFile /\ file[at].state \in {"ok", "restore"}
          /\ Put(at, FirstView)
      BY <2>2 DEF WriteSwap, Sound, Writing, Rowed
    <3> QED
      BY <1>2, <3>1
  <2> QED
    BY <1>5, <2>1, <2>2
<1>6. User => lost' = lost
  BY DEF User, UserWrites, UserRemoves, UserReturns, UserCopies, Touches, WebEdit, Forget, Ops,
         Refuse, Agree, KeepAll, ForgetAll, history
<1>7. Ingest => lost' = lost \/ AdoptSwap
  <2>1. \A p \in Paths : (\/ IngestLater(p) \/ IngestRaises(p) \/ IngestRefuses(p)
                          \/ IngestNewRule(p) \/ IngestNewFact(p)) => lost' = lost
    BY DEF IngestLater, IngestRaises, IngestRefuses, IngestNewRule, IngestNewFact, history
  <2>2. \A p \in Paths, r \in Rows : (\/ IngestSkips(p, r) \/ IngestQuarantines(p, r)
                                      \/ IngestHolds(p, r) \/ IngestChange(p, r)
                                      \/ IngestCosmetic(p, r)) => lost' = lost
    BY DEF IngestSkips, IngestQuarantines, IngestHolds, IngestChange, IngestCosmetic, history
  <2>3. Adopt \/ Adopted => lost' = lost
    BY DEF Adopt, Adopted, history
  <2>4. \A p \in Paths : IngestIgnores(p) => lost' = lost
    BY DEF IngestIgnores
  <2> QED
    BY <2>1, <2>2, <2>3, <2>4 DEF Ingest
<1>8. Write => lost' = lost \/ WriteFile(FirstView) \/ WriteSwap
  BY DEF Write, WriteRow, WriteQuarantines, WriteRaises, WriteSkips, history
<1>9. Pass => lost' = lost \/ AdoptSwap \/ DropSwap \/ WriteFile(FirstView) \/ WriteSwap
  <2>1. \A which \in SUBSET Rows, all \in {{}, mass} : ExpireHolds(which, all) => lost' = lost
    BY DEF ExpireHolds
  <2>2. StartPass \/ NoneDue \/ AskForAll \/ ForgetMissing \/ FollowHeads \/ DropRow \/ Views \/ Record
        => lost' = lost
    BY DEF StartPass, NoneDue, AskForAll, ForgetMissing, FollowHeads, DropRow, Views, Record, history
  <2>3. DropRaises \/ (\E r \in Rows : DropFile(r)) => lost' = lost
    BY DEF DropRaises, DropFile, history
  <2> QED
    BY <1>7, <1>8, <2>1, <2>2, <2>3 DEF Pass
<1>10. (\E m, n \in Facts : Consolidate(m, n)) \/ (\E r \in Rows : GraceElapses(r)) \/ WindowMoves
       \/ PassStops \/ UNCHANGED vars => lost' = lost
  BY DEF Consolidate, Ops, GraceElapses, WindowMoves, PassStops, vars, history
<1> QED
  BY <1>1, <1>3, <1>4, <1>5, <1>6, <1>9, <1>10 DEF Next

-----------------------------------------------------------------------------
(* The theorems.                                                            *)

LEMMA AlwaysSound == Spec => []Sound
BY SoundInit, SoundNext, PTL DEF Spec

\* Every row of the memory and file tables, every hold, every file and every step
\* of a pass is of its type, however the user's edits, corrections, answers and
\* forgets, time, cut-off passes and consolidations come between (sync.py,
\* ingest.py, deletions.py, holds.py, memory.py).
THEOREM SyncTyped == Spec => []TypeOK
<1>1. Sound => TypeOK
  BY DEF Sound
<1> QED
  BY <1>1, AlwaysSound, PTL

\* No rule enters or leaves the facts by way of a file unless the user said yes to
\* its very words (ingest.py's open_rule_hold, holds.py's _apply_rule).
THEOREM RulesNeedAYes == Spec => []RuleOnlyAgreed
<1>1. Init => RuleOnlyAgreed
  <2>1. Init => \A m \in Facts : memory[m].source \in {"extractor", "none"}
    BY DEF Init, NoFact
  <2> QED
    BY <2>1 DEF RuleOnlyAgreed
<1>2. Sound /\ RuleOnlyAgreed /\ [Next]_vars => RuleOnlyAgreed'
  BY RuleNext
<1> QED
  BY <1>1, <1>2, AlwaysSound, PTL DEF Spec

\* What the user wrote and no pass has read is put over or deleted only by a row that
\* has no hash on record, or by a request whose check the user's write came after
\* (sync.py's _render_facts and _write_file, ingest.py's adoption, store.py's check and
\* replace or unlink).
THEOREM UnreadIsKept == Spec => []LostOnlyIfUnrecordedOrRaced
<1>1. Init => Unseen /\ LostOnlyIfUnrecordedOrRaced
  <2>1. Init => unread = {} /\ lost = {} /\ pc = "idle"
    BY DEF Init
  <2>2. unread = {} => \A r \in Rows : Calm(r)
    BY DEF Calm
  <2> QED
    BY <2>1, <2>2 DEF Unseen, LostOnlyIfUnrecordedOrRaced
<1>2. Sound /\ Unseen /\ LostOnlyIfUnrecordedOrRaced /\ [Next]_vars
      => Unseen' /\ LostOnlyIfUnrecordedOrRaced'
  BY UnseenNext, LostNext
<1> QED
  BY <1>1, <1>2, AlwaysSound, PTL DEF Spec
=============================================================================
