---------------------- MODULE LedgerTransactionsProofs ----------------------
(***************************************************************************)
(* Theorems about LedgerTransactions, for every set of jobs, cases and     *)
(* lock orders: the committed audit entries of a merchant are one chain,   *)
(* and the entries about a row are its versions.                           *)
(*                                                                         *)
(* The invariant looks at the ledger as each transaction sees it, with the *)
(* entries it has not committed.  That view is a chain as well, because    *)
(* whoever has entries of a merchant holds the merchant's head row.        *)
(***************************************************************************)
EXTENDS LedgerTransactions, FiniteSetTheorems, SequenceTheorems, TLAPS

Genesis(m) == <<"genesis", m>>
RowName == Rows \cup {Genesis(m) : m \in Merchants}
Hash == {ZeroHash} \cup (Nat \X RowName \X Nat)
Entry == [merchant : Merchants, sequence : Nat \ {0}, previous : Hash,
          row : RowName, version : Nat]
LedgerHead == [sequence : Nat, hash : Hash]
Step == {Locks(r) : r \in Resources} \cup {Writes(r, r[2]) : r \in Rows}

TypeOK ==
    /\ work \in [Jobs -> Works]
    /\ phase \in [Jobs -> {"idle", "open", "done", "lost"}]
    /\ todo \in [Jobs -> Seq(Seq(Step))]
    /\ draft \in [Jobs -> SUBSET Entry]
    /\ tries \in [Jobs -> 0..MaxTries]
    /\ holder \in [Resources -> Jobs \cup {Nobody}]
    /\ chain \in [Merchants -> SUBSET Entry]
    /\ head \in [Merchants -> LedgerHead]
    /\ version \in [Rows -> Nat]

\* The merchant whose ledger has the entries about a row.
Ledger(r) == MerchantOf[r[2]]

\* S is a chain of entries of merchant m that begins with the genesis entry and
\* ends with the entry that h describes.
Linked(S, h, m) ==
    /\ h.sequence \in Nat
    /\ \A e \in S : e.merchant = m /\ e.sequence \in 1..h.sequence
    /\ \A n \in 1..h.sequence : \E e \in S : e.sequence = n
    /\ \A d, e \in S : d.sequence = e.sequence => d = e
    /\ \A e \in S : e.sequence = 1 <=> e.row = Genesis(m)
    /\ \A e \in S : e.sequence > 1 =>
          \E p \in S : p.sequence = e.sequence - 1 /\ NameOf(p) = e.previous
    /\ \A e \in S : e.sequence = h.sequence => NameOf(e) = h.hash

\* The entries about row r in S are its versions 1 to v, in the order of S.
Told(S, r, v) ==
    /\ v \in Nat
    /\ \A e \in S : e.row = r => e.version \in 1..v
    /\ \A n \in 1..v : \E e \in S : e.row = r /\ e.version = n
    /\ \A d, e \in S : d.row = r /\ e.row = r /\ d.sequence < e.sequence
                          => d.version < e.version

HasLast(S) == S # {} => \E e \in S : \A d \in S : d = e \/ d.sequence < e.sequence

\* Whoever has uncommitted entries of a merchant holds the merchant's head row.
HeadHeld == \A j \in Jobs, m \in Merchants :
                OwnEntries(j, m) # {} => holder[<<"head", m>>] = j

CommittedSafe ==
    /\ \A m \in Merchants : Linked(chain[m], head[m], m)
    /\ \A r \in Rows : Told(chain[Ledger(r)], r, version[r])

Seen(j, m) == chain[m] \cup OwnEntries(j, m)

ViewSafe(j) ==
    /\ \A e \in draft[j] : e.row \in Rows => e.merchant = Ledger(e.row)
    /\ \A m \in Merchants : HasLast(OwnEntries(j, m))
    /\ \A r \in Rows : HasLast(OwnWrites(j, r))
    /\ \A m \in Merchants : Linked(Seen(j, m), HeadSeen(j, m), m)
    /\ \A r \in Rows : Told(Seen(j, Ledger(r)), r, VersionSeen(j, r))

LedgerSafe == HeadHeld /\ CommittedSafe /\ \A j \in Jobs : ViewSafe(j)

-----------------------------------------------------------------------------
(* Lemmas about the ledger.                                                *)

\* A tag of a lock tells the heads from the rows.
LEMMA HeadsAreNotRows ==
    ASSUME NEW m \in Merchants
    PROVE  <<"head", m>> \in Resources /\ Genesis(m) \notin Rows
BY DEF Resources, Rows, Genesis

\* The last entry of a set is found if there is one.
LEMMA LastIsLast ==
    ASSUME NEW S \in SUBSET Entry, NEW e \in S,
           \A d \in S : d = e \/ d.sequence < e.sequence
    PROVE  LastOf(S) = e
<1>1. \A d \in S : d.sequence \in Nat
  BY DEF Entry
<1>2. \A d \in S : d.sequence <= e.sequence
  BY <1>1
<1>3. \A x \in S : (\A d \in S : d.sequence <= x.sequence) => x = e
  BY <1>1
<1>. QED  BY <1>2, <1>3 DEF LastOf

\* An entry made from the head continues the chain; it is the genesis entry
\* exactly when the chain is empty.
LEMMA LinkAppend ==
    ASSUME NEW S, NEW h, NEW m, NEW r, NEW v,
           Linked(S, h, m), r = Genesis(m) <=> h.sequence = 0
    PROVE  LET e == EntryAfter(h, m, r, v)
           IN  /\ Linked(S \cup {e}, Following(e), m)
               /\ \A d \in S : d.sequence < e.sequence
<1>. DEFINE e == EntryAfter(h, m, r, v)
            f == Following(e)
            n == h.sequence
<1>1. /\ n \in Nat
      /\ e.merchant = m /\ e.sequence = n + 1 /\ e.previous = h.hash
      /\ e.row = r /\ f.sequence = n + 1 /\ f.hash = NameOf(e)
  BY DEF Linked, EntryAfter, Following
<1>. HIDE DEF e, f
<1>2. \A d \in S : d.merchant = m /\ d.sequence \in 1..n
  BY DEF Linked
<1>3. \A d \in S : d.sequence < e.sequence
  BY <1>1, <1>2
<1>4. \A d \in S \cup {e} : d.merchant = m /\ d.sequence \in 1..f.sequence
  BY <1>1, <1>2
<1>5. \A k \in 1..f.sequence : \E d \in S \cup {e} : d.sequence = k
  <2>1. \A k \in 1..n : \E d \in S : d.sequence = k
    BY DEF Linked
  <2>. QED  BY <1>1, <2>1
<1>6. \A c, d \in S \cup {e} : c.sequence = d.sequence => c = d
  <2>1. \A c, d \in S : c.sequence = d.sequence => c = d
    BY DEF Linked
  <2>. QED  BY <1>1, <1>2, <1>3, <2>1
<1>7. \A d \in S \cup {e} : d.sequence = 1 <=> d.row = Genesis(m)
  <2>1. \A d \in S : d.sequence = 1 <=> d.row = Genesis(m)
    BY DEF Linked
  <2>. QED  BY <1>1, <2>1
<1>8. \A d \in S \cup {e} : d.sequence > 1 =>
          \E p \in S \cup {e} : p.sequence = d.sequence - 1 /\ NameOf(p) = d.previous
  <2>1. \A d \in S : d.sequence > 1 =>
            \E p \in S : p.sequence = d.sequence - 1 /\ NameOf(p) = d.previous
    BY DEF Linked
  <2>2. ASSUME e.sequence > 1
        PROVE  \E p \in S : p.sequence = e.sequence - 1 /\ NameOf(p) = e.previous
    <3>1. n \in 1..n /\ n = e.sequence - 1
      BY <1>1, <2>2
    <3>2. PICK p \in S : p.sequence = n
      BY <3>1 DEF Linked
    <3>. QED  BY <1>1, <3>1, <3>2 DEF Linked
  <2>. QED  BY <2>1, <2>2
<1>9. \A d \in S \cup {e} : d.sequence = f.sequence => NameOf(d) = f.hash
  BY <1>1, <1>2, <1>3
<1>10. f.sequence \in Nat
  BY <1>1
<1>11. Linked(S \cup {e}, f, m)
  BY <1>4, <1>5, <1>6, <1>7, <1>8, <1>9, <1>10 DEF Linked
<1>. QED  BY <1>3, <1>11 DEF e, f

\* The next version of a row continues its story.
LEMMA TellAppend ==
    ASSUME NEW S \in SUBSET Entry, NEW e \in Entry, NEW r, NEW v, Told(S, r, v),
           e.row = r, e.version = v + 1, \A d \in S : d.sequence < e.sequence
    PROVE  Told(S \cup {e}, r, v + 1)
<1>1. v \in Nat /\ \A d \in S \cup {e} : d.sequence \in Nat
  BY DEF Told, Entry
<1>2. \A d \in S \cup {e} : d.row = r => d.version \in 1..(v + 1)
  BY <1>1 DEF Told
<1>3. \A n \in 1..(v + 1) : \E d \in S \cup {e} : d.row = r /\ d.version = n
  BY <1>1 DEF Told
<1>4. \A c, d \in S \cup {e} : c.row = r /\ d.row = r /\ c.sequence < d.sequence
                                   => c.version < d.version
  BY <1>1, <1>2 DEF Told
<1>. QED  BY <1>1, <1>2, <1>3, <1>4 DEF Told

\* Entries about other rows change no story.
LEMMA TellOther ==
    ASSUME NEW S, NEW A, NEW r, NEW v, Told(S, r, v), \A e \in A : e.row # r
    PROVE  Told(S \cup A, r, v)
BY DEF Told

\* A chain has as many entries as its head counts.
LEMMA LinkedCardinality ==
    ASSUME NEW S, NEW h, NEW m, Linked(S, h, m)
    PROVE  IsFiniteSet(S) /\ Cardinality(S) = h.sequence
<1>. DEFINE n == h.sequence
            g == [k \in 1..n |-> CHOOSE e \in S : e.sequence = k]
<1>1. n \in Nat
  BY DEF Linked
<1>2. \A k \in 1..n : g[k] \in S /\ g[k].sequence = k
  BY DEF Linked
<1>3. \A e \in S : e.sequence \in 1..n /\ g[e.sequence] = e
  BY <1>2 DEF Linked
<1>. HIDE DEF g
<1>4. g \in [1..n -> S]
  BY <1>2 DEF g
<1>5. g \in Bijection(1..n, S)
  <2>1. \A a, b \in 1..n : g[a] = g[b] => a = b
    BY <1>2
  <2>2. \A e \in S : \E k \in 1..n : g[k] = e
    BY <1>3
  <2>3. g \in Injection(1..n, S)
    BY <1>4, <2>1 DEF Injection, IsInjective
  <2>4. g \in Surjection(1..n, S)
    BY <1>4, <2>2 DEF Surjection
  <2>. QED  BY <2>3, <2>4 DEF Bijection
<1>6. ExistsBijection(1..n, S)
  BY <1>5 DEF ExistsBijection
<1>. QED  BY <1>1, <1>6, FS_NatBijection, FS_CountingElements
-----------------------------------------------------------------------------
(* What a transaction sees.                                                *)

\* The head and the versions a transaction sees are of their types.
LEMMA ViewType ==
    ASSUME TypeOK, NEW j \in Jobs, ViewSafe(j)
    PROVE  /\ \A m \in Merchants : HeadSeen(j, m) \in LedgerHead
           /\ \A r \in Rows : VersionSeen(j, r) \in Nat
<1>1. ASSUME NEW m \in Merchants PROVE HeadSeen(j, m) \in LedgerHead
  <2>. DEFINE own == OwnEntries(j, m)
  <2>0. own \in SUBSET Entry
    BY DEF TypeOK, OwnEntries
  <2>1. CASE own = {}
    BY <2>1 DEF HeadSeen, TypeOK
  <2>2. CASE own # {}
    <3>1. PICK e \in own : \A d \in own : d = e \/ d.sequence < e.sequence
      BY <1>1, <2>2 DEF ViewSafe, HasLast
    <3>2. LastOf(own) = e
      BY <2>0, <3>1, LastIsLast
    <3>3. Following(e) \in LedgerHead
      BY <2>0, <3>1 DEF Following, LedgerHead, NameOf, Hash, Entry
    <3>. QED  BY <2>2, <3>2, <3>3 DEF HeadSeen
  <2>. QED  BY <2>1, <2>2
<1>2. ASSUME NEW r \in Rows PROVE VersionSeen(j, r) \in Nat
  BY <1>2 DEF ViewSafe, Told
<1>. QED  BY <1>1, <1>2

\* The writes of a transaction are among its entries of the row's merchant.
LEMMA WritesAreEntries ==
    ASSUME NEW j \in Jobs, ViewSafe(j), NEW r \in Rows
    PROVE  OwnWrites(j, r) \subseteq OwnEntries(j, Ledger(r)) /\ Ledger(r) \in Merchants
BY DEF ViewSafe, OwnWrites, OwnEntries, Ledger, Rows, Merchants

\* A transaction without entries of a merchant sees the committed ledger.
LEMMA SeesCommitted ==
    ASSUME NEW j \in Jobs, NEW m, OwnEntries(j, m) = {}
    PROVE  Seen(j, m) = chain[m] /\ HeadSeen(j, m) = head[m]
BY DEF Seen, HeadSeen

\* AuditLedger.append yields one entry for the write, which is the last one that
\* the transaction sees, and a genesis entry before it if there is none yet.
LEMMA AppendLinks ==
    ASSUME TypeOK, NEW j \in Jobs, ViewSafe(j), NEW r \in Rows
    PROVE  LET m == Ledger(r)
               A == Appended(j, r, r[2])
               S == Seen(j, m)
           IN  /\ A \in SUBSET Entry
               /\ \E e \in A :
                     /\ e.row = r
                     /\ Linked(S \cup A, Following(e), m)
                     /\ Told(S \cup A, r, e.version)
                     /\ \A d \in S \cup A : d = e \/ d.sequence < e.sequence
                     /\ \A d \in A : d.merchant = m /\ (d = e \/ d.row = Genesis(m))
<1>. DEFINE m == Ledger(r)
            S == Seen(j, m)
            h == HeadSeen(j, m)
            v == VersionSeen(j, r)
            A == Appended(j, r, r[2])
            genesis == EntryAfter(h, m, Genesis(m), 1)
            first == EntryAfter(Following(genesis), m, r, v + 1)
            next == EntryAfter(h, m, r, v + 1)
<1>1. m \in Merchants /\ r \in RowName /\ Genesis(m) \in RowName /\ r # Genesis(m)
  BY HeadsAreNotRows, WritesAreEntries DEF RowName
<1>2. h \in LedgerHead /\ v \in Nat /\ v + 1 \in Nat /\ 1 \in Nat
  BY <1>1, ViewType
<1>3. S \in SUBSET Entry
  BY <1>1 DEF Seen, OwnEntries, TypeOK
<1>4. Linked(S, h, m) /\ Told(S, r, v)
  BY <1>1 DEF ViewSafe
<1>5. A = IF h.sequence = 0 THEN {genesis, first} ELSE {next}
  BY DEF Appended, Ledger, Genesis
<1>6. ASSUME NEW g \in LedgerHead, NEW q \in RowName, NEW n \in Nat
      PROVE  /\ EntryAfter(g, m, q, n) \in Entry
             /\ EntryAfter(g, m, q, n).sequence = g.sequence + 1
             /\ EntryAfter(g, m, q, n).row = q
             /\ EntryAfter(g, m, q, n).version = n
             /\ EntryAfter(g, m, q, n).merchant = m
  BY <1>1, <1>6 DEF EntryAfter, Entry, LedgerHead
<1>7. CASE h.sequence # 0
  <2>1. next \in Entry /\ next.row = r /\ next.version = v + 1 /\ next.merchant = m
    BY <1>1, <1>2, <1>6
  <2>2. Linked(S \cup {next}, Following(next), m) /\ \A d \in S : d.sequence < next.sequence
    BY <1>1, <1>4, <1>7, LinkAppend
  <2>3. A = {next}
    BY <1>5, <1>7
  <2>. HIDE DEF next, A, S, m, v
  <2>4. Told(S \cup {next}, r, v + 1)
    BY <1>3, <1>4, <2>1, <2>2, TellAppend
  <2>. QED  BY <2>1, <2>2, <2>3, <2>4 DEF A, S, m
<1>8. CASE h.sequence = 0
  <2>1. genesis \in Entry /\ genesis.row = Genesis(m) /\ genesis.merchant = m
    BY <1>1, <1>2, <1>6
  <2>2. Linked(S \cup {genesis}, Following(genesis), m)
        /\ \A d \in S : d.sequence < genesis.sequence
    BY <1>4, <1>8, LinkAppend
  <2>3. Following(genesis) \in LedgerHead /\ Following(genesis).sequence = 1
    BY <1>1, <1>2, <1>6, <1>8, <2>1 DEF Following, LedgerHead, NameOf, Hash, Entry
  <2>4. first \in Entry /\ first.row = r /\ first.version = v + 1 /\ first.merchant = m
    BY <1>1, <1>2, <1>6, <2>3
  <2>5. /\ Linked((S \cup {genesis}) \cup {first}, Following(first), m)
        /\ \A d \in S \cup {genesis} : d.sequence < first.sequence
    <3>1. r = Genesis(m) <=> Following(genesis).sequence = 0
      BY <1>1, <2>3
    <3>. HIDE DEF genesis, S, m, v
    <3>. QED  BY <2>2, <3>1, LinkAppend
  <2>6. A = {genesis, first} /\ S \cup A = (S \cup {genesis}) \cup {first}
    BY <1>5, <1>8
  <2>. HIDE DEF genesis, first, A, S, m, v
  <2>7. Told(S \cup {genesis}, r, v)
    BY <1>1, <1>4, <2>1, TellOther
  <2>8. Told((S \cup {genesis}) \cup {first}, r, v + 1)
    BY <1>3, <2>1, <2>4, <2>5, <2>7, TellAppend
  <2>9. \A d \in S \cup A : d = first \/ d.sequence < first.sequence
    BY <2>5, <2>6
  <2>. QED  BY <2>1, <2>4, <2>5, <2>6, <2>8, <2>9 DEF A, S, m
<1>. QED  BY <1>7, <1>8
-----------------------------------------------------------------------------
(* Types.                                                                  *)

\* Every lock order is a sequence of steps.
LEMMA OrderType ==
    ASSUME NEW kind \in Kinds, NEW c \in Cases
    PROVE  OrderOf(kind, c) \in Seq(Step)
<1>1. /\ Locks(MerchantLock(c)) \in Step /\ Locks(CustomerLock(c)) \in Step
      /\ Locks(IncidentRow(c)) \in Step
  BY DEF Step, Resources, Rows, Merchants, Customers, MerchantLock, CustomerLock, IncidentRow
<1>2. /\ Locks(CaseRow(c)) \in Step /\ Locks(ActionRow(c)) \in Step
      /\ Locks(ReviewRow(c)) \in Step /\ Locks(PromiseRow(c)) \in Step
      /\ Locks(InvoiceRow(c)) \in Step /\ Locks(WebhookRow(c)) \in Step
      /\ Locks(DispatchRow(c)) \in Step
  BY DEF Step, Resources, Rows, CaseRow, ActionRow, ReviewRow, PromiseRow, InvoiceRow,
         WebhookRow, DispatchRow
<1>3. /\ Writes(CaseRow(c), c) \in Step /\ Writes(ActionRow(c), c) \in Step
      /\ Writes(ReviewRow(c), c) \in Step /\ Writes(WebhookRow(c), c) \in Step
  <2>1. ASSUME NEW r \in Rows, r[2] = c PROVE Writes(r, c) \in Step
    BY <2>1 DEF Step
  <2>2. /\ CaseRow(c) \in Rows /\ ActionRow(c) \in Rows
        /\ ReviewRow(c) \in Rows /\ WebhookRow(c) \in Rows
        /\ CaseRow(c)[2] = c /\ ActionRow(c)[2] = c
        /\ ReviewRow(c)[2] = c /\ WebhookRow(c)[2] = c
    BY DEF Rows, CaseRow, ActionRow, ReviewRow, WebhookRow
  <2>. QED  BY <2>1, <2>2
<1>4. [i \in 1..Len(Affected[c]) |-> Locks(CaseRow(Affected[c][i]))] \in Seq(Step)
  <2>1. Affected[c] \in Seq(Cases)
    BY JobsAssumption
  <2>2. ASSUME NEW d \in Cases PROVE Locks(CaseRow(d)) \in Step
    BY DEF Step, Resources, Rows, CaseRow
  <2>3. \A i \in 1..Len(Affected[c]) : Locks(CaseRow(Affected[c][i])) \in Step
    BY <2>1, <2>2, ElementOfSeq, LenProperties
  <2>4. Len(Affected[c]) \in Nat
    BY <2>1, LenProperties
  <2>. HIDE DEF Step
  <2>. QED  BY <2>3, <2>4, IsASeq
<1>. HIDE DEF Step
<1>5. Evaluation(c) \in Seq(Step)
  BY <1>1, <1>3 DEF Evaluation
<1>6. Observation(c) \in Seq(Step) /\ IntakeOrder(c) \in Seq(Step)
  <2>1. <<Locks(MerchantLock(c)), Locks(IncidentRow(c))>> \in Seq(Step)
    BY <1>1
  <2>2. Observation(c) \in Seq(Step)
    BY <1>4, <2>1, ConcatProperties DEF Observation
  <2>3. IntakeOrder(c) \in Seq(Step)
    BY <1>2 DEF IntakeOrder
  <2>. QED  BY <2>2, <2>3
<1>7. PortfolioOrder(c) \in Seq(Step)
  <2>1. <<Locks(CaseRow(c))>> \in Seq(Step)
    BY <1>2
  <2>. QED  BY <1>6, <2>1, ConcatProperties DEF PortfolioOrder
<1>8. EventOrder(c) \in Seq(Step)
  <2>1. <<Locks(CaseRow(c))>> \in Seq(Step)
    BY <1>2
  <2>. QED  BY <1>5, <1>6, <2>1, ConcatProperties DEF EventOrder
<1>9. PaymentOrder(c) \in Seq(Step)
  <2>1. <<Locks(CaseRow(c)), Locks(ActionRow(c)),
          Writes(ActionRow(c), c), Writes(CaseRow(c), c)>> \in Seq(Step)
    BY <1>2, <1>3
  <2>. QED  BY <1>6, <2>1, ConcatProperties DEF PaymentOrder
<1>10. OverdueOrder(c) \in Seq(Step)
  <2>1. <<Locks(InvoiceRow(c)), Locks(MerchantLock(c)), Locks(CaseRow(c))>> \in Seq(Step)
    BY <1>1, <1>2
  <2>. QED  BY <1>5, <2>1, ConcatProperties DEF OverdueOrder
<1>11. ReviewOrder(c) \in Seq(Step)
  <2>1. <<Locks(MerchantLock(c)), Locks(ReviewRow(c)), Locks(CaseRow(c)),
          Writes(ReviewRow(c), c), Writes(CaseRow(c), c)>> \in Seq(Step)
    BY <1>1, <1>2, <1>3
  <2>. QED  BY <1>5, <2>1, ConcatProperties DEF ReviewOrder
<1>12. /\ PrepareOrder(c) \in Seq(Step) /\ ResultOrder(c) \in Seq(Step)
       /\ LookupOrder(c) \in Seq(Step) /\ StaleCallOrder(c) \in Seq(Step)
       /\ PromiseOrder(c) \in Seq(Step) /\ WebhookOrder(c) \in Seq(Step)
  BY <1>1, <1>2, <1>3
     DEF PrepareOrder, ResultOrder, LookupOrder, StaleCallOrder, PromiseOrder, WebhookOrder
<1>13. /\ ResponseOrder(c) \in Seq(Step) /\ BrokenOrder(c) \in Seq(Step)
       /\ FailureOrder(c) \in Seq(Step) /\ <<>> \in Seq(Step)
  BY <1>2 DEF ResponseOrder, BrokenOrder, FailureOrder
<1>14. <<Writes(CaseRow(c), c)>> \o Evaluation(c) \in Seq(Step)
  <2>1. <<Writes(CaseRow(c), c)>> \in Seq(Step)
    BY <1>3
  <2>. QED  BY <1>5, <2>1, ConcatProperties
<1>. QED
  BY <1>7, <1>8, <1>9, <1>10, <1>11, <1>12, <1>13, <1>14 DEF OrderOf, Kinds

\* A step that is done leaves a plan of steps.
LEMMA PerformedType ==
    ASSUME TypeOK, NEW j \in Jobs, NEW i \in DOMAIN todo[j], Turn(j, i)
    PROVE  Performed(j, i) \in [Jobs -> Seq(Seq(Step))] /\ Head(todo[j][i]) \in Step
<1>1. todo[j] \in Seq(Seq(Step)) /\ i \in 1..Len(todo[j])
  BY LenProperties DEF TypeOK
<1>2. todo[j][i] \in Seq(Step) /\ todo[j][i] # <<>>
  BY <1>1, ElementOfSeq DEF Turn
<1>3. Tail(todo[j][i]) \in Seq(Step) /\ Head(todo[j][i]) \in Step
  BY <1>2, HeadTailProperties
<1>4. [todo[j] EXCEPT ![i] = Tail(@)] \in Seq(Seq(Step))
  BY <1>1, <1>3, ExceptSeq
<1>5. Performed(j, i) = [todo EXCEPT ![j] = [todo[j] EXCEPT ![i] = Tail(@)]]
  BY DEF Performed
<1>. QED  BY <1>3, <1>4, <1>5 DEF TypeOK

\* The lock a step waits for is a resource; a write waits for the head of its row.
LEMMA StepType ==
    ASSUME NEW s \in Step
    PROVE  /\ s.on \in Resources
           /\ s.op = "write" => /\ s.row \in Rows /\ s.case = s.row[2]
                                /\ s.on = <<"head", Ledger(s.row)>>
<1>1. ASSUME NEW r \in Rows
      PROVE  <<"head", Ledger(r)>> \in Resources
  BY WritesAreEntries, HeadsAreNotRows DEF Ledger, Rows, Merchants, Resources
<1>2. CASE \E r \in Resources : s = Locks(r)
  BY <1>2 DEF Locks
<1>3. CASE \E r \in Rows : s = Writes(r, r[2])
  BY <1>1, <1>3 DEF Writes, HeadRow, Ledger
<1>. QED  BY <1>2, <1>3 DEF Step

\* Every step keeps the types; what is appended is computed from a safe view.
LEMMA TypeStep ==
    ASSUME TypeOK, \A j \in Jobs : ViewSafe(j), [Next]_vars
    PROVE  TypeOK'
<1>. USE DEF TypeOK
<1>1. ASSUME NEW j \in Jobs, Begin(j) PROVE TypeOK'
  <2>. DEFINE kind == work[j].kind
              cases == work[j].cases
              Takes(i) == IsBatch(kind) => holder[BatchRow(kind, cases[i])] = Nobody
              plan == [i \in 1..Len(cases) |-> IF Takes(i) THEN OrderOf(kind, cases[i]) ELSE <<>>]
  <2>1. kind \in Kinds /\ cases \in Seq(Cases)
    BY JobsAssumption
  <2>2. Len(cases) \in Nat /\ \A i \in 1..Len(cases) : cases[i] \in Cases
    BY <2>1, LenProperties, ElementOfSeq
  <2>3. \A i \in 1..Len(cases) : (IF Takes(i) THEN OrderOf(kind, cases[i]) ELSE <<>>) \in Seq(Step)
    <3>1. <<>> \in Seq(Step)
      OBVIOUS
    <3>2. \A i \in 1..Len(cases) : OrderOf(kind, cases[i]) \in Seq(Step)
      BY <2>1, <2>2, OrderType
    <3>. QED  BY <3>1, <3>2
  <2>4. todo' = [todo EXCEPT ![j] = plan]
    BY <1>1 DEF Begin
  <2>. HIDE DEF kind, cases, Takes
  <2>5. plan \in Seq(Seq(Step))
    BY <2>2, <2>3, IsASeq
  <2>6. todo' \in [Jobs -> Seq(Seq(Step))]
    <3>. HIDE DEF plan
    <3>. QED  BY <2>4, <2>5
  <2>7. phase' \in [Jobs -> {"idle", "open", "done", "lost"}]
        /\ holder' \in [Resources -> Jobs \cup {Nobody}]
    BY <1>1 DEF Begin
  <2>. QED  BY <1>1, <2>6, <2>7 DEF Begin
<1>2. ASSUME NEW j \in Jobs, Acquire(j) PROVE TypeOK'
  <2>1. PICK i \in DOMAIN todo[j] :
            /\ Turn(j, i) /\ todo' = Performed(j, i)
            /\ holder' = [holder EXCEPT ![Head(todo[j][i]).on] = j]
    BY <1>2 DEF Acquire
  <2>2. todo' \in [Jobs -> Seq(Seq(Step))]
    BY <2>1, PerformedType
  <2>. QED  BY <1>2, <2>1, <2>2 DEF Acquire
<1>3. ASSUME NEW j \in Jobs, Write(j) PROVE TypeOK'
  <2>1. PICK i \in DOMAIN todo[j] :
            LET s == Head(todo[j][i])
            IN  /\ Turn(j, i) /\ s.op = "write"
                /\ holder' = [holder EXCEPT ![s.on] = j]
                /\ draft' = [draft EXCEPT ![j] = @ \cup Appended(j, s.row, s.case)]
                /\ todo' = Performed(j, i)
    BY <1>3 DEF Write
  <2>. DEFINE s == Head(todo[j][i])
  <2>2. todo' \in [Jobs -> Seq(Seq(Step))] /\ s \in Step
    BY <2>1, PerformedType
  <2>3. s.row \in Rows /\ s.case = s.row[2]
    BY <2>1, <2>2, StepType
  <2>4. Appended(j, s.row, s.case) \in SUBSET Entry
    BY <2>3, AppendLinks
  <2>5. draft' \in [Jobs -> SUBSET Entry]
    BY <2>1, <2>4
  <2>. QED  BY <1>3, <2>1, <2>2, <2>5 DEF Write
<1>4. ASSUME NEW j \in Jobs, Commit(j) PROVE TypeOK'
  <2>1. /\ \A m \in Merchants : HeadSeen(j, m) \in LedgerHead
        /\ \A r \in Rows : VersionSeen(j, r) \in Nat
        /\ \A m \in Merchants : OwnEntries(j, m) \in SUBSET Entry
    BY ViewType DEF OwnEntries
  <2>2. /\ chain' \in [Merchants -> SUBSET Entry] /\ head' \in [Merchants -> LedgerHead]
        /\ version' \in [Rows -> Nat]
    BY <1>4, <2>1 DEF Commit
  <2>3. /\ holder' \in [Resources -> Jobs \cup {Nobody}]
        /\ todo' \in [Jobs -> Seq(Seq(Step))]
        /\ draft' \in [Jobs -> SUBSET Entry]
        /\ phase' \in [Jobs -> {"idle", "open", "done", "lost"}]
    BY <1>4 DEF Commit, Released
  <2>. QED  BY <1>4, <2>2, <2>3 DEF Commit
<1>5. ASSUME NEW j \in Jobs, RollBack(j) PROVE TypeOK'
  <2>1. tries' \in [Jobs -> 0..MaxTries]
    BY <1>5, JobsAssumption DEF RollBack
  <2>2. /\ holder' \in [Resources -> Jobs \cup {Nobody}]
        /\ todo' \in [Jobs -> Seq(Seq(Step))]
        /\ draft' \in [Jobs -> SUBSET Entry]
        /\ phase' \in [Jobs -> {"idle", "open", "done", "lost"}]
    BY <1>5 DEF RollBack, Released
  <2>. QED  BY <1>5, <2>1, <2>2 DEF RollBack
<1>6. CASE UNCHANGED vars
  BY <1>6 DEF vars
<1>. QED
  BY <1>1, <1>2, <1>3, <1>4, <1>5, <1>6 DEF Next, AbortVictim, LoseWorker, Finished
-----------------------------------------------------------------------------
(* The ledger stays safe.                                                  *)

\* The committed ledger stays as it is.
SameLedger == UNCHANGED <<chain, head, version>>

\* No head row is taken away from the job that has it.
HeadsKept ==
    \A m \in Merchants : holder[<<"head", m>>] \in Jobs
                             => holder'[<<"head", m>>] = holder[<<"head", m>>]

\* What a transaction sees changes only with its draft and the committed ledger.
LEMMA SameView ==
    ASSUME NEW k \in Jobs, ViewSafe(k), SameLedger, draft'[k] = draft[k]
    PROVE  ViewSafe(k)'
<1>1. /\ \A m : OwnEntries(k, m)' = OwnEntries(k, m)
      /\ \A r : OwnWrites(k, r)' = OwnWrites(k, r)
  BY DEF OwnEntries, OwnWrites
<1>2. /\ \A m : HeadSeen(k, m)' = HeadSeen(k, m) /\ Seen(k, m)' = Seen(k, m)
      /\ \A r : VersionSeen(k, r)' = VersionSeen(k, r)
  BY <1>1 DEF SameLedger, HeadSeen, Seen, VersionSeen
<1>. QED  BY <1>1, <1>2 DEF ViewSafe

\* A transaction without a draft sees the committed ledger.
LEMMA EmptyView ==
    ASSUME NEW k \in Jobs, CommittedSafe', draft'[k] = {}
    PROVE  ViewSafe(k)'
<1>1. /\ \A m : OwnEntries(k, m)' = {}
      /\ \A r : OwnWrites(k, r)' = {}
  BY DEF OwnEntries, OwnWrites
<1>2. /\ \A m : HeadSeen(k, m)' = head'[m] /\ Seen(k, m)' = chain'[m]
      /\ \A r : VersionSeen(k, r)' = version'[r]
  BY <1>1 DEF HeadSeen, Seen, VersionSeen
<1>. QED  BY <1>1, <1>2 DEF ViewSafe, CommittedSafe, HasLast, Ledger

\* Steps that append nothing keep the ledger safe.
LEMMA QuietSafe ==
    ASSUME LedgerSafe, SameLedger, HeadsKept, UNCHANGED draft
    PROVE  LedgerSafe'
<1>1. \A j \in Jobs : ViewSafe(j)'
  BY SameView DEF LedgerSafe
<1>2. CommittedSafe'
  BY DEF LedgerSafe, CommittedSafe, SameLedger
<1>3. HeadHeld'
  BY DEF LedgerSafe, HeadHeld, HeadsKept, OwnEntries
<1>. QED  BY <1>1, <1>2, <1>3 DEF LedgerSafe

\* A lock that can be granted is taken from nobody else.
LEMMA GrantKeepsHeads ==
    ASSUME TypeOK, NEW j \in Jobs, NEW r \in Resources, Grantable(j, r),
           holder' = [holder EXCEPT ![r] = j]
    PROVE  HeadsKept
<1>. SUFFICES ASSUME NEW m \in Merchants, holder[<<"head", m>>] \in Jobs
              PROVE  holder'[<<"head", m>>] = holder[<<"head", m>>]
  BY DEF HeadsKept
<1>1. CASE <<"head", m>> = r
  <2>1. holder[r] = j
    BY <1>1, JobsAssumption DEF Grantable
  <2>. QED  BY <1>1, <2>1 DEF TypeOK
<1>2. CASE <<"head", m>> # r
  BY <1>2, HeadsAreNotRows DEF TypeOK
<1>. QED  BY <1>1, <1>2

\* The end of a transaction releases its locks and no others.
LEMMA ReleaseKeepsOthers ==
    ASSUME NEW j \in Jobs, NEW k \in Jobs, k # j, NEW m \in Merchants,
           holder' = Released(j), holder[<<"head", m>>] = k
    PROVE  holder'[<<"head", m>>] = k
BY HeadsAreNotRows DEF Released

\* A rolled back transaction leaves no trace.
LEMMA RollBackSafe ==
    ASSUME TypeOK, LedgerSafe, NEW j \in Jobs, RollBack(j)
    PROVE  LedgerSafe'
<1>1. SameLedger /\ holder' = Released(j) /\ draft' = [draft EXCEPT ![j] = {}]
  BY DEF RollBack, SameLedger
<1>2. CommittedSafe'
  BY <1>1 DEF LedgerSafe, CommittedSafe, SameLedger
<1>3. draft'[j] = {} /\ \A k \in Jobs \ {j} : draft'[k] = draft[k]
  BY <1>1 DEF TypeOK
<1>4. ViewSafe(j)'
  BY <1>2, <1>3, EmptyView
<1>5. \A k \in Jobs \ {j} : ViewSafe(k)'
  BY <1>1, <1>3, SameView DEF LedgerSafe
<1>6. HeadHeld'
  BY <1>1, <1>3, ReleaseKeepsOthers DEF LedgerSafe, HeadHeld, OwnEntries
<1>. QED  BY <1>2, <1>4, <1>5, <1>6 DEF LedgerSafe

\* A write appends to the writer's view, and nobody else has entries of the
\* merchant then, because the writer was given the head row.
LEMMA WriteSafe ==
    ASSUME TypeOK, LedgerSafe, NEW j \in Jobs, Write(j)
    PROVE  LedgerSafe'
<1>1. PICK i \in DOMAIN todo[j] :
          LET s == Head(todo[j][i])
          IN  /\ Turn(j, i) /\ s.op = "write"
              /\ Grantable(j, s.on)
              /\ holder' = [holder EXCEPT ![s.on] = j]
              /\ draft' = [draft EXCEPT ![j] = @ \cup Appended(j, s.row, s.case)]
  BY DEF Write
<1>2. \E r \in Rows :
         /\ <<"head", Ledger(r)>> \in Resources /\ Ledger(r) \in Merchants
         /\ Grantable(j, <<"head", Ledger(r)>>)
         /\ holder' = [holder EXCEPT ![<<"head", Ledger(r)>>] = j]
         /\ draft' = [draft EXCEPT ![j] = @ \cup Appended(j, r, r[2])]
  <2>. DEFINE s == Head(todo[j][i])
  <2>1. s \in Step
    BY <1>1, PerformedType
  <2>2. /\ s.row \in Rows /\ s.case = s.row[2] /\ s.on = <<"head", Ledger(s.row)>>
        /\ s.on \in Resources /\ Ledger(s.row) \in Merchants
    BY <1>1, <2>1, StepType, WritesAreEntries DEF LedgerSafe
  <2>. QED  BY <1>1, <2>2
<1>3. PICK r \in Rows, m \in Merchants, A \in SUBSET Entry :
         /\ m = Ledger(r) /\ A = Appended(j, r, r[2]) /\ <<"head", m>> \in Resources
         /\ Grantable(j, <<"head", m>>)
         /\ holder' = [holder EXCEPT ![<<"head", m>>] = j]
         /\ draft' = [draft EXCEPT ![j] = @ \cup A]
  BY <1>2, AppendLinks DEF LedgerSafe
<1>4. SameLedger
  BY DEF Write, SameLedger
<1>5. /\ A \in SUBSET Entry
      /\ \E e \in A :
            /\ e.row = r
            /\ Linked(Seen(j, m) \cup A, Following(e), m)
            /\ Told(Seen(j, m) \cup A, r, e.version)
            /\ \A d \in Seen(j, m) \cup A : d = e \/ d.sequence < e.sequence
            /\ \A d \in A : d.merchant = m /\ (d = e \/ d.row = Genesis(m))
  BY <1>3, AppendLinks DEF LedgerSafe
<1>6. PICK e \in A :
          /\ e.row = r
          /\ Linked(Seen(j, m) \cup A, Following(e), m)
          /\ Told(Seen(j, m) \cup A, r, e.version)
          /\ \A d \in Seen(j, m) \cup A : d = e \/ d.sequence < e.sequence
          /\ \A d \in A : d.merchant = m /\ (d = e \/ d.row = Genesis(m))
  BY <1>5
<1>7. CommittedSafe'
  BY <1>4 DEF LedgerSafe, CommittedSafe, SameLedger
<1>8. HeadsKept
  BY <1>3, GrantKeepsHeads
<1>9. draft'[j] = draft[j] \cup A /\ \A k \in Jobs \ {j} : draft'[k] = draft[k]
  BY <1>3 DEF TypeOK
<1>10. HeadHeld'
  <2>1. holder'[<<"head", m>>] = j
    BY <1>3, <1>4 DEF TypeOK
  <2>2. \A k \in Jobs \ {j} : OwnEntries(k, m) = {}
    BY <1>3, <1>4, JobsAssumption DEF LedgerSafe, HeadHeld, Grantable
  <2>3. ASSUME NEW k \in Jobs, NEW n \in Merchants, OwnEntries(k, n)' # {}, n # m \/ k # j
        PROVE  OwnEntries(k, n) # {}
    BY <1>6, <1>9, <2>3 DEF OwnEntries
  <2>. QED  BY <1>8, <2>1, <2>2, <2>3 DEF LedgerSafe, HeadHeld, HeadsKept
<1>11. \A k \in Jobs \ {j} : ViewSafe(k)'
  BY <1>4, <1>9, SameView DEF LedgerSafe
<1>12. ViewSafe(j)'
  <2>1. /\ OwnEntries(j, m)' = OwnEntries(j, m) \cup A
        /\ \A n \in Merchants \ {m} : OwnEntries(j, n)' = OwnEntries(j, n)
    BY <1>6, <1>9 DEF OwnEntries
  <2>2. /\ OwnWrites(j, r)' = OwnWrites(j, r) \cup {e}
        /\ \A q \in Rows \ {r} : OwnWrites(j, q)' = OwnWrites(j, q)
    <3>1. Genesis(m) \notin Rows
      BY <1>3, HeadsAreNotRows
    <3>. QED  BY <1>3, <1>6, <1>9, <3>1 DEF OwnWrites
  <2>3. /\ Seen(j, m)' = Seen(j, m) \cup A
        /\ \A n \in Merchants \ {m} : Seen(j, n)' = Seen(j, n)
    BY <1>4, <2>1 DEF Seen, SameLedger
  <2>4. OwnEntries(j, m)' \in SUBSET Entry /\ OwnWrites(j, r)' \in SUBSET Entry
    BY <1>5, <1>9 DEF TypeOK, OwnEntries, OwnWrites
  <2>5. \A d \in OwnEntries(j, m)' \cup OwnWrites(j, r)' : d = e \/ d.sequence < e.sequence
    <3>1. OwnWrites(j, r) \subseteq OwnEntries(j, m)
      BY <1>3, WritesAreEntries DEF LedgerSafe
    <3>. QED  BY <1>6, <2>1, <2>2, <3>1 DEF Seen
  <2>6. HeadSeen(j, m)' = Following(e)
    <3>1. e \in OwnEntries(j, m)'
      BY <2>1
    <3>2. LastOf(OwnEntries(j, m)') = e
      BY <2>4, <2>5, <3>1, LastIsLast
    <3>. QED  BY <3>1, <3>2 DEF HeadSeen
  <2>7. VersionSeen(j, r)' = e.version
    <3>1. e \in OwnWrites(j, r)'
      BY <2>2
    <3>2. LastOf(OwnWrites(j, r)') = e
      BY <2>4, <2>5, <3>1, LastIsLast
    <3>. QED  BY <3>1, <3>2 DEF VersionSeen
  <2>8. /\ \A n \in Merchants \ {m} : HeadSeen(j, n)' = HeadSeen(j, n)
        /\ \A q \in Rows \ {r} : VersionSeen(j, q)' = VersionSeen(j, q)
    BY <1>4, <2>1, <2>2 DEF HeadSeen, VersionSeen, SameLedger
  <2>9. \A d \in draft'[j] : d.row \in Rows => d.merchant = Ledger(d.row)
    <3>1. Genesis(m) \notin Rows
      BY <1>3, HeadsAreNotRows
    <3>. QED  BY <1>3, <1>6, <1>9, <3>1 DEF LedgerSafe, ViewSafe
  <2>10. \A n \in Merchants : HasLast(OwnEntries(j, n)')
    <3>1. HasLast(OwnEntries(j, m)')
      BY <2>1, <2>5 DEF HasLast
    <3>. QED  BY <2>1, <3>1 DEF LedgerSafe, ViewSafe
  <2>11. \A q \in Rows : HasLast(OwnWrites(j, q)')
    <3>1. HasLast(OwnWrites(j, r)')
      BY <2>2, <2>5 DEF HasLast
    <3>. QED  BY <2>2, <3>1 DEF LedgerSafe, ViewSafe
  <2>12. \A n \in Merchants : Linked(Seen(j, n)', HeadSeen(j, n)', n)
    BY <1>6, <2>3, <2>6, <2>8 DEF LedgerSafe, ViewSafe
  <2>13. ASSUME NEW q \in Rows
         PROVE  Told(Seen(j, Ledger(q))', q, VersionSeen(j, q)')
    <3>0. Ledger(q) \in Merchants /\ Told(Seen(j, Ledger(q)), q, VersionSeen(j, q))
      BY WritesAreEntries DEF LedgerSafe, ViewSafe
    <3>1. CASE q = r
      BY <1>3, <1>6, <2>3, <2>7, <3>1
    <3>2. CASE q # r /\ Ledger(q) = m
      <4>1. \A d \in A : d.row # q
        BY <1>3, <1>6, <3>2, HeadsAreNotRows
      <4>2. Told(Seen(j, m) \cup A, q, VersionSeen(j, q))
        BY <3>0, <3>2, <4>1, TellOther
      <4>. QED  BY <2>3, <2>8, <3>2, <4>2
    <3>3. CASE q # r /\ Ledger(q) # m
      BY <2>3, <2>8, <3>0, <3>3
    <3>. QED  BY <3>1, <3>2, <3>3
  <2>. QED  BY <2>9, <2>10, <2>11, <2>12, <2>13 DEF ViewSafe, Ledger
<1>. QED  BY <1>7, <1>10, <1>11, <1>12 DEF LedgerSafe

\* A commit makes the view of a transaction the committed ledger.  Another view
\* of the same merchant has no entries of its own, so it moves on with it.
LEMMA CommitSafe ==
    ASSUME TypeOK, LedgerSafe, NEW j \in Jobs, Commit(j)
    PROVE  LedgerSafe'
<1>1. /\ chain' = [m \in Merchants |-> Seen(j, m)]
      /\ head' = [m \in Merchants |-> HeadSeen(j, m)]
      /\ version' = [r \in Rows |-> VersionSeen(j, r)]
      /\ holder' = Released(j)
      /\ draft'[j] = {} /\ \A k \in Jobs \ {j} : draft'[k] = draft[k]
  BY DEF Commit, Seen, TypeOK
<1>2. CommittedSafe'
  <2>1. \A r \in Rows : Ledger(r) \in Merchants
    BY WritesAreEntries DEF LedgerSafe
  <2>. QED  BY <1>1, <2>1 DEF LedgerSafe, ViewSafe, CommittedSafe, Ledger
<1>3. HeadHeld'
  BY <1>1, ReleaseKeepsOthers DEF LedgerSafe, HeadHeld, OwnEntries
<1>4. ViewSafe(j)'
  BY <1>1, <1>2, EmptyView
<1>5. ASSUME NEW k \in Jobs \ {j}
      PROVE  ViewSafe(k)'
  <2>1. /\ \A m : OwnEntries(k, m)' = OwnEntries(k, m)
        /\ \A r : OwnWrites(k, r)' = OwnWrites(k, r)
    BY <1>1 DEF OwnEntries, OwnWrites
  <2>2. ASSUME NEW m \in Merchants, OwnEntries(k, m) # {}
        PROVE  OwnEntries(j, m) = {} /\ chain'[m] = chain[m] /\ head'[m] = head[m]
    <3>1. OwnEntries(j, m) = {}
      BY <2>2 DEF LedgerSafe, HeadHeld
    <3>. QED  BY <1>1, <3>1, SeesCommitted
  <2>3. ASSUME NEW r \in Rows, OwnEntries(k, Ledger(r)) # {}
        PROVE  version'[r] = version[r]
    <3>1. OwnWrites(j, r) = {}
      BY <2>2, <2>3, WritesAreEntries DEF LedgerSafe
    <3>. QED  BY <1>1, <3>1 DEF VersionSeen
  <2>4. ASSUME NEW m \in Merchants
        PROVE  Linked(Seen(k, m)', HeadSeen(k, m)', m)
    <3>1. CASE OwnEntries(k, m) = {}
      <4>1. Seen(k, m)' = chain'[m] /\ HeadSeen(k, m)' = head'[m]
        BY <2>1, <3>1 DEF Seen, HeadSeen
      <4>. QED  BY <1>2, <4>1 DEF CommittedSafe
    <3>2. CASE OwnEntries(k, m) # {}
      <4>1. Seen(k, m)' = Seen(k, m) /\ HeadSeen(k, m)' = HeadSeen(k, m)
        BY <2>1, <2>2, <3>2 DEF Seen, HeadSeen
      <4>. QED  BY <4>1 DEF LedgerSafe, ViewSafe
    <3>. QED  BY <3>1, <3>2
  <2>5. ASSUME NEW r \in Rows
        PROVE  Told(Seen(k, Ledger(r))', r, VersionSeen(k, r)')
    <3>0. Ledger(r) \in Merchants /\ OwnWrites(k, r) \subseteq OwnEntries(k, Ledger(r))
      BY WritesAreEntries DEF LedgerSafe
    <3>1. CASE OwnEntries(k, Ledger(r)) = {}
      <4>1. Seen(k, Ledger(r))' = chain'[Ledger(r)] /\ VersionSeen(k, r)' = version'[r]
        BY <2>1, <3>0, <3>1 DEF Seen, VersionSeen, Ledger
      <4>. QED  BY <1>2, <4>1 DEF CommittedSafe, Ledger
    <3>2. CASE OwnEntries(k, Ledger(r)) # {}
      <4>1. Seen(k, Ledger(r))' = Seen(k, Ledger(r)) /\ VersionSeen(k, r)' = VersionSeen(k, r)
        BY <2>1, <2>2, <2>3, <3>0, <3>2 DEF Seen, VersionSeen, Ledger
      <4>. QED  BY <4>1 DEF LedgerSafe, ViewSafe
    <3>. QED  BY <3>1, <3>2
  <2>6. \A e \in draft'[k] : e.row \in Rows => e.merchant = Ledger(e.row)
    BY <1>1 DEF LedgerSafe, ViewSafe
  <2>7. /\ \A m \in Merchants : HasLast(OwnEntries(k, m)')
        /\ \A r \in Rows : HasLast(OwnWrites(k, r)')
    BY <2>1 DEF LedgerSafe, ViewSafe
  <2>. QED  BY <2>4, <2>5, <2>6, <2>7 DEF ViewSafe, Ledger
<1>. QED  BY <1>2, <1>3, <1>4, <1>5 DEF LedgerSafe

\* Every step keeps the ledger safe.
LEMMA LedgerStep ==
    ASSUME TypeOK, LedgerSafe, [Next]_vars
    PROVE  LedgerSafe'
<1>1. ASSUME NEW j \in Jobs, Begin(j) PROVE LedgerSafe'
  <2>1. HeadsKept
    BY <1>1, HeadsAreNotRows, JobsAssumption DEF Begin, HeadsKept
  <2>. QED  BY <1>1, <2>1, QuietSafe DEF Begin, SameLedger
<1>2. ASSUME NEW j \in Jobs, Acquire(j) PROVE LedgerSafe'
  <2>1. HeadsKept
    BY <1>2, PerformedType, StepType, GrantKeepsHeads DEF Acquire
  <2>. QED  BY <1>2, <2>1, QuietSafe DEF Acquire, SameLedger
<1>3. CASE UNCHANGED vars
  BY <1>3, QuietSafe DEF vars, SameLedger, HeadsKept
<1>. QED
  BY <1>1, <1>2, <1>3, WriteSafe, CommitSafe, RollBackSafe
     DEF Next, AbortVictim, LoseWorker, Finished

\* The empty ledger is safe.
LEMMA LedgerInit == Init => TypeOK /\ LedgerSafe
<1>. SUFFICES ASSUME Init PROVE TypeOK /\ LedgerSafe
  OBVIOUS
<1>1. TypeOK
  BY JobsAssumption DEF Init, TypeOK, LedgerHead, Hash
<1>2. CommittedSafe
  <2>1. \A r \in Rows : Ledger(r) \in Merchants
    BY DEF Ledger, Rows, Merchants
  <2>. QED  BY <2>1 DEF Init, CommittedSafe, Linked, Told
<1>3. ASSUME NEW j \in Jobs PROVE ViewSafe(j)
  <2>1. /\ \A m : OwnEntries(j, m) = {}
        /\ \A r : OwnWrites(j, r) = {}
    BY DEF Init, OwnEntries, OwnWrites
  <2>2. /\ \A m : HeadSeen(j, m) = head[m] /\ Seen(j, m) = chain[m]
        /\ \A r : VersionSeen(j, r) = version[r]
    BY <2>1 DEF HeadSeen, Seen, VersionSeen
  <2>. QED  BY <1>2, <2>1, <2>2 DEF Init, ViewSafe, CommittedSafe, HasLast
<1>4. HeadHeld
  BY DEF Init, HeadHeld, OwnEntries
<1>. QED  BY <1>1, <1>2, <1>3, <1>4 DEF LedgerSafe

\* In every reachable state the ledger is safe for every view of it.
LEMMA LedgerHolds == Spec => [](TypeOK /\ LedgerSafe)
<1>1. TypeOK /\ LedgerSafe /\ [Next]_vars => (TypeOK /\ LedgerSafe)'
  BY TypeStep, LedgerStep DEF LedgerSafe
<1>. QED  BY LedgerInit, <1>1, PTL DEF Spec

-----------------------------------------------------------------------------
(* Theorems.                                                               *)

\* The rows, locks and entries of the ledger have their types.
THEOREM TypeCorrect == Spec => []TypeOK
BY LedgerHolds, PTL

\* However the transactions of the workers and the API interleave, fail and are
\* run again, the committed entries of a merchant are one chain from the genesis
\* entry to the head (AuditLedger.append under the head row's lock).
THEOREM LedgerIsLinear == Spec => []ChainIsLinear
<1>1. LedgerSafe => ChainIsLinear
  <2>. SUFFICES ASSUME LedgerSafe, NEW m \in Merchants
                PROVE  /\ {e.sequence : e \in chain[m]} = 1..Cardinality(chain[m])
                       /\ head[m].sequence = Cardinality(chain[m])
                       /\ \A e \in chain[m] :
                             /\ e.sequence = 1 <=> e.row = <<"genesis", m>>
                             /\ e.sequence > 1 =>
                                  \E p \in chain[m] :
                                     p.sequence = e.sequence - 1 /\ NameOf(p) = e.previous
                             /\ e.sequence = head[m].sequence => NameOf(e) = head[m].hash
    BY DEF ChainIsLinear
  <2>1. Linked(chain[m], head[m], m)
    BY DEF LedgerSafe, CommittedSafe
  <2>2. Cardinality(chain[m]) = head[m].sequence
    BY <2>1, LinkedCardinality
  <2>3. {e.sequence : e \in chain[m]} = 1..head[m].sequence
    BY <2>1 DEF Linked
  <2>. QED  BY <2>1, <2>2, <2>3 DEF Linked, Genesis
<1>. QED  BY <1>1, LedgerHolds, PTL

\* The entries about a row are its versions, each once and in order: no write is
\* committed without its entry, and no entry without its write.
THEOREM LedgerFollowsRows == Spec => []AuditFollowsRow
<1>1. ASSUME TypeOK, LedgerSafe, NEW r \in Rows
      PROVE  LET about == {e \in chain[Ledger(r)] : e.row = r}
             IN  /\ {e.version : e \in about} = 1..version[r]
                 /\ Cardinality(about) = version[r]
                 /\ \A d, e \in about : d.sequence < e.sequence => d.version < e.version
  <2>. DEFINE about == {e \in chain[Ledger(r)] : e.row = r}
              n == version[r]
              g == [k \in 1..n |-> CHOOSE e \in about : e.version = k]
  <2>0. Ledger(r) \in Merchants
    BY DEF Ledger, Rows, Merchants
  <2>1. Told(chain[Ledger(r)], r, n) /\ Linked(chain[Ledger(r)], head[Ledger(r)], Ledger(r))
    BY <1>1, <2>0 DEF LedgerSafe, CommittedSafe
  <2>2. {e.version : e \in about} = 1..n
    BY <2>1 DEF Told
  <2>3. \A d, e \in about : d.sequence < e.sequence => d.version < e.version
    BY <2>1 DEF Told
  <2>4. \A d, e \in about : d.version = e.version => d = e
    <3>1. \A d, e \in about : /\ d.version \in Nat /\ e.version \in Nat
                              /\ d.sequence \in Nat /\ e.sequence \in Nat
                              /\ d.sequence = e.sequence => d = e
      BY <1>1, <2>0, <2>1 DEF Linked, TypeOK, Entry
    <3>. QED  BY <2>3, <3>1
  <2>5. n \in Nat
    BY <2>1 DEF Told
  <2>6. Cardinality(about) = n
    <3>1. \A k \in 1..n : g[k] \in about /\ g[k].version = k
      BY <2>2
    <3>2. \A e \in about : e.version \in 1..n
      BY <2>2
    <3>. HIDE DEF about, n
    <3>3. g \in Injection(1..n, about)
      BY <3>1 DEF Injection, IsInjective
    <3>4. \A e \in about : g[e.version] = e
      BY <2>4, <3>1, <3>2
    <3>. HIDE DEF g
    <3>5. g \in Surjection(1..n, about)
      BY <3>2, <3>3, <3>4 DEF Injection, Surjection
    <3>6. ExistsBijection(1..n, about)
      BY <3>3, <3>5 DEF Bijection, ExistsBijection
    <3>. QED  BY <2>5, <3>6, FS_CountingElements
  <2>. QED  BY <2>2, <2>3, <2>6
<1>2. TypeOK /\ LedgerSafe => AuditFollowsRow
  <2>1. \A c \in Cases, kind \in {"case", "action", "review"} :
            <<kind, c>> \in Rows /\ Ledger(<<kind, c>>) = MerchantOf[c]
    BY DEF Rows, Ledger
  <2>. QED  BY <1>1, <2>1 DEF AuditFollowsRow
<1>. QED  BY <1>2, LedgerHolds, PTL
=============================================================================
