--------------------------- MODULE PlaybooksProofs ---------------------------
(***************************************************************************)
(* Theorems about Playbooks, for every set of invoices and replies, every  *)
(* policy and every value of the bounds: what is true of an invoice at the *)
(* moment its customer is contacted, what is never taken back, and that a  *)
(* case keeps to its contact limit and has a wake time while it sleeps.    *)
(***************************************************************************)
EXTENDS Playbooks, PolicyGatesProofs, FiniteSetTheorems

-----------------------------------------------------------------------------
(* The inductive invariant. *)

\* The rows of the tables, column by column.
InvoiceRow(row) ==
    /\ row = [status |-> row.status, at |-> row.at, frozen |-> row.frozen]
    /\ row.status \in InvoiceStatus /\ row.at \in 0..MaxTime /\ row.frozen \in BOOLEAN
\* A case is not contacted more often than the policy allows, and wakes when it sleeps.
CaseRow(row) ==
    /\ row = [state |-> row.state, next |-> row.next, contacts |-> row.contacts]
    /\ row.state \in CaseState /\ row.contacts \in 0..Policy.contactLimit
    /\ row.state = "DEFERRED" => row.next \in Nat \ {0}
PromiseRow(row) ==
    /\ row = [status |-> row.status, due |-> row.due, remind |-> row.remind,
              scheduled |-> row.scheduled]
    /\ row.status \in PromiseStatus
ContactRow(row) ==
    /\ row = [status |-> row.status, promise |-> row.promise]
    /\ row.status \in {"NONE", "PENDING", "SUCCEEDED", "FAILED"}

\* The tables have a sound row for each key, an active promise has the day its reply
\* named, and only a stored reply has made a promise.
Kept ==
    /\ now \in 1..MaxTime
    /\ case = [i \in Invoice |-> case[i]] /\ \A i \in Invoice : CaseRow(case[i])
    /\ invoice = [i \in Invoice |-> invoice[i]] /\ \A i \in Invoice : InvoiceRow(invoice[i])
    /\ promise = [r \in Response |-> promise[r]] /\ \A r \in Response : PromiseRow(promise[r])
    /\ action = [a \in ActionKey |-> action[a]] /\ \A a \in ActionKey : ContactRow(action[a])
    /\ response = [r \in Response |-> response[r]]
    /\ \A r \in Response :
          /\ promise[r].status = "ACTIVE" => promise[r].due = Reply[r].due /\ promise[r].due > 0
          /\ response[r] = "NONE" => promise[r].status = "NONE"

\* Writing a column of a row keeps the row one of its table.
LEMMA StatusWrites ==
    ASSUME NEW row, InvoiceRow(row), NEW status \in InvoiceStatus
    PROVE  /\ InvoiceRow([row EXCEPT !.status = status])
           /\ [row EXCEPT !.status = status].status = status
BY DEF InvoiceRow

LEMMA TimeWrites ==
    ASSUME NEW row, InvoiceRow(row), NEW at \in 0..MaxTime
    PROVE  /\ InvoiceRow([row EXCEPT !.at = at])
           /\ [row EXCEPT !.at = at].status = row.status
           /\ InvoiceRow([status |-> "OVERDUE", at |-> at, frozen |-> row.frozen])
BY DEF InvoiceRow, InvoiceStatus

LEMMA FreezeWrites ==
    ASSUME NEW row, InvoiceRow(row)
    PROVE  /\ InvoiceRow([row EXCEPT !.frozen = TRUE])
           /\ [row EXCEPT !.frozen = TRUE].status = row.status
<1>. DEFINE yes == TRUE
<1>1. yes \in BOOLEAN
  OBVIOUS
<1>. HIDE DEF yes
<1>2. /\ InvoiceRow([row EXCEPT !.frozen = yes])
      /\ [row EXCEPT !.frozen = yes].status = row.status
  BY <1>1 DEF InvoiceRow
<1>. QED  BY <1>2 DEF yes

LEMMA CaseWrites ==
    ASSUME NEW row, CaseRow(row), NEW state, NEW next
    PROVE  [row EXCEPT !.state = state, !.next = next]
              = [state |-> state, next |-> next, contacts |-> row.contacts]
<1>. DEFINE one == [row EXCEPT !.state = state]
<1>1. one = [state |-> state, next |-> row.next, contacts |-> row.contacts]
  BY DEF CaseRow
<1>2. [row EXCEPT !.state = state, !.next = next] = [one EXCEPT !.next = next]
  OBVIOUS
<1>. HIDE DEF one
<1>3. [one EXCEPT !.next = next] = [state |-> state, next |-> next, contacts |-> row.contacts]
  BY <1>1
<1>. QED  BY <1>2, <1>3

LEMMA ContactWrites ==
    ASSUME NEW row, CaseRow(row), NEW state, NEW contacts
    PROVE  [row EXCEPT !.state = state, !.contacts = contacts]
              = [state |-> state, next |-> row.next, contacts |-> contacts]
<1>. DEFINE one == [row EXCEPT !.state = state]
<1>1. one = [state |-> state, next |-> row.next, contacts |-> row.contacts]
  BY DEF CaseRow
<1>2. [row EXCEPT !.state = state, !.contacts = contacts] = [one EXCEPT !.contacts = contacts]
  OBVIOUS
<1>. HIDE DEF one
<1>3. [one EXCEPT !.contacts = contacts]
         = [state |-> state, next |-> row.next, contacts |-> contacts]
  BY <1>1
<1>. QED  BY <1>2, <1>3

LEMMA PromiseWrites ==
    ASSUME NEW row, PromiseRow(row), NEW status \in PromiseStatus
    PROVE  /\ PromiseRow([row EXCEPT !.status = status])
           /\ [row EXCEPT !.status = status].status = status
           /\ [row EXCEPT !.status = status].due = row.due
BY DEF PromiseRow

\* The tables are empty at first.
LEMMA KeptInit == Init => Kept
<1>. SUFFICES ASSUME Init
              PROVE  Kept
  OBVIOUS
<1>1. \A i \in Invoice : InvoiceRow(invoice[i])
  <2>. DEFINE no == FALSE
  <2>1. \A i \in Invoice : invoice[i] = [status |-> "NONE", at |-> 0, frozen |-> no]
    BY DEF Init, NoTime
  <2>2. 0 \in 0..MaxTime /\ "NONE" \in InvoiceStatus /\ no \in BOOLEAN
    BY PlaybookBoundsAssumption DEF InvoiceStatus
  <2>. HIDE DEF no
  <2>. QED  BY <2>1, <2>2 DEF InvoiceRow
<1>2. \A r \in Response : PromiseRow(promise[r])
  BY DEF Init, PromiseRow, NoPromise, PromiseStatus
<1>3. \A a \in ActionKey : ContactRow(action[a])
  BY DEF Init, ContactRow, NoContact
<1>4. \A r \in Response : promise[r].status = "NONE"
  BY DEF Init, NoPromise
<1>5. /\ now \in 1..MaxTime
      /\ case = [i \in Invoice |-> case[i]]
      /\ invoice = [i \in Invoice |-> invoice[i]]
      /\ promise = [r \in Response |-> promise[r]]
      /\ action = [a \in ActionKey |-> action[a]]
      /\ response = [r \in Response |-> response[r]]
  BY PlaybookBoundsAssumption DEF Init
<1>6. \A i \in Invoice : CaseRow(case[i])
  BY PolicyAssumption DEF Init, CaseRow, CaseState
<1>. QED  BY <1>1, <1>2, <1>3, <1>4, <1>5, <1>6 DEF Kept

-----------------------------------------------------------------------------
(* What a step does to each table. *)

\* A disputed invoice stays disputed until it is paid.
InvoiceMoves ==
    /\ invoice' = [i \in Invoice |-> invoice'[i]] /\ \A i \in Invoice : InvoiceRow(invoice'[i])
    /\ \A i \in Invoice :
          invoice[i].status = "DISPUTED" => invoice'[i].status \in {"DISPUTED", "PAID"}

\* A promise that has ended stays as it ended.
PromiseMoves ==
    /\ promise' = [r \in Response |-> promise'[r]] /\ \A r \in Response : PromiseRow(promise'[r])
    /\ response' = [r \in Response |-> response'[r]]
    /\ \A r \in Response :
          /\ promise'[r].status = "ACTIVE" => promise'[r].due = Reply[r].due /\ promise'[r].due > 0
          /\ response'[r] = "NONE" => promise'[r].status = "NONE"
          /\ promise[r].status \notin {"NONE", "ACTIVE"} => promise'[r].status = promise[r].status

\* Rows of the outbox are stored and cancelled, and none is sent.
NothingSent ==
    /\ action' = [a \in ActionKey |-> action'[a]] /\ \A a \in ActionKey : ContactRow(action'[a])
    /\ \A a \in ActionKey :
          action'[a].status = "SUCCEEDED" => action[a].status = "SUCCEEDED"

\* What is not written does not move.
LEMMA SameInvoices == Kept /\ invoice' = invoice => InvoiceMoves
BY DEF Kept, InvoiceMoves

LEMMA SamePromises == Kept /\ promise' = promise /\ response' = response => PromiseMoves
BY DEF Kept, PromiseMoves

LEMMA SameActions == Kept /\ action' = action => NothingSent
BY DEF Kept, NothingSent

\* The rows of the invoices after the two columns of a freeze are written.
LEMMA FrozenRows ==
    ASSUME Kept, NEW i \in Invoice, NEW status \in InvoiceStatus
    PROVE  LET frozen == [invoice EXCEPT ![i].status = status, ![i].frozen = TRUE]
           IN  /\ frozen = [j \in Invoice |-> frozen[j]]
               /\ \A j \in Invoice : j # i => frozen[j] = invoice[j]
               /\ InvoiceRow(frozen[i]) /\ frozen[i].status = status
<1>. DEFINE one == [invoice EXCEPT ![i] = [@ EXCEPT !.status = status]]
            two == [one EXCEPT ![i] = [@ EXCEPT !.frozen = TRUE]]
<1>1. InvoiceRow(one[i]) /\ one[i].status = status
  <2>1. one[i] = [invoice[i] EXCEPT !.status = status] /\ InvoiceRow(invoice[i])
    BY DEF Kept
  <2>. HIDE DEF one
  <2>. QED  BY <2>1, StatusWrites
<1>2. one = [j \in Invoice |-> one[j]] /\ \A j \in Invoice : j # i => one[j] = invoice[j]
  BY DEF Kept
<1>3. [invoice EXCEPT ![i].status = status, ![i].frozen = TRUE] = two
  OBVIOUS
<1>. HIDE DEF one
<1>4. InvoiceRow(two[i]) /\ two[i].status = status
  <2>1. two[i] = [one[i] EXCEPT !.frozen = TRUE]
    BY <1>2
  <2>. QED  BY <1>1, <2>1, FreezeWrites
<1>5. two = [j \in Invoice |-> two[j]] /\ \A j \in Invoice : j # i => two[j] = invoice[j]
  BY <1>2
<1>. QED  BY <1>3, <1>4, <1>5

\* Freezing an invoice, and not for another reason while it is disputed.
LEMMA FrozenMoves ==
    ASSUME Kept, NEW i \in Invoice, NEW status \in InvoiceStatus,
           status = "DISPUTED" \/ invoice[i].status # "DISPUTED",
           invoice' = [invoice EXCEPT ![i].status = status, ![i].frozen = TRUE]
    PROVE  InvoiceMoves
<1>1. /\ invoice' = [j \in Invoice |-> invoice'[j]]
      /\ \A j \in Invoice : j # i => invoice'[j] = invoice[j]
      /\ InvoiceRow(invoice'[i]) /\ invoice'[i].status = status
  <2>. DEFINE frozen == [invoice EXCEPT ![i].status = status, ![i].frozen = TRUE]
  <2>1. /\ frozen = [j \in Invoice |-> frozen[j]]
        /\ \A j \in Invoice : j # i => frozen[j] = invoice[j]
        /\ InvoiceRow(frozen[i]) /\ frozen[i].status = status
    BY FrozenRows
  <2>2. invoice' = frozen
    OBVIOUS
  <2>. HIDE DEF frozen
  <2>. QED  BY <2>1, <2>2
<1>. QED  BY <1>1 DEF Kept, InvoiceMoves

\* Storing an authorised contact sends none; nor does a decision.
LEMMA StoredSendsNothing ==
    ASSUME Kept, NEW b, NEW r, action' = Stored(b, r)
    PROVE  NothingSent
BY DEF Kept, Stored, NothingSent, ContactRow

LEMMA EvaluateSendsNothing ==
    ASSUME Kept, NEW i, NEW status, EvaluateCase(i, status)
    PROVE  NothingSent
<1>1. action' = Stored(KeyOf(i, "SEND_REMINDER"), "NONE") \/ action' = action
  BY DEF EvaluateCase
<1>. QED  BY <1>1, SameActions, StoredSendsNothing

\* What each action writes: an overdue notice, the replies, the maintenance, the rest.
LEMMA IngestMoves ==
    ASSUME Kept, NEW i \in Invoice, NEW at \in NoticeTimes(i), IngestOverdue(i, at)
    PROVE  InvoiceMoves /\ PromiseMoves /\ NothingSent
<1>1. NothingSent
  BY EvaluateSendsNothing, SameActions DEF IngestOverdue
<1>2. InvoiceMoves
  <2>1. invoice' = [invoice EXCEPT ![i] = Overdue(i, at)]
    BY DEF IngestOverdue
  <2>2. at \in 0..MaxTime
    BY DEF NoticeTimes, Kept, InvoiceRow
  <2>3. \/ Overdue(i, at) = invoice[i]
        \/ /\ invoice[i].status # "DISPUTED"
           /\ Overdue(i, at) = [status |-> "OVERDUE", at |-> at, frozen |-> invoice[i].frozen]
    BY DEF Overdue
  <2>4. InvoiceRow(Overdue(i, at))
    BY <2>2, <2>3, TimeWrites DEF Kept
  <2>5. invoice[i].status = "DISPUTED" => Overdue(i, at).status = "DISPUTED"
    BY <2>3
  <2>. QED  BY <2>1, <2>4, <2>5 DEF Kept, InvoiceMoves
<1>. QED  BY <1>1, <1>2, SamePromises DEF IngestOverdue

\* A promise is new for its reply, and an invoice that is overdue becomes PROMISED.
LEMMA MakePromiseMoves ==
    ASSUME Kept, NEW r \in Response, MakePromise(r)
    PROVE  InvoiceMoves /\ PromiseMoves /\ NothingSent
<1>. DEFINE i == Reply[r].invoice
<1>1. InvoiceMoves
  <2>1. \A j \in Invoice : invoice'[j] = IF j = i /\ invoice[i].status = "OVERDUE"
                                         THEN [invoice[i] EXCEPT !.status = "PROMISED"]
                                         ELSE invoice[j]
    BY DEF MakePromise, Kept, InvoiceRow
  <2>2. invoice' = [j \in Invoice |-> invoice'[j]]
    BY DEF MakePromise, Kept
  <2>3. "PROMISED" \in InvoiceStatus
    BY DEF InvoiceStatus
  <2>4. \A j \in Invoice : InvoiceRow(invoice'[j])
    <3>1. InvoiceRow(invoice[i]) => InvoiceRow([invoice[i] EXCEPT !.status = "PROMISED"])
      BY <2>3, StatusWrites
    <3>. QED  BY <2>1, <3>1 DEF Kept
  <2>5. \A j \in Invoice : invoice[j].status = "DISPUTED" => invoice'[j].status = "DISPUTED"
    BY <2>1
  <2>. QED  BY <2>2, <2>4, <2>5 DEF InvoiceMoves
<1>2. PromiseMoves
  <2>1. promise[r].status = "NONE" /\ Reply[r].due \in Nat /\ Reply[r].due > 0
    BY RepliesAssumption DEF MakePromise, Fresh, Kept
  <2>2. "ACTIVE" \in PromiseStatus
    BY DEF PromiseStatus
  <2>. QED  BY <2>1, <2>2 DEF MakePromise, Kept, PromiseMoves, PromiseRow
<1>. QED  BY <1>1, <1>2, SameActions DEF MakePromise

\* A dispute or a claim ends the active promises and freezes the invoice.
LEMMA FreezeMoves ==
    ASSUME Kept, NEW r \in Response, Freeze(r)
    PROVE  InvoiceMoves /\ PromiseMoves /\ NothingSent
<1>. DEFINE i == Reply[r].invoice
            intent == Reply[r].intent
<1>. i \in Invoice
  BY RepliesAssumption
<1>1. intent \in {"DISPUTE", "ALREADY_PAID"} /\ Freezes["DISPUTE"] = "DISPUTED"
      /\ Ended["DISPUTE"] = "DISPUTED" /\ Ended["ALREADY_PAID"] = "CANCELLED"
  BY DEF Freeze, Freezes, Ended
<1>2. InvoiceMoves
  <2>1. CASE invoice' = invoice
    BY <2>1, SameInvoices
  <2>2. CASE /\ intent = "DISPUTE" \/ invoice[i].status \in {"OPEN", "OVERDUE", "PROMISED"}
             /\ invoice' = [invoice EXCEPT ![i].status = Freezes[intent], ![i].frozen = TRUE]
    <3>1. Freezes[intent] \in InvoiceStatus /\ (Freezes[intent] = "DISPUTED" <=> intent = "DISPUTE")
      BY <1>1 DEF Freezes, InvoiceStatus
    <3>2. Freezes[intent] = "DISPUTED" \/ invoice[i].status # "DISPUTED"
      BY <2>2, <3>1
    <3>. HIDE DEF i, intent
    <3>. QED  BY <2>2, <3>1, <3>2, FrozenMoves
  <2>. QED  BY <2>1, <2>2 DEF Freeze
<1>3. PromiseMoves
  <2>1. \A p \in Response : /\ promise[p].status # "ACTIVE" => promise'[p] = promise[p]
                            /\ promise[p].status = "ACTIVE" =>
                                  \/ promise'[p] = promise[p]
                                  \/ promise'[p] = [promise[p] EXCEPT !.status = Ended[intent]]
    BY DEF Freeze, PromisesOn
  <2>2. \A p \in Response : PromiseRow(promise'[p])
    <3>1. Ended[intent] \in PromiseStatus
      BY <1>1 DEF PromiseStatus
    <3>2. \A p \in Response : PromiseRow(promise[p])
      BY DEF Kept
    <3>. HIDE DEF intent
    <3>3. \A p \in Response : PromiseRow([promise[p] EXCEPT !.status = Ended[intent]])
      BY <3>1, <3>2, PromiseWrites
    <3>. QED  BY <2>1, <3>2, <3>3
  <2>4. response' = [p \in Response |-> response'[p]]
        /\ \A p \in Response : response'[p] = "NONE" => response[p] = "NONE"
    BY <1>1 DEF Freeze, Kept
  <2>5. promise' = [p \in Response |-> promise'[p]]
    BY DEF Freeze
  <2>6. Ended[intent] \notin {"ACTIVE", "NONE"}
    BY <1>1
  <2>. HIDE DEF intent
  <2>7. ASSUME NEW p \in Response
        PROVE  /\ promise'[p].status = "ACTIVE"
                  => promise'[p].due = Reply[p].due /\ promise'[p].due > 0
               /\ response'[p] = "NONE" => promise'[p].status = "NONE"
               /\ promise[p].status \notin {"NONE", "ACTIVE"}
                  => promise'[p].status = promise[p].status
    <3>1. CASE promise'[p] = promise[p]
      BY <2>4, <3>1 DEF Kept
    <3>2. CASE promise'[p] # promise[p]
      <4>1. promise[p].status = "ACTIVE" /\ promise'[p] = [promise[p] EXCEPT !.status = Ended[intent]]
        BY <2>1, <3>2
      <4>2. promise'[p].status = Ended[intent]
        BY <4>1 DEF Kept, PromiseRow
      <4>. QED  BY <2>4, <2>6, <4>1, <4>2 DEF Kept
    <3>. QED  BY <3>1, <3>2
  <2>. QED  BY <2>2, <2>4, <2>5, <2>7 DEF PromiseMoves
<1>. QED  BY <1>2, <1>3, SameActions DEF Freeze

\* A reply that needs a review writes neither promise nor invoice.
LEMMA AskMoves ==
    ASSUME Kept, NEW r \in Response, AskForReview(r)
    PROVE  InvoiceMoves /\ PromiseMoves /\ NothingSent
<1>1. PromiseMoves
  BY DEF AskForReview, Kept, PromiseMoves
<1>. QED  BY <1>1, SameInvoices, SameActions DEF AskForReview

\* The maintenance ends a promise that is active.
LEMMA EndMoves ==
    ASSUME Kept, NEW r \in Response, EndPromise(r)
    PROVE  InvoiceMoves /\ PromiseMoves /\ NothingSent
<1>. DEFINE i == Reply[r].invoice
<1>. i \in Invoice
  BY RepliesAssumption
<1>1. InvoiceMoves
  <2>1. CASE invoice' = invoice
    BY <2>1, SameInvoices
  <2>2. CASE /\ invoice[i].status = "PROMISED"
             /\ invoice' = [invoice EXCEPT ![i].status = "ESCALATED", ![i].frozen = TRUE]
    <3>1. "ESCALATED" \in InvoiceStatus
      BY DEF InvoiceStatus
    <3>. QED  BY <2>2, <3>1, FrozenMoves
  <2>. QED  BY <2>1, <2>2 DEF EndPromise
<1>2. PromiseMoves
  <2>1. PICK ended \in {"FULFILLED", "BROKEN"} : promise' = [promise EXCEPT ![r].status = ended]
    BY DEF EndPromise
  <2>2. promise[r].status = "ACTIVE"
    BY DEF EndPromise, Broken
  <2>3. \A p \in Response : promise'[p] = IF p = r THEN [promise[r] EXCEPT !.status = ended]
                                          ELSE promise[p]
    BY <2>1 DEF Kept
  <2>4. \A p \in Response : PromiseRow(promise'[p])
    <3>1. (\A p \in Response : PromiseRow(promise[p])) /\ ended \in PromiseStatus
      BY DEF Kept, PromiseStatus
    <3>. QED  BY <2>3, <3>1, PromiseWrites
  <2>5. promise'[r].status = ended
    BY <2>3 DEF Kept, PromiseRow
  <2>6. promise' = [p \in Response |-> promise'[p]] /\ response' = response
    BY <2>1 DEF EndPromise, Kept
  <2>. QED  BY <2>2, <2>3, <2>4, <2>5, <2>6 DEF Kept, PromiseMoves
<1>. QED  BY <1>1, <1>2, SameActions DEF EndPromise

\* A reminder leaves the status of its promise alone.
LEMMA RemindMoves ==
    ASSUME Kept, NEW r \in Response, RemindOf(r)
    PROVE  InvoiceMoves /\ PromiseMoves /\ NothingSent
<1>1. NothingSent
  BY StoredSendsNothing, SameActions DEF RemindOf
<1>2. PromiseMoves
  <2>1. CASE promise' = promise
    BY <2>1, SamePromises DEF RemindOf
  <2>2. CASE promise' = [promise EXCEPT ![r].scheduled = TRUE]
    <3>1. \A p \in Response : promise'[p] = IF p = r THEN [promise[r] EXCEPT !.scheduled = TRUE]
                                            ELSE promise[p]
      BY <2>2 DEF Kept
    <3>2. \A p \in Response : /\ PromiseRow(promise'[p])
                              /\ promise'[p].status = promise[p].status
                              /\ promise'[p].due = promise[p].due
      BY <3>1 DEF Kept, PromiseRow
    <3>3. promise' = [p \in Response |-> promise'[p]] /\ response' = response
      BY <2>2 DEF Kept, RemindOf
    <3>. QED  BY <3>2, <3>3 DEF Kept, PromiseMoves
  <2>3. ASSUME NEW wake, promise' = [promise EXCEPT ![r].remind = wake]
        PROVE  PromiseMoves
    <3>1. \A p \in Response : promise'[p] = IF p = r THEN [promise[r] EXCEPT !.remind = wake]
                                            ELSE promise[p]
      BY <2>3 DEF Kept
    <3>2. \A p \in Response : /\ PromiseRow(promise'[p])
                              /\ promise'[p].status = promise[p].status
                              /\ promise'[p].due = promise[p].due
      BY <3>1 DEF Kept, PromiseRow
    <3>3. promise' = [p \in Response |-> promise'[p]] /\ response' = response
      BY <2>3 DEF Kept, RemindOf
    <3>. QED  BY <3>2, <3>3 DEF Kept, PromiseMoves
  <2>. QED  BY <2>1, <2>2, <2>3 DEF RemindOf
<1>. QED  BY <1>1, <1>2, SameInvoices DEF RemindOf

\* A cancelled contact was not sent.
LEMMA CancelMoves ==
    ASSUME Kept, NEW a \in ActionKey, CancelContact(a)
    PROVE  InvoiceMoves /\ PromiseMoves /\ NothingSent
<1>1. NothingSent
  BY DEF CancelContact, Kept, NothingSent, ContactRow
<1>. QED  BY <1>1, SameInvoices, SamePromises DEF CancelContact

\* A payment is all that ends a dispute.
LEMMA PayMoves ==
    ASSUME Kept, NEW i \in Invoice, PayInvoice(i)
    PROVE  InvoiceMoves /\ PromiseMoves /\ NothingSent
<1>. DEFINE one == [invoice EXCEPT ![i] = [@ EXCEPT !.status = "PAID"]]
<1>1. InvoiceRow(one[i]) /\ one[i].status = "PAID"
  <2>1. /\ one[i] = [invoice[i] EXCEPT !.status = "PAID"] /\ InvoiceRow(invoice[i])
        /\ "PAID" \in InvoiceStatus
    BY DEF Kept, InvoiceStatus
  <2>. HIDE DEF one
  <2>. QED  BY <2>1, StatusWrites
<1>2. one = [j \in Invoice |-> one[j]] /\ \A j \in Invoice : j # i => one[j] = invoice[j]
  BY DEF Kept
<1>3. invoice' = [one EXCEPT ![i] = [@ EXCEPT !.at = now]]
  BY DEF PayInvoice
<1>. HIDE DEF one
<1>4. invoice'[i] = [one[i] EXCEPT !.at = now] /\ now \in 0..MaxTime
  BY <1>2, <1>3 DEF Kept
<1>6. InvoiceRow(invoice'[i]) /\ invoice'[i].status = "PAID"
  BY <1>1, <1>4, TimeWrites
<1>7. invoice' = [j \in Invoice |-> invoice'[j]]
      /\ \A j \in Invoice : j # i => invoice'[j] = invoice[j]
  BY <1>2, <1>3
<1>8. InvoiceMoves
  BY <1>6, <1>7 DEF Kept, InvoiceMoves
<1>. QED  BY <1>8, SamePromises, SameActions DEF PayInvoice

\* Every step but the sending of a contact.
LEMMA QuietMoves ==
    ASSUME Kept, [Next]_vars, \A a \in ActionKey : ~SendContact(a)
    PROVE  InvoiceMoves /\ PromiseMoves /\ NothingSent
<1>1. CASE UNCHANGED vars \/ Tick
  BY <1>1, SameInvoices, SamePromises, SameActions DEF vars, Tick
<1>2. CASE MaintainPromises
  BY <1>2, EndMoves, RemindMoves DEF MaintainPromises
<1>3. CASE \E r \in Response : Answer(r)
  BY <1>3, MakePromiseMoves, FreezeMoves, AskMoves DEF Answer
<1>4. CASE \E a \in ActionKey : CancelContact(a)
  BY <1>4, CancelMoves
<1>5. ASSUME NEW i \in Invoice,
             \/ \E at \in NoticeTimes(i) : IngestOverdue(i, at)
             \/ Reevaluate(i) \/ VerificationDeadline(i)
             \/ CloseIntervention(i) \/ PayInvoice(i)
      PROVE  InvoiceMoves /\ PromiseMoves /\ NothingSent
  <2>1. CASE \E at \in NoticeTimes(i) : IngestOverdue(i, at)
    BY <2>1, IngestMoves
  <2>2. CASE Reevaluate(i)
    BY <2>2, EvaluateSendsNothing, SameInvoices, SamePromises DEF Reevaluate
  <2>3. CASE VerificationDeadline(i) \/ CloseIntervention(i)
    BY <2>3, SameInvoices, SamePromises, SameActions DEF VerificationDeadline, CloseIntervention
  <2>. QED  BY <1>5, <2>1, <2>2, <2>3, PayMoves
<1>. QED  BY <1>1, <1>2, <1>3, <1>4, <1>5 DEF Next

\* Sending a contact writes the row of that contact.
LEMMA SendMoves ==
    ASSUME Kept, NEW a \in ActionKey, SendContact(a)
    PROVE  /\ InvoiceMoves /\ PromiseMoves
           /\ action' = [b \in ActionKey |-> action'[b]]
           /\ \A b \in ActionKey : ContactRow(action'[b]) /\ (b # a => action'[b] = action[b])
<1>1. \A b \in ActionKey : ContactRow(action'[b]) /\ (b # a => action'[b] = action[b])
  BY DEF SendContact, Kept, ContactRow
<1>2. action' = [b \in ActionKey |-> action'[b]]
  BY DEF SendContact, Kept
<1>. QED  BY <1>1, <1>2, SameInvoices, SamePromises DEF SendContact

\* All steps together, for the invoices and promises, and for the clock.
LEMMA StepMoves == Kept /\ [Next]_vars => InvoiceMoves /\ PromiseMoves
BY QuietMoves, SendMoves

LEMMA ClockMoves == Kept /\ [Next]_vars => now' \in 1..MaxTime
<1>1. Next => Tick \/ now' = now
  BY DEF Next, MaintainPromises, EndPromise, RemindOf, Answer, MakePromise, Freeze,
         AskForReview, CancelContact, SendContact, IngestOverdue, Reevaluate,
         VerificationDeadline, CloseIntervention, PayInvoice
<1>. QED  BY <1>1, PlaybookBoundsAssumption DEF Kept, Tick, vars

-----------------------------------------------------------------------------
(* What a step does to the cases: decisions, contacts and deadlines. *)

\* The cases keep their types, their limit and their wake times.
CaseMoves ==
    case' = [i \in Invoice |-> case'[i]] /\ \A i \in Invoice : CaseRow(case'[i])

LEMMA SameCases == Kept /\ case' = case => CaseMoves
BY DEF Kept, CaseMoves

\* Of finitely many active promises one is the latest: with as few later ones as
\* possible, it has none.
LEMMA LatestPromise ==
    ASSUME Kept, NEW i \in Invoice, PromisesOn(i) # {}
    PROVE  PromiseDue(i) \in {promise[r].due : r \in PromisesOn(i)}
<1>. DEFINE P == PromisesOn(i)
            later(r) == {q \in P : promise[q].due > promise[r].due}
            R == StrictSubsetOrdering(P)
            T == {later(r) : r \in P}
<1>1. IsFiniteSet(P)
  BY RepliesAssumption, FS_Subset DEF PromisesOn
<1>2. \A r \in P : promise[r].due \in Nat
  BY RepliesAssumption DEF PromisesOn, Kept
<1>. HIDE DEF P
<1>3. IsWellFoundedOn(R, SUBSET P)
  BY <1>1, FS_FiniteSubsetsOfFinite, FS_StrictSubsetOrderingWellFounded
<1>4. T \subseteq SUBSET P /\ T # {}
  BY DEF P
<1>5. \E U \in T : \A V \in T : ~ (<<V, U>> \in R)
  <2>. HIDE DEF T, R
  <2>. QED  BY <1>3, <1>4, WFMin
<1>6. PICK r \in P : \A q \in P : ~ (<<later(q), later(r)>> \in R)
  BY <1>5
<1>7. later(r) = {}
  <2>. SUFFICES ASSUME NEW q \in later(r)
                PROVE  FALSE
    OBVIOUS
  <2>1. later(q) \subseteq later(r) /\ q \notin later(q)
    BY <1>2
  <2>. QED  BY <1>6, <2>1 DEF StrictSubsetOrdering
<1>8. \A q \in P : promise[r].due >= promise[q].due
  BY <1>2, <1>7
<1>9. Max({promise[q].due : q \in P}) \in {promise[q].due : q \in P}
  BY <1>8 DEF Max
<1>. QED  BY <1>9 DEF PromiseDue, P

\* The facts of every evaluation are well timed, also those of a broken promise.
LEMMA FactsWellTimed ==
    ASSUME Kept, NEW i \in Invoice, NEW candidates, NEW status, NEW contacting
    PROVE  WellTimed(Policy, Facts(i, candidates, status, contacting))
<1>1. PromiseDue(i) \in Nat
  <2>1. \A r \in PromisesOn(i) : promise[r].due \in Nat
    BY RepliesAssumption DEF PromisesOn, Kept
  <2>2. CASE PromisesOn(i) = {}
    BY <2>2 DEF PromiseDue, NoTime
  <2>3. CASE PromisesOn(i) # {}
    BY <2>1, <2>3, LatestPromise
  <2>. QED  BY <2>2, <2>3
<1>. DEFINE e == Facts(i, candidates, status, contacting)
<1>2. /\ e.at = now /\ e.deferUntil = 0 /\ e.promiseDue = PromiseDue(i) /\ e.incidents = {}
  BY DEF Facts, NoTime
<1>. HIDE DEF e
<1>3. WellTimed(Policy, e)
  BY <1>1, <1>2, PolicyAssumption DEF WellTimed, Kept
<1>. QED  BY <1>3 DEF e

\* A decision leaves the contacts of the case, and a deferred case wakes.
LEMMA DecidedRow ==
    ASSUME Kept, NEW i \in Invoice, NEW e, WellTimed(Policy, e)
    PROVE  CaseRow(Decided(case[i], Evaluate(Policy, e)))
<1>. DEFINE d == Evaluate(Policy, e)
            row == Decided(case[i], d)
<1>1. /\ d.result \in {"PROCEED", "DEFER", "SKIP", "STOP", "REQUIRE_HUMAN"}
      /\ IF d.result = "DEFER" THEN Later(e, d.wake) ELSE d.wake = NoTime
  BY ResultKnown, DeferralsAreLater
<1>. HIDE DEF d
<1>2. StateFor[d.result] \in CaseState /\ (StateFor[d.result] = "DEFERRED" <=> d.result = "DEFER")
  BY <1>1 DEF StateFor, CaseState
<1>3. d.result = "DEFER" => d.wake \in Nat \ {0}
  BY <1>1 DEF Later, WellTimed, NoTime
<1>4. CaseRow(case[i])
  BY DEF Kept
<1>5. row = [state |-> StateFor[d.result], next |-> d.wake, contacts |-> case[i].contacts]
  BY <1>4, CaseWrites, Zenon DEF row, Decided
<1>. HIDE DEF row
<1>6. CaseRow(row)
  BY <1>2, <1>3, <1>4, <1>5 DEF CaseRow
<1>. QED  BY <1>6 DEF row, d

\* The steps that decide a case write such a row: evaluations, reminders, cancellations.
LEMMA DecidedMoves ==
    ASSUME Kept, NEW i \in Invoice, NEW e, WellTimed(Policy, e),
           case' = [case EXCEPT ![i] = Decided(@, Evaluate(Policy, e))]
    PROVE  CaseMoves
<1>1. CaseRow(Decided(case[i], Evaluate(Policy, e)))
  BY DecidedRow
<1>. QED  BY <1>1 DEF Kept, CaseMoves

LEMMA EvaluateMoves ==
    ASSUME Kept, NEW i \in Invoice, NEW status, EvaluateCase(i, status)
    PROVE  CaseMoves
BY FactsWellTimed, DecidedMoves DEF EvaluateCase, CaseDecision

LEMMA RemindMovesCase ==
    ASSUME Kept, NEW r \in Response, RemindOf(r)
    PROVE  CaseMoves
<1>1. Reply[r].invoice \in Invoice
  BY RepliesAssumption
<1>. QED  BY <1>1, FactsWellTimed, DecidedMoves DEF RemindOf, ReminderDecision

LEMMA CancelMovesCase ==
    ASSUME Kept, NEW a \in ActionKey, CancelContact(a)
    PROVE  CaseMoves
<1>1. a.invoice \in Invoice
  BY DEF ActionKey
<1>. QED  BY <1>1, FactsWellTimed, DecidedMoves DEF CancelContact, Recheck, RecheckInput

\* execution/service.py: _final_policy_decision.  A contact that is sent has passed
\* the gates on the facts of that moment.
LEMMA SendChecks ==
    ASSUME NEW a \in ActionKey, SendContact(a)
    PROVE  /\ ~RecheckInput(a).paid /\ ~RecheckInput(a).disputed /\ ~RecheckInput(a).cancelled
           /\ Verdict(Policy, RecheckInput(a), Contact(a.invoice, a.type)).result = "PROCEED"
<1>. DEFINE e == RecheckInput(a)
            c == Contact(a.invoice, a.type)
<1>1. Evaluate(Policy, e).result = "PROCEED"
  BY DEF SendContact, Recheck
<1>2. e.candidates = <<c, NoActionOn(a.invoice)>> /\ NoActionOn(a.invoice).type = "NO_ACTION"
  BY DEF RecheckInput, Facts, NoActionOn
<1>. HIDE DEF e, c
<1>3. e.candidates[Selected(Policy, e)] = c
  BY <1>1, <1>2, OnlyCandidate
<1>. QED  BY <1>1, <1>3, ProceedIsAuthorised DEF e, c

\* A contact is counted below the limit that the check before it has looked at.
LEMMA SendMovesCase ==
    ASSUME Kept, NEW a \in ActionKey, SendContact(a)
    PROVE  CaseMoves
<1>. DEFINE i == a.invoice
            c == Contact(i, a.type)
            row == [case[i] EXCEPT !.state = "VERIFYING", !.contacts = case[i].contacts + 1]
<1>1. i \in Invoice /\ Contacts(c)
  BY DEF ActionKey, ContactType, Contact, Contacts, ClassOf, ActionClasses
<1>2. CaseRow(case[i])
  BY <1>1 DEF Kept
<1>3. case[i].contacts < Policy.contactLimit
  <2>1. Verdict(Policy, RecheckInput(a), c).result = "PROCEED"
    BY SendChecks
  <2>2. RecheckInput(a).contactCount = case[i].contacts
    BY DEF RecheckInput, Facts
  <2>. HIDE DEF c
  <2>3. ~(case[i].contacts >= Policy.contactLimit)
    BY <1>1, <2>1, <2>2, ProceedMeans
  <2>. QED  BY <1>2, <2>3, PolicyAssumption DEF CaseRow
<1>4. row = [state |-> "VERIFYING", next |-> case[i].next, contacts |-> case[i].contacts + 1]
  BY <1>2, ContactWrites, Zenon DEF row
<1>5. case' = [case EXCEPT ![i] = row]
  BY <1>1 DEF SendContact, Kept
<1>. HIDE DEF row, i, c
<1>6. CaseRow(row)
  BY <1>2, <1>3, <1>4, PolicyAssumption DEF CaseRow, CaseState
<1>. QED  BY <1>1, <1>5, <1>6 DEF Kept, CaseMoves

\* A contact that is not answered is escalated.
LEMMA DeadlineMovesCase ==
    ASSUME Kept, NEW i \in Invoice, VerificationDeadline(i)
    PROVE  CaseMoves
<1>. DEFINE row == [case[i] EXCEPT !.state = "ESCALATED"]
<1>1. CaseRow(row)
  BY DEF Kept, CaseRow, CaseState
<1>2. case' = [case EXCEPT ![i] = row]
  BY DEF VerificationDeadline
<1>. HIDE DEF row
<1>. QED  BY <1>1, <1>2 DEF Kept, CaseMoves

\* Every step keeps the cases.
LEMMA CasesMove ==
    ASSUME Kept, [Next]_vars
    PROVE  CaseMoves
<1>1. ASSUME UNCHANGED case
      PROVE  CaseMoves
  BY <1>1, SameCases
<1>2. CASE UNCHANGED vars \/ Tick
  BY <1>1, <1>2 DEF vars, Tick
<1>3. CASE MaintainPromises
  BY <1>1, <1>3, RemindMovesCase DEF MaintainPromises, EndPromise
<1>4. CASE \E r \in Response : Answer(r)
  BY <1>1, <1>4 DEF Answer, MakePromise, Freeze, AskForReview
<1>5. CASE \E a \in ActionKey : CancelContact(a) \/ SendContact(a)
  BY <1>5, CancelMovesCase, SendMovesCase
<1>6. ASSUME NEW i \in Invoice,
             \/ \E at \in NoticeTimes(i) : IngestOverdue(i, at)
             \/ Reevaluate(i) \/ VerificationDeadline(i)
             \/ CloseIntervention(i) \/ PayInvoice(i)
      PROVE  CaseMoves
  <2>1. CASE \E at \in NoticeTimes(i) : IngestOverdue(i, at)
    BY <1>1, <2>1, EvaluateMoves DEF IngestOverdue
  <2>2. CASE Reevaluate(i)
    BY <2>2, EvaluateMoves DEF Reevaluate
  <2>3. CASE CloseIntervention(i) \/ PayInvoice(i)
    BY <1>1, <2>3 DEF CloseIntervention, PayInvoice
  <2>. QED  BY <1>6, <2>1, <2>2, <2>3, DeadlineMovesCase
<1>. QED  BY <1>2, <1>3, <1>4, <1>5, <1>6 DEF Next

-----------------------------------------------------------------------------
(* The invariant. *)

\* The invariant is inductive.
LEMMA KeptStep == Kept /\ [Next]_vars => Kept'
<1>. SUFFICES ASSUME Kept, [Next]_vars
              PROVE  Kept'
  OBVIOUS
<1>1. action' = [a \in ActionKey |-> action'[a]] /\ \A a \in ActionKey : ContactRow(action'[a])
  BY QuietMoves, SendMoves DEF NothingSent
<1>. QED  BY <1>1, StepMoves, ClockMoves, CasesMove DEF Kept, InvoiceMoves, PromiseMoves, CaseMoves

\* The tables of the playbook are kept by their keys, and an active promise has a day.
THEOREM KeptAlways == Spec => []Kept
BY KeptInit, KeptStep, PTL DEF Spec

-----------------------------------------------------------------------------
(* What is never taken back. *)

\* playbook_repositories.py: store_promise, due_broken_promises, the freezes of a
\* dispute and of a claim.  A promise ends once.
THEOREM PromisesEndOnce == Spec => PromiseEndsOnce
<1>. DEFINE Same == \A r \in Response :
          promise[r].status \notin {"NONE", "ACTIVE"} => promise'[r].status = promise[r].status
<1>1. Kept /\ [Next]_vars => [Same]_vars
  BY StepMoves DEF PromiseMoves
<1>. QED  BY <1>1, KeptAlways, PTL DEF PromiseEndsOnce, Spec

\* playbook_repositories.py: every statement that writes the status of an invoice.
\* A dispute stays until the invoice is paid.
THEOREM DisputesStay == Spec => DisputeStays
<1>. DEFINE Same == \A i \in Invoice :
          invoice[i].status = "DISPUTED" => invoice'[i].status \in {"DISPUTED", "PAID"}
<1>1. Kept /\ [Next]_vars => [Same]_vars
  BY StepMoves DEF InvoiceMoves
<1>. QED  BY <1>1, KeptAlways, PTL DEF DisputeStays, Spec

-----------------------------------------------------------------------------
(* What is true of an invoice when its customer is contacted. *)

\* Only the sending of that very contact makes it SUCCEEDED.
LEMMA StartIsSend ==
    ASSUME Kept, [Next]_vars, NEW a \in ActionKey, Starts(a)
    PROVE  SendContact(a)
<1>1. PICK b \in ActionKey : SendContact(b)
  BY QuietMoves DEF NothingSent, Starts
<1>. QED  BY <1>1, SendMoves DEF Starts

\* No contact is sent about an invoice that is disputed, escalated or paid.
THEOREM SettledIsNeverContacted == Spec => SettledIsNotContacted
<1>. DEFINE Checked == \A a \in ActionKey : Starts(a) =>
          invoice[a.invoice].status \notin {"DISPUTED", "ESCALATED", "PAID"}
<1>1. ASSUME Kept, [Next]_vars, NEW a \in ActionKey, Starts(a)
      PROVE  invoice[a.invoice].status \notin {"DISPUTED", "ESCALATED", "PAID"}
  <2>1. ~RecheckInput(a).paid /\ ~RecheckInput(a).disputed /\ ~RecheckInput(a).cancelled
    BY <1>1, StartIsSend, SendChecks
  <2>2. LET e == RecheckInput(a)
        IN  /\ e.paid = (invoice[a.invoice].status = "PAID")
            /\ e.disputed = (invoice[a.invoice].status = "DISPUTED")
            /\ e.cancelled = (invoice[a.invoice].status \in {"CANCELLED", "ESCALATED"})
    BY DEF RecheckInput, Facts
  <2>. QED  BY <2>1, <2>2
<1>2. Kept /\ [Next]_vars => [Checked]_vars
  BY <1>1
<1>. QED  BY <1>2, KeptAlways, PTL DEF SettledIsNotContacted, Spec

\* The gate of a promise: no contact but the reminder of the promise passes it.
LEMMA PromiseGate ==
    ASSUME NEW e, NEW c, Verdict(Policy, e, c).result = "PROCEED", Contacts(c),
           c.type # "SCHEDULE_PROMISE_REMINDER"
    PROVE  e.promiseDue = NoTime
<1>. DEFINE g == Gates(Policy, e, c)
<1>1. g[10].when = (/\ ClassOf(c) \in Effectful /\ e.promiseDue # NoTime
                    /\ c.type # "SCHEDULE_PROMISE_REMINDER")
  BY DEF Gates, Gate
<1>2. ~g[10].when
  BY ProceedPassesEveryGate
<1>. QED  BY <1>1, <1>2, Zenon DEF Contacts, Effectful

\* policy.py: the promise gate, as the execution check applies it.  While a promise
\* is active no contact but its reminder is sent, whenever that contact was authorised.
THEOREM PromisesHoldOutreach == Spec => PromiseHoldsOutreach
<1>. DEFINE Checked == \A a \in ActionKey :
          Starts(a) /\ a.type = "SEND_REMINDER" => PromisesOn(a.invoice) = {}
<1>1. ASSUME Kept, [Next]_vars, NEW a \in ActionKey, Starts(a), a.type = "SEND_REMINDER",
             PromisesOn(a.invoice) # {}
      PROVE  FALSE
  <2>. DEFINE c == Contact(a.invoice, a.type)
  <2>1. Verdict(Policy, RecheckInput(a), c).result = "PROCEED"
    BY <1>1, StartIsSend, SendChecks
  <2>2. c.type = "SEND_REMINDER" /\ Contacts(c)
    BY <1>1 DEF Contact, Contacts, ClassOf, ActionClasses
  <2>. HIDE DEF c
  <2>3. RecheckInput(a).promiseDue = NoTime
    BY <2>1, <2>2, PromiseGate
  <2>4. PromiseDue(a.invoice) = NoTime
    BY <2>3 DEF RecheckInput, Facts
  <2>5. \A r \in PromisesOn(a.invoice) : promise[r].due # NoTime
    BY <1>1 DEF PromisesOn, Kept, NoTime
  <2>. QED  BY <1>1, <2>4, <2>5, LatestPromise DEF ActionKey
<1>2. Kept /\ [Next]_vars => [Checked]_vars
  BY <1>1
<1>. QED  BY <1>2, KeptAlways, PTL DEF PromiseHoldsOutreach, Spec

\* playbook_repositories.py and policy.py: the columns of the tables.  A case is not
\* contacted more often than the policy allows, and a deferred one has a wake time.
THEOREM TypeCorrect == Spec => []TypeOK
<1>1. Kept => TypeOK
  <2>. SUFFICES ASSUME Kept
                PROVE  TypeOK
    OBVIOUS
  <2>1. invoice \in [Invoice -> [status : InvoiceStatus, at : 0..MaxTime, frozen : BOOLEAN]]
    <3>1. ASSUME NEW status \in InvoiceStatus, NEW at \in 0..MaxTime, NEW frozen \in BOOLEAN
          PROVE  [status |-> status, at |-> at, frozen |-> frozen]
                    \in [status : InvoiceStatus, at : 0..MaxTime, frozen : BOOLEAN]
      OBVIOUS
    <3>2. ASSUME NEW row, InvoiceRow(row)
          PROVE  row \in [status : InvoiceStatus, at : 0..MaxTime, frozen : BOOLEAN]
      <4>1. [status |-> row.status, at |-> row.at, frozen |-> row.frozen]
               \in [status : InvoiceStatus, at : 0..MaxTime, frozen : BOOLEAN]
        BY <3>1, <3>2, Zenon DEF InvoiceRow
      <4>. QED  BY <3>2, <4>1, Zenon DEF InvoiceRow
    <3>. QED  BY <3>2 DEF Kept
  <2>. QED  BY <2>1 DEF Kept, TypeOK, CaseRow, PromiseRow, ContactRow
<1>. QED  BY <1>1, KeptAlways, PTL
=============================================================================
