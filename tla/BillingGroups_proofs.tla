------------------------ MODULE BillingGroups_proofs ------------------------
(***************************************************************************)
(* The catalog of a billing group and the checkouts made under one         *)
(* idempotency key, for any number of rows, prices, replicas, requests and *)
(* bodies: what a plan on offer costs, that it can be bought, and what     *)
(* callers who repeat a checkout are told.                                 *)
(***************************************************************************)
EXTENDS BillingCheckout, TLAPS

-----------------------------------------------------------------------------
(* Types. *)

RowStates == {"none", "pending", "active", "failed", "archived"}
GroupRow == [st : {"none", "active", "suspended", "archived"}, owner : Callers \cup {None},
             cred : {"absent", "active"}, hook : BOOLEAN, portal : BOOLEAN, caps : SUBSET Caps]
Money == Amounts \cup {0}
Row == [grp : Groups \cup {None}, st : RowStates, active : BOOLEAN, amt : Money, price : Nat]
Price == [amt : Money, live : BOOLEAN]
Request == [pc : {"idle", "attach"} \cup PricePc \cup SyncPc, grp : Groups \cup {None},
            proj : Projects \cup {None}, item : Items \cup {None}, amt : Money, old : Nat, new : Nat,
            live : SUBSET Nat, tag : Nat, todo : SUBSET Items, saw : Groups \cup {None}]

Known == 1 .. Len(prices)
\* What a request has in hand exists: its row was there, its prices are at Stripe.
RequestOK(p) ==
    /\ op[p].pc \in PricePc => op[p].item \in Items
    /\ op[p].old \in Known \cup {0}
    /\ op[p].pc = "refs" => op[p].old = 0
    /\ op[p].pc = "store" => op[p].new \in Known
    /\ op[p].live \subseteq Known /\ op[p].tag \in op[p].live \cup {0}
    /\ op[p].todo # {} => op[p].pc = "adopt" /\ op[p].tag # 0
    /\ op[p].pc \in SyncPc => op[p].grp \in Groups
    /\ op[p].pc = "attach" => op[p].proj \in Projects /\ op[p].grp \in Groups
RowOK(i) ==
    /\ item[i].price \in Known \cup {0}
    /\ item[i].st = "none" => item[i] = NoRow
CatalogTypeOK ==
    /\ grp \in [Groups -> GroupRow] /\ att \in [Projects -> Groups \cup {None}] /\ subs \subseteq Groups
    /\ item \in [Items -> Row] /\ \A i \in Items : RowOK(i)
    /\ prices \in Seq(Price) /\ tagged \in Nat
    /\ op \in [Proc -> Request] /\ \A p \in Proc : RequestOK(p)
    /\ ops \in Nat /\ mixed \subseteq Items /\ unsynced \subseteq Items

-----------------------------------------------------------------------------
(* The rows and requests of one group. *)

OfGroup(g) ==
    /\ \A i \in Items : item[i].st # "none" => item[i].grp = g
    /\ \A p \in Proc : op[p].pc \in SyncPc => op[p].grp = g

\* Two requests at a time are recorded.
Pricing(p) == op[p].pc \in PricePc
MixInv ==
    /\ \A p, q \in Proc : op[p].pc \in SyncPc /\ Pricing(q) => mixed = Items
    /\ \A p, q \in Proc : p # q /\ Pricing(p) /\ Pricing(q) /\ op[p].item = op[q].item => op[p].item \in mixed

\* Nothing is switched off under a reconciliation.
IndexInv ==
    mixed # Items => \A p \in Proc : op[p].pc \in SyncPc => \A n \in op[p].live : prices[n].live

\* A price that was made and is not yet stored is nobody else's.
StoreAt(p) ==
    /\ prices[op[p].new].live
    /\ \A i \in Items : item[i].price # op[p].new
    /\ \A q \in Proc : Pricing(q) => op[q].old # op[p].new
    /\ \A q \in Proc : q # p /\ op[q].pc = "store" => op[q].new # op[p].new
StoreInv == mixed # Items => \A p \in Proc : op[p].pc = "store" => StoreAt(p)

\* The price of a provisioned row is live and about to be switched off by
\* nobody; who may still come to that finds the row on offer, which refuses
\* him the plan.
Held(i) == item[i].st = "active" /\ item[i].price # 0
LiveAt(i) ==
    /\ prices[item[i].price].live
    /\ \A q \in Proc : op[q].pc = "deactivate" => op[q].old # item[i].price
    /\ \A q \in Proc : op[q].pc \in {"price", "store"} /\ op[q].old = item[i].price /\ op[q].item # i =>
          item[i].active /\ item[op[q].item].st # "none"
    /\ ~item[i].active => \A j \in Items \ {i} : item[j].price # item[i].price
LiveInv == \A i \in Items \ mixed : Held(i) => LiveAt(i)

\* What is on its way to a row costs what the row says.
AmountAt(i) ==
    /\ Held(i) /\ (\A p \in Proc : Pricing(p) => op[p].item # i) => prices[item[i].price].amt = item[i].amt
    /\ \A p \in Proc : op[p].item = i =>
          /\ op[p].pc = "price" => op[p].amt = item[i].amt
          /\ op[p].pc = "store" => prices[op[p].new].amt = item[i].amt
          /\ op[p].pc = "deactivate" /\ Held(i) => prices[item[i].price].amt = item[i].amt
AmountInv == \A i \in Items : item[i].st # "none" /\ ~Excepted(i) => AmountAt(i)

RaceInv == MixInv /\ IndexInv /\ StoreInv
CatalogInv(g) == CatalogTypeOK /\ OfGroup(g) /\ RaceInv /\ LiveInv /\ AmountInv

-----------------------------------------------------------------------------
(* Checkouts under one key. *)

Sessions == 1 .. Len(sessions)
Intent == [grp : Groups, body : Bodies, st : {"pending", "completed", "conflict", "deleted"}, sess : Nat]
Checkout == [pc : {"idle", "begin", "session", "complete"}, body : Bodies \cup {None}, grp : Groups \cup {None},
             row : Nat, sess : Nat]
\* Session n was made for body b.
MadeFor(n, b) == n \in Sessions /\ sessions[n] = b
CheckoutOK(r) ==
    /\ co[r].pc # "idle" => co[r].body \in Bodies /\ co[r].grp \in Groups
    /\ co[r].row \in 0 .. Len(intents) /\ (co[r].row # 0 => intents[co[r].row].body = co[r].body)
    /\ co[r].pc = "begin" => co[r].row = 0
    /\ co[r].pc = "complete" => MadeFor(co[r].sess, co[r].body)
CheckoutTypeOK ==
    /\ intents \in Seq(Intent) /\ memory \in [Server -> [body : Bodies \cup {None}, sess : Nat]]
    /\ co \in [Server -> Checkout] /\ sessions \in Seq(Bodies \cup {None}) /\ answers \subseteq Bodies \X Nat
    /\ \A r \in Server : CheckoutOK(r)
\* What callers were told, and will be told again, is theirs.
OwnInv ==
    /\ \A x \in answers : MadeFor(x[2], x[1])
    /\ \A r \in Server : memory[r] # Nothing => MadeFor(memory[r].sess, memory[r].body)
    /\ \A k \in 1 .. Len(intents) : intents[k].sess # 0 => MadeFor(intents[k].sess, intents[k].body)

\* The one row with the key holds the one answer there is, or is about to.
AnswerIs(n) == Len(intents) = 1 /\ intents[1].sess = n
QuietInv ==
    /\ \A r, s \in Server : co[r].pc # "idle" /\ co[s].pc # "idle" => r = s
    /\ \A r \in Server : co[r].pc # "idle" => co[r].grp = att[Project]
    /\ \A k \in 1 .. Len(intents) : intents[k].grp = att[Project] /\ intents[k].st \in {"pending", "completed"}
    /\ Len(intents) \in {0, 1}
    /\ \A r \in Server : co[r].pc \in {"session", "complete"} => co[r].row = 1 /\ AnswerIs(0)
    /\ \A x \in answers : AnswerIs(x[2])
    /\ \A r \in Server : memory[r] # Nothing =>
          AnswerIs(memory[r].sess) \/ (co[r].pc = "complete" /\ co[r].sess = memory[r].sess)
CheckoutInv == CatalogTypeOK /\ CheckoutTypeOK /\ OwnInv

-----------------------------------------------------------------------------
(* Types. *)

LEMMA NewPrice ==
  ASSUME CatalogTypeOK, NEW m \in Money, CreatePrice(m)
  PROVE  /\ prices' \in Seq(Price) /\ tagged' \in Nat
         /\ Known' = Known \cup {Len(prices) + 1} /\ Len(prices) + 1 \notin Known /\ Len(prices) + 1 # 0
         /\ prices'[Len(prices) + 1] = [amt |-> m, live |-> TRUE]
         /\ \A n \in Known : prices'[n] = prices[n]
<1>1. prices \in Seq(Price) /\ [amt |-> m, live |-> TRUE] \in Price
  BY DEF CatalogTypeOK, Price
<1>2. /\ prices' = Append(prices, [amt |-> m, live |-> TRUE]) /\ tagged' = Len(prices) + 1
      /\ Len(prices) \in Nat
  BY <1>1 DEF CreatePrice
<1> QED BY <1>1, <1>2 DEF Known

LEMMA SwitchedOff ==
  ASSUME CatalogTypeOK, NEW n \in Known, prices' = [prices EXCEPT ![n].live = FALSE]
  PROVE  /\ prices' \in Seq(Price) /\ Known' = Known
         /\ \A k \in Known : prices'[k].amt = prices[k].amt /\ (k # n => prices'[k] = prices[k])
<1>1. prices \in Seq(Price) /\ DOMAIN prices = Known /\ \A k \in Known : prices[k] \in Price
  BY DEF CatalogTypeOK, Known
<1>2. [prices[n] EXCEPT !.live = FALSE] \in Price /\ [prices[n] EXCEPT !.live = FALSE].amt = prices[n].amt
  BY <1>1 DEF Price
<1>3. prices' = [prices EXCEPT ![n] = [prices[n] EXCEPT !.live = FALSE]]
  OBVIOUS
<1>4. prices' \in Seq(Price) /\ Len(prices') = Len(prices)
  BY <1>1, <1>2, <1>3
<1> QED BY <1>1, <1>2, <1>3, <1>4 DEF Known

LEMMA NoOpTyped == NoOp \in Request
BY CatalogAssumption DEF NoOp, Request, Money

\* A step writes at most one request and one row, and takes no price away.
LEMMA TypesFrame ==
  ASSUME CatalogTypeOK, NEW p \in Proc, NEW o \in Request, op' = [op EXCEPT ![p] = o],
         item' \in [Items -> Row], \A i \in Items : RowOK(i)', RequestOK(p)',
         prices' \in Seq(Price), Known \subseteq Known', tagged' \in Nat,
         grp' = grp, att' = att, subs' = subs, ops' \in Nat, mixed' \subseteq Items, unsynced' \subseteq Items
  PROVE  CatalogTypeOK'
<1>1. op' \in [Proc -> Request]
  BY DEF CatalogTypeOK
<1>2. \A q \in Proc : RequestOK(q)'
  <2> SUFFICES ASSUME NEW q \in Proc, q # p PROVE RequestOK(q)'
    OBVIOUS
  <2>1. op'[q] = op[q] /\ RequestOK(q)
    BY DEF CatalogTypeOK
  <2> QED BY <2>1 DEF RequestOK
<1> QED BY <1>1, <1>2 DEF CatalogTypeOK

\* The same for a step that leaves the requests alone.
LEMMA TypesQuiet ==
  ASSUME CatalogTypeOK, UNCHANGED <<op, stripe>>, item' \in [Items -> Row], \A i \in Items : RowOK(i)',
         grp' \in [Groups -> GroupRow], att' \in [Projects -> Groups \cup {None}], subs' \subseteq Groups,
         ops' \in Nat, mixed' \subseteq Items, unsynced' \subseteq Items
  PROVE  CatalogTypeOK'
<1>1. Known' = Known
  BY DEF Known, stripe
<1>2. \A q \in Proc : RequestOK(q)'
  BY <1>1 DEF CatalogTypeOK, RequestOK
<1> QED BY <1>2 DEF CatalogTypeOK, stripe

LEMMA RowsStay ==
  ASSUME CatalogTypeOK, item' = item, Known \subseteq Known'
  PROVE  item' \in [Items -> Row] /\ \A i \in Items : RowOK(i)'
BY DEF CatalogTypeOK, RowOK

LEMMA RowWritten ==
  ASSUME CatalogTypeOK, NEW i \in Items, NEW r \in Row, item' = [item EXCEPT ![i] = r],
         Known \subseteq Known', r.price \in Known' \cup {0}, r.st = "none" => r = NoRow
  PROVE  item' \in [Items -> Row] /\ \A j \in Items : RowOK(j)'
BY DEF CatalogTypeOK, RowOK

LEMMA RowTyped == ASSUME CatalogTypeOK, NEW i \in Items PROVE item[i] \in Row /\ RowOK(i)
BY DEF CatalogTypeOK

LEMMA MixTyped ==
  ASSUME CatalogTypeOK, NEW i \in Items
  PROVE  /\ BeginPriceOp(i) => mixed' \subseteq Items
         /\ BeginSync => mixed' \subseteq Items
BY DEF CatalogTypeOK, BeginPriceOp, BeginSync

\* The requests about groups.
LEMMA GroupTypes ==
  ASSUME CatalogTypeOK, NEW a \in Callers, NEW g \in Groups,
         \/ create_group(a, g)
         \/ \E s \in {"active", "suspended", "archived"} : update_group(a, g, s)
         \/ \E c \in Caps, on \in BOOLEAN : update_capabilities(a, g, c, on)
         \/ \E h, c \in {"value", "omitted", "empty"} : _apply_credentials(a, g, h, c)
  PROVE  CatalogTypeOK' /\ UNCHANGED <<item, stripe, op, catalogHistory>>
<1>1. ASSUME NEW r \in GroupRow PROVE Stored(r) \in GroupRow
  BY DEF Stored, GroupRow
<1>2. grp[g] \in GroupRow /\ grp \in [Groups -> GroupRow]
  BY DEF CatalogTypeOK
<1>3. PICK r \in GroupRow : grp' = [grp EXCEPT ![g] = r]
  <2>1. CASE create_group(a, g)
    <3>1. [NoGroup EXCEPT !.st = "active", !.owner = a] \in GroupRow
      BY DEF NoGroup, GroupRow
    <3> QED BY <2>1, <3>1 DEF create_group
  <2>2. ASSUME NEW s \in {"active", "suspended", "archived"}, update_group(a, g, s)
        PROVE  \E r \in GroupRow : grp' = [grp EXCEPT ![g] = r]
    <3>1. [grp[g] EXCEPT !.st = s] \in GroupRow
      BY <1>2 DEF GroupRow
    <3>2. Stored([grp[g] EXCEPT !.st = s]) \in GroupRow
      BY <1>1, <3>1
    <3> QED BY <2>2, <3>2 DEF update_group
  <2>3. ASSUME NEW c \in Caps, NEW on \in BOOLEAN, update_capabilities(a, g, c, on)
        PROVE  \E r \in GroupRow : grp' = [grp EXCEPT ![g] = r]
    <3> DEFINE n == [grp[g] EXCEPT !.caps = IF on THEN @ \cup {c} ELSE @ \ {c}]
    <3>1. n \in GroupRow
      BY <1>2 DEF GroupRow
    <3>2. Stored(n) \in GroupRow
      BY <1>1, <3>1
    <3>3. grp' = [grp EXCEPT ![g] = Stored(n)]
      BY <2>3, Zenon DEF update_capabilities
    <3> QED BY <3>2, <3>3
  <2>4. ASSUME NEW h, NEW c, _apply_credentials(a, g, h, c)
        PROVE  \E r \in GroupRow : grp' = [grp EXCEPT ![g] = r]
    <3> DEFINE n == [grp[g] EXCEPT !.cred = "active", !.hook = _kept_or_sent(h, @),
                                    !.portal = _kept_or_sent(c, @)]
    <3>1. n \in GroupRow
      <4>1. \A x, y : _kept_or_sent(x, y) \in BOOLEAN
        BY DEF _kept_or_sent
      <4> QED BY <1>2, <4>1 DEF GroupRow
    <3>2. Stored(n) \in GroupRow
      BY <1>1, <3>1
    <3>3. grp' = [grp EXCEPT ![g] = Stored(n)]
      BY <2>4, Zenon DEF _apply_credentials
    <3> QED BY <3>2, <3>3
  <2> QED BY <2>1, <2>2, <2>3, <2>4
<1>4. UNCHANGED <<att, subs, item, stripe, op, catalogHistory>> /\ ops' = ops + 1
  BY DEF create_group, update_group, update_capabilities, _apply_credentials, Serve
<1>5. item' \in [Items -> Row] /\ \A i \in Items : RowOK(i)'
  BY <1>4, RowsStay DEF stripe, Known
<1> QED BY <1>2, <1>3, <1>4, <1>5, TypesQuiet DEF catalogHistory, CatalogTypeOK

LEMMA DeletedTypes == ASSUME CatalogTypeOK, NEW a \in Callers, NEW g \in Groups, delete_group(a, g) PROVE CatalogTypeOK'
<1>1. NoGroup \in GroupRow /\ NoRow \in Row
  BY DEF NoGroup, GroupRow, NoRow, Row, RowStates, Money
<1>2. \A i \in Items : item'[i] \in {item[i], NoRow}
  BY DEF delete_group
<1>3. Known' = Known
  BY DEF delete_group, stripe, Known
<1>4. item' \in [Items -> Row] /\ \A i \in Items : RowOK(i)'
  <2>1. item' \in [Items -> Row]
    BY <1>1, RowTyped DEF delete_group
  <2>2. NoRow.price = 0 /\ NoRow.st = "none"
    BY DEF NoRow
  <2> QED BY <1>2, <1>3, <2>1, <2>2, RowTyped DEF RowOK
<1>5. grp' \in [Groups -> GroupRow] /\ att' \in [Projects -> Groups \cup {None}]
  BY <1>1 DEF delete_group, CatalogTypeOK
<1> QED BY <1>4, <1>5, TypesQuiet DEF delete_group, catalogHistory, CatalogTypeOK, Serve

LEMMA DetachedTypes ==
  ASSUME CatalogTypeOK, NEW a \in Callers, NEW g \in Groups,
         (\E x \in Projects : detach_project(a, g, x)) \/ SubscriptionChanges(g)
  PROVE  CatalogTypeOK' /\ UNCHANGED <<item, stripe, op, catalogHistory>>
<1>1. UNCHANGED <<grp, item, stripe, op, catalogHistory>> /\ ops' \in Nat
  BY DEF detach_project, SubscriptionChanges, Serve, CatalogTypeOK
<1>2. att' \in [Projects -> Groups \cup {None}] /\ subs' \subseteq Groups
  BY DEF detach_project, SubscriptionChanges, CatalogTypeOK
<1>3. item' \in [Items -> Row] /\ \A i \in Items : RowOK(i)'
  BY <1>1, RowsStay DEF stripe, Known
<1> QED BY <1>1, <1>2, <1>3, TypesQuiet DEF catalogHistory, CatalogTypeOK

LEMMA AttachTypes ==
  ASSUME CatalogTypeOK, NEW p \in Proc,
         \/ \E a \in Callers, g \in Groups, x \in Projects : attach_project(p, a, g, x)
         \/ attach_project_to_billing_group(p)
  PROVE  CatalogTypeOK'
<1>1. CASE \E a \in Callers, g \in Groups, x \in Projects : attach_project(p, a, g, x)
  <2>1. PICK a \in Callers, g \in Groups, x \in Projects : attach_project(p, a, g, x)
    BY <1>1
  <2> DEFINE o == [NoOp EXCEPT !.pc = "attach", !.grp = g, !.proj = x, !.saw = att[x]]
  <2>2. o \in Request
    BY NoOpTyped DEF Request, NoOp, CatalogTypeOK
  <2>3. op' = [op EXCEPT ![p] = o] /\ op'[p] = o /\ UNCHANGED <<groups, item, stripe, catalogHistory>> /\ ops' = ops + 1
    BY <2>1 DEF attach_project, Serve, CatalogTypeOK
  <2>4. RequestOK(p)'
    <3>1. o.pc = "attach" /\ o.old = 0 /\ o.live = {} /\ o.tag = 0 /\ o.todo = {} /\ o.proj = x /\ o.grp = g
      BY DEF NoOp
    <3> HIDE DEF o
    <3> QED BY <2>3, <3>1 DEF RequestOK, PricePc, SyncPc
  <2>5. item' \in [Items -> Row] /\ \A i \in Items : RowOK(i)'
    BY <2>3, RowsStay DEF stripe, Known
  <2> HIDE DEF o
  <2>6. /\ prices' \in Seq(Price) /\ Known \subseteq Known' /\ tagged' \in Nat /\ ops' \in Nat
        /\ mixed' \subseteq Items /\ unsynced' \subseteq Items /\ grp' = grp /\ att' = att /\ subs' = subs
    BY <2>3 DEF groups, stripe, catalogHistory, Known, CatalogTypeOK
  <2> QED BY <2>2, <2>3, <2>4, <2>5, <2>6, TypesFrame
<1>2. CASE attach_project_to_billing_group(p)
  <2>0. RequestOK(p) /\ op[p].pc = "attach"
    BY <1>2 DEF attach_project_to_billing_group, At, CatalogTypeOK
  <2>1. op[p].proj \in Projects /\ op[p].grp \in Groups
    BY <2>0 DEF RequestOK
  <2>2. att' \in [Projects -> Groups \cup {None}]
    BY <1>2, <2>1 DEF attach_project_to_billing_group, CatalogTypeOK
  <2>3. op' = [op EXCEPT ![p] = NoOp] /\ op'[p] = NoOp
    BY <1>2 DEF attach_project_to_billing_group, Done, CatalogTypeOK
  <2>4. \A q \in Proc : RequestOK(q)'
    BY <1>2, <2>3 DEF attach_project_to_billing_group, RequestOK, NoOp, PricePc, SyncPc, CatalogTypeOK, Known, stripe
  <2> QED BY <1>2, <2>2, <2>3, <2>4, NoOpTyped
          DEF attach_project_to_billing_group, CatalogTypeOK, stripe, catalogHistory, RowOK, Known
<1> QED BY <1>1, <1>2

\* A request about a row writes the row and leaves the request with it, if at
\* all, in the hands of its replica.
LEMMA RowTypes ==
  ASSUME CatalogTypeOK, NEW i \in Items, NEW r \in Row, item' = [item EXCEPT ![i] = r],
         r.price \in Known \cup {0}, r.st # "none", UNCHANGED <<groups, stripe>>, ops' \in Nat,
         \/ UNCHANGED op
         \/ \E p \in Proc : \E o \in Request :
              /\ op' = [op EXCEPT ![p] = o]
              /\ o.pc \in {"price", "refs"} /\ o.item = i /\ o.old = 0 /\ o.live = {} /\ o.tag = 0 /\ o.todo = {},
         mixed' \subseteq Items, unsynced' \subseteq Items
  PROVE  CatalogTypeOK'
<1>1. Known' = Known /\ prices' \in Seq(Price) /\ tagged' \in Nat
  BY DEF Known, stripe, CatalogTypeOK
<1>2. item' \in [Items -> Row] /\ \A j \in Items : RowOK(j)'
  BY <1>1, RowWritten
<1>3. CASE UNCHANGED op
  BY <1>2, <1>3, TypesQuiet DEF groups, CatalogTypeOK
<1>4. ASSUME NEW p \in Proc, NEW o \in Request, op' = [op EXCEPT ![p] = o], o.pc \in {"price", "refs"},
             o.item = i, o.old = 0, o.live = {}, o.tag = 0, o.todo = {}
      PROVE  CatalogTypeOK'
  <2>1. op'[p] = o
    BY <1>4 DEF CatalogTypeOK
  <2>2. RequestOK(p)'
    BY <1>4, <2>1 DEF RequestOK, PricePc, SyncPc
  <2> QED BY <1>1, <1>2, <1>4, <2>2, TypesFrame DEF groups
<1> QED BY <1>3, <1>4

LEMMA CreateTypes ==
  ASSUME CatalogTypeOK, NEW p \in Proc, NEW a \in Callers, NEW g \in Groups, NEW i \in Items, NEW m \in Amounts,
         create_catalog_item(p, a, g, i, m)
  PROVE  CatalogTypeOK'
<1> DEFINE r == [NoRow EXCEPT !.grp = g, !.st = "pending", !.amt = m]
           o == [NoOp EXCEPT !.pc = "price", !.item = i, !.amt = m]
<1>1. r \in Row /\ r.price = 0 /\ r.st # "none"
  BY DEF NoRow, Row, RowStates, Money
<1>2. o \in Request /\ o.pc = "price" /\ o.item = i /\ o.old = 0 /\ o.live = {} /\ o.tag = 0 /\ o.todo = {}
  BY NoOpTyped DEF NoOp, Request, PricePc, Money
<1>3. /\ item' = [item EXCEPT ![i] = r] /\ UNCHANGED <<groups, stripe>> /\ ops' = ops + 1
      /\ \/ op' = [op EXCEPT ![p] = o] /\ BeginPriceOp(i) /\ UNCHANGED unsynced
         \/ UNCHANGED <<op, catalogHistory>>
  BY DEF create_catalog_item, Serve
<1>4. mixed' \subseteq Items /\ unsynced' \subseteq Items /\ ops' \in Nat
  BY <1>3, MixTyped DEF catalogHistory, CatalogTypeOK
<1>5. r.price \in Known \cup {0} /\ r.st # "none"
  BY <1>1
<1> HIDE DEF r, o
<1>6. CASE op' = [op EXCEPT ![p] = o]
  BY <1>1, <1>2, <1>3, <1>4, <1>5, <1>6, RowTypes
<1>7. CASE UNCHANGED op
  BY <1>1, <1>3, <1>4, <1>5, <1>7, RowTypes
<1> QED BY <1>3, <1>6, <1>7

LEMMA UpdateTypes ==
  ASSUME CatalogTypeOK, NEW p \in Proc, NEW a \in Callers, NEW g \in Groups, NEW i \in Items, NEW m \in Amounts,
         update_catalog_item(p, a, g, i, m)
  PROVE  CatalogTypeOK'
<1> DEFINE r == [item[i] EXCEPT !.amt = m]
           o == [NoOp EXCEPT !.pc = "refs", !.item = i]
<1>1. r \in Row /\ r.price = item[i].price /\ r.st = item[i].st
  BY RowTyped DEF Row, Money
<1>2. o \in Request /\ o.pc = "refs" /\ o.item = i /\ o.old = 0 /\ o.live = {} /\ o.tag = 0 /\ o.todo = {}
  BY NoOpTyped DEF NoOp, Request, PricePc
<1>3. /\ item' = [item EXCEPT ![i] = r] /\ UNCHANGED <<groups, stripe>> /\ ops' = ops + 1 /\ item[i].st # "none"
      /\ \/ op' = [op EXCEPT ![p] = o] /\ BeginPriceOp(i) /\ UNCHANGED unsynced
         \/ unsynced' = unsynced \cup {i} /\ UNCHANGED <<op, mixed>>
  BY DEF update_catalog_item, Serve, _require_catalog_item
<1>4. mixed' \subseteq Items /\ unsynced' \subseteq Items /\ ops' \in Nat
  BY <1>3, MixTyped DEF catalogHistory, CatalogTypeOK
<1>5. item[i].price \in Known \cup {0}
  BY DEF CatalogTypeOK, RowOK
<1> HIDE DEF r, o
<1>6. r.price \in Known \cup {0} /\ r.st # "none"
  BY <1>1, <1>3, <1>5
<1>7. CASE op' = [op EXCEPT ![p] = o]
  BY <1>1, <1>2, <1>3, <1>4, <1>6, <1>7, RowTypes
<1>8. CASE UNCHANGED op
  BY <1>1, <1>3, <1>4, <1>6, <1>8, RowTypes
<1> QED BY <1>3, <1>7, <1>8

LEMMA ArchiveTypes ==
  ASSUME CatalogTypeOK, NEW a \in Callers, NEW g \in Groups, NEW i \in Items,
         \/ \E archived \in BOOLEAN : archive_catalog_item(a, g, i, archived)
         \/ delete_catalog_item(a, g, i)
  PROVE  /\ CatalogTypeOK' /\ item[i].st # "none" /\ UNCHANGED <<op, stripe, mixed, unsynced>>
         /\ archive_row(i) \/ set_catalog_item_active(i)
<1>1. /\ UNCHANGED <<groups, stripe, op, catalogHistory>> /\ item[i].st # "none" /\ ops' = ops + 1
      /\ archive_row(i) \/ set_catalog_item_active(i)
  BY DEF archive_catalog_item, delete_catalog_item, _require_catalog_item, Serve
<1>2. item[i] \in Row /\ item[i].price \in Known \cup {0}
  BY DEF CatalogTypeOK, RowOK
<1>3. PICK r \in Row : item' = [item EXCEPT ![i] = r] /\ r.price = item[i].price /\ r.st # "none"
  <2>1. CASE archive_row(i)
    <3> DEFINE r == [item[i] EXCEPT !.st = "archived", !.active = FALSE]
    <3>1. r \in Row /\ r.price = item[i].price /\ r.st # "none"
      BY <1>2 DEF Row, RowStates
    <3> QED BY <2>1, <3>1 DEF archive_row
  <2>2. CASE set_catalog_item_active(i)
    <3> DEFINE r == [item[i] EXCEPT !.active = TRUE]
    <3>1. r \in Row /\ r.price = item[i].price /\ r.st # "none"
      BY <1>1, <1>2 DEF Row
    <3> QED BY <2>2, <3>1 DEF set_catalog_item_active
  <2> QED BY <1>1, <2>1, <2>2
<1>4. CatalogTypeOK'
  <2>1. UNCHANGED op /\ ops' \in Nat /\ mixed' \subseteq Items /\ unsynced' \subseteq Items
    BY <1>1 DEF catalogHistory, CatalogTypeOK
  <2> QED BY <1>1, <1>2, <1>3, <2>1, RowTypes
<1> QED BY <1>1, <1>4 DEF catalogHistory

\* A replica goes on with its request, or gives it up, and writes one row at most.
LEMMA StepTypes ==
  ASSUME CatalogTypeOK, NEW p \in Proc, NEW o \in Request, op' = [op EXCEPT ![p] = o],
         \/ UNCHANGED item
         \/ \E i \in Items : \E r \in Row :
              item' = [item EXCEPT ![i] = r] /\ r.price \in Known' \cup {0} /\ r.st # "none",
         prices' \in Seq(Price), tagged' \in Nat, Known \subseteq Known',
         o.pc \in PricePc => o.item \in Items, o.old \in Known \cup {0}, o.pc = "refs" => o.old = 0,
         o.pc = "store" => o.new \in Known', o.live \subseteq Known, o.tag \in o.live \cup {0},
         o.todo # {} => o.pc = "adopt" /\ o.tag # 0, o.pc \in SyncPc => o.grp \in Groups, o.pc # "attach",
         UNCHANGED groups, ops' \in Nat, mixed' \subseteq Items, unsynced' \subseteq Items
  PROVE  CatalogTypeOK' /\ op'[p] = o
<1>1. op'[p] = o
  BY DEF CatalogTypeOK
<1>2. RequestOK(p)'
  BY <1>1 DEF RequestOK
<1>3. item' \in [Items -> Row] /\ \A j \in Items : RowOK(j)'
  <2>1. CASE UNCHANGED item
    BY <2>1, RowsStay
  <2>2. ASSUME NEW i \in Items, NEW r \in Row, item' = [item EXCEPT ![i] = r],
               r.price \in Known' \cup {0}, r.st # "none"
        PROVE  item' \in [Items -> Row] /\ \A j \in Items : RowOK(j)'
    BY <2>2, RowWritten
  <2> QED BY <2>1, <2>2
<1> QED BY <1>1, <1>2, <1>3, TypesFrame DEF groups

LEMMA Given == ASSUME CatalogTypeOK, NEW p \in Proc PROVE op[p] \in Request /\ RequestOK(p) /\ ops \in Nat
BY DEF CatalogTypeOK

LEMMA NoOpIs ==
  /\ NoOp.pc = "idle" /\ NoOp.item = None /\ NoOp.old = 0 /\ NoOp.new = 0 /\ NoOp.live = {} /\ NoOp.tag = 0
  /\ NoOp.todo = {}
BY DEF NoOp

\* The request ends; its row may be written.
LEMMA DoneTypes ==
  ASSUME CatalogTypeOK, NEW p \in Proc, Done(p),
         \/ UNCHANGED item
         \/ \E i \in Items : \E r \in Row :
              item' = [item EXCEPT ![i] = r] /\ r.price \in Known' \cup {0} /\ r.st # "none",
         prices' \in Seq(Price), tagged' \in Nat, Known \subseteq Known',
         UNCHANGED groups, ops' \in Nat, mixed' \subseteq Items, unsynced' \subseteq Items
  PROVE  CatalogTypeOK' /\ op'[p] = NoOp
<1>1. op' = [op EXCEPT ![p] = NoOp] /\ NoOp \in Request
  BY NoOpTyped DEF Done
<1>2. "idle" \notin PricePc /\ "idle" \notin SyncPc
  BY DEF PricePc, SyncPc
<1> QED BY <1>1, <1>2, NoOpIs, StepTypes

LEMMA SyncTypes ==
  ASSUME CatalogTypeOK, NEW p \in Proc, NEW a \in Callers, NEW g \in Groups, sync_catalog(p, a, g)
  PROVE  CatalogTypeOK' /\ op'[p] = [NoOp EXCEPT !.pc = "index", !.grp = g]
<1> DEFINE o == [NoOp EXCEPT !.pc = "index", !.grp = g]
<1>1. /\ o \in Request /\ o.pc = "index" /\ o.grp = g /\ o.old = 0 /\ o.live = {} /\ o.tag = 0 /\ o.todo = {}
      /\ "index" \notin PricePc
  BY NoOpTyped DEF NoOp, Request, SyncPc, PricePc
<1>2. op' = [op EXCEPT ![p] = o] /\ UNCHANGED <<groups, item, stripe, unsynced>> /\ BeginSync /\ ops' = ops + 1
  BY DEF sync_catalog, Serve
<1>3. prices' \in Seq(Price) /\ tagged' \in Nat /\ Known' = Known /\ ops' \in Nat /\ unsynced' \subseteq Items
  BY <1>2 DEF stripe, Known, CatalogTypeOK
<1>4. mixed' \subseteq Items
  BY <1>2 DEF BeginSync, CatalogTypeOK
<1> HIDE DEF o
<1>5. CatalogTypeOK' /\ op'[p] = o
  BY <1>1, <1>2, <1>3, <1>4, StepTypes
<1> QED BY <1>5 DEF o

LEMMA ReprovisionTypes == ASSUME CatalogTypeOK, NEW p \in Proc, reprovision_price(p) PROVE CatalogTypeOK'
<1>1. op[p].pc = "refs" /\ op[p].item \in Items
  BY Given DEF reprovision_price, At, RequestOK, PricePc
<1> DEFINE r == item[op[p].item]
           o == [op[p] EXCEPT !.pc = "price", !.amt = r.amt, !.old = r.price]
<1>2. r \in Row /\ r.price \in Known \cup {0}
  BY <1>1, RowTyped DEF RowOK
<1>3. o \in Request /\ o.pc = "price" /\ o.old = r.price /\ o.item = op[p].item
  BY <1>2, Given DEF Request, Row, PricePc
<1>4. o.live = op[p].live /\ o.tag = op[p].tag /\ o.todo = op[p].todo /\ o.pc \notin SyncPc
  BY <1>3, Given DEF Request, SyncPc
<1>5. op' = [op EXCEPT ![p] = o] /\ UNCHANGED <<groups, item, stripe, ops, catalogHistory>>
  BY DEF reprovision_price
<1>6. prices' \in Seq(Price) /\ tagged' \in Nat /\ Known' = Known /\ ops' \in Nat /\ mixed' \subseteq Items /\ unsynced' \subseteq Items
  BY <1>5 DEF stripe, Known, CatalogTypeOK, catalogHistory
<1>7. /\ op[p].old \in Known \cup {0} /\ op[p].live \subseteq Known /\ op[p].tag \in op[p].live \cup {0}
      /\ op[p].todo = {}
  BY <1>1, Given DEF RequestOK
<1>8. o.old \in Known \cup {0} /\ UNCHANGED <<groups, item>>
  BY <1>2, <1>3, <1>5
<1> HIDE DEF o, r
<1> QED BY <1>1, <1>3, <1>4, <1>5, <1>6, <1>7, <1>8, StepTypes

LEMMA ProvisionTypes ==
  ASSUME CatalogTypeOK, NEW p \in Proc, _provision(p)
  PROVE  CatalogTypeOK' /\ op[p].item \in Items
<1>1. op[p].pc = "price" /\ op[p].item \in Items /\ op[p].amt \in Money
  BY Given DEF _provision, At, RequestOK, PricePc, Request
<1> DEFINE o == [op[p] EXCEPT !.pc = "store", !.new = Len(prices) + 1]
<1>2. CreatePrice(op[p].amt) /\ op' = [op EXCEPT ![p] = o] /\ UNCHANGED <<groups, item, ops, catalogHistory>>
  BY DEF _provision
<1>3. /\ prices' \in Seq(Price) /\ tagged' \in Nat /\ Known \subseteq Known' /\ Len(prices) + 1 \in Known'
      /\ Len(prices) + 1 \in Nat
  <2>1. Len(prices) \in Nat
    BY DEF CatalogTypeOK
  <2>2. /\ prices' \in Seq(Price) /\ tagged' \in Nat
        /\ Known' = Known \cup {Len(prices) + 1}
    BY <1>1, <1>2, NewPrice
  <2> QED BY <2>1, <2>2
<1>4. o \in Request /\ o.pc = "store" /\ o.new = Len(prices) + 1 /\ o.item = op[p].item /\ o.old = op[p].old
  BY <1>3, Given DEF Request, PricePc
<1>5. o.live = op[p].live /\ o.tag = op[p].tag /\ o.todo = op[p].todo
  BY <1>3, Given DEF Request
<1>9. "store" \notin SyncPc
  BY DEF SyncPc
<1>6. ops' \in Nat /\ mixed' \subseteq Items /\ unsynced' \subseteq Items
  BY <1>2 DEF CatalogTypeOK, catalogHistory
<1>7. /\ op[p].old \in Known \cup {0} /\ op[p].live \subseteq Known /\ op[p].tag \in op[p].live \cup {0}
      /\ op[p].todo = {}
  BY <1>1, Given DEF RequestOK
<1> HIDE DEF o
<1>8. UNCHANGED <<groups, item>>
  BY <1>2
<1> QED BY <1>1, <1>2, <1>3, <1>4, <1>5, <1>6, <1>7, <1>8, <1>9, StepTypes

\* A row marked as failed, unless it is gone.
LEMMA FailedRow ==
  ASSUME CatalogTypeOK, NEW i \in Items, set_catalog_item_failed(i)
  PROVE  \/ UNCHANGED item /\ item[i].st = "none"
         \/ /\ item[i].st # "none"
            /\ \E r \in Row : /\ item' = [item EXCEPT ![i] = r]
                              /\ r = [item[i] EXCEPT !.st = "failed", !.active = FALSE]
                              /\ r.price = item[i].price /\ r.st = "failed"
<1> DEFINE r == [item[i] EXCEPT !.st = "failed", !.active = FALSE]
<1>1. r \in Row /\ r.price = item[i].price /\ r.st = "failed"
  BY RowTyped DEF Row, RowStates
<1> QED BY <1>1 DEF set_catalog_item_failed

LEMMA FailTypes ==
  ASSUME CatalogTypeOK, NEW p \in Proc, StripeFails(p)
  PROVE  CatalogTypeOK' /\ op'[p] = NoOp /\ op[p].pc = "price" /\ op[p].item \in Items
<1>1. op[p].pc = "price" /\ op[p].item \in Items /\ op[p].amt \in Money
  BY Given DEF StripeFails, At, RequestOK, PricePc, Request
<1>2. Done(p) /\ set_catalog_item_failed(op[p].item) /\ UNCHANGED <<groups, ops, catalogHistory>>
  BY DEF StripeFails
<1>3. prices' \in Seq(Price) /\ tagged' \in Nat /\ Known \subseteq Known'
  BY <1>1, NewPrice DEF StripeFails, stripe, Known, CatalogTypeOK
<1>4. item[op[p].item].price \in Known' \cup {0}
  BY <1>1, <1>3, RowTyped DEF RowOK
<1>5. \/ UNCHANGED item
      \/ \E i \in Items : \E r \in Row :
              item' = [item EXCEPT ![i] = r] /\ r.price \in Known' \cup {0} /\ r.st # "none"
  BY <1>1, <1>2, <1>4, FailedRow
<1>6. ops' \in Nat /\ mixed' \subseteq Items /\ unsynced' \subseteq Items
  BY <1>2 DEF CatalogTypeOK, catalogHistory
<1> QED BY <1>1, <1>2, <1>3, <1>5, <1>6, DoneTypes

LEMMA StoreTypes == ASSUME CatalogTypeOK, NEW p \in Proc, StoreRefs(p) PROVE CatalogTypeOK' /\ op[p].item \in Items
<1> DEFINE i == op[p].item
           o == [op[p] EXCEPT !.pc = "deactivate"]
<1>1. op[p].pc = "store" /\ i \in Items /\ op[p].new \in Known
  BY Given DEF StoreRefs, At, RequestOK, PricePc
<1>2. UNCHANGED <<groups, stripe, ops, catalogHistory>>
  BY DEF StoreRefs
<1>3. /\ prices' \in Seq(Price) /\ tagged' \in Nat /\ Known' = Known
      /\ ops' \in Nat /\ mixed' \subseteq Items /\ unsynced' \subseteq Items
  BY <1>2 DEF CatalogTypeOK, catalogHistory, stripe, Known
<1>4. /\ o \in Request /\ o.pc = "deactivate" /\ o.item = op[p].item /\ o.old = op[p].old
      /\ o.live = op[p].live /\ o.tag = op[p].tag /\ o.todo = op[p].todo
  BY Given DEF Request, PricePc
<1>5. "deactivate" \notin SyncPc
  BY DEF SyncPc
<1>6. /\ op[p].old \in Known \cup {0} /\ op[p].live \subseteq Known /\ op[p].tag \in op[p].live \cup {0}
      /\ op[p].todo = {}
  BY <1>1, Given DEF RequestOK
<1>7. CASE UNCHANGED item /\ op' = [op EXCEPT ![p] = o]
  <2> HIDE DEF o
  <2> QED BY <1>1, <1>2, <1>3, <1>4, <1>5, <1>6, <1>7, StepTypes
<1>8. CASE set_catalog_item_provisioned(i, op[p].new) /\ op' = [op EXCEPT ![p] = o]
  <2> DEFINE r == [item[i] EXCEPT !.price = op[p].new, !.st = "active", !.active = TRUE]
  <2>1. r \in Row /\ r.price = op[p].new /\ r.st = "active"
    <3>1. item[i] \in Row /\ op[p].new \in Nat
      BY <1>1, RowTyped DEF Known
    <3> HIDE DEF i
    <3> QED BY <3>1 DEF Row, RowStates
  <2>2. item' = [item EXCEPT ![i] = r]
    BY <1>8 DEF set_catalog_item_provisioned
  <2> HIDE DEF o, r
  <2> QED BY <1>1, <1>2, <1>3, <1>4, <1>5, <1>6, <1>8, <2>1, <2>2, StepTypes
<1>9. CASE set_catalog_item_failed(i) /\ Done(p)
  <2>1. item[i].price \in Known' \cup {0}
    BY <1>1, <1>3, RowTyped DEF RowOK
  <2>2. \/ UNCHANGED item
        \/ \E j \in Items : \E r \in Row :
              item' = [item EXCEPT ![j] = r] /\ r.price \in Known' \cup {0} /\ r.st # "none"
    BY <1>1, <1>9, <2>1, FailedRow
  <2> QED BY <1>1, <1>2, <1>3, <1>9, <2>2, DoneTypes
<1> QED BY <1>7, <1>8, <1>9 DEF StoreRefs

LEMMA DeactivateTypes ==
  ASSUME CatalogTypeOK, NEW p \in Proc, _deactivate_price(p)
  PROVE  /\ CatalogTypeOK' /\ op[p].pc = "deactivate" /\ op'[p] = NoOp
         /\ \/ UNCHANGED prices
            \/ op[p].old \in Known /\ prices' = [prices EXCEPT ![op[p].old].live = FALSE]
<1>1. op[p].pc = "deactivate" /\ Done(p) /\ UNCHANGED <<groups, item, tagged, ops, catalogHistory>>
  BY DEF _deactivate_price, At
<1>2. \/ UNCHANGED prices
      \/ op[p].old \in Known /\ prices' = [prices EXCEPT ![op[p].old].live = FALSE]
  BY Given DEF _deactivate_price, RequestOK
<1>3. prices' \in Seq(Price) /\ Known' = Known
  BY <1>2, SwitchedOff DEF Known, CatalogTypeOK
<1>4. tagged' \in Nat /\ ops' \in Nat /\ mixed' \subseteq Items /\ unsynced' \subseteq Items /\ UNCHANGED <<groups, item>>
  BY <1>1 DEF CatalogTypeOK, catalogHistory
<1> QED BY <1>1, <1>2, <1>3, <1>4, DoneTypes

LEMMA IndexTypes == ASSUME CatalogTypeOK, NEW p \in Proc, build_stripe_index(p) PROVE CatalogTypeOK'
<1> DEFINE live == {n \in Known : prices[n].live}
           o == [op[p] EXCEPT !.pc = "rows", !.live = live, !.tag = IF tagged \in live THEN tagged ELSE 0]
<1>1. op[p].pc = "index" /\ op' = [op EXCEPT ![p] = o] /\ UNCHANGED <<groups, item, stripe, ops, catalogHistory>>
  BY DEF build_stripe_index, At, Known
<1>2. live \subseteq Known /\ live \subseteq Nat
  BY DEF Known
<1>3. /\ o \in Request /\ o.pc = "rows" /\ o.live = live /\ o.tag \in live \cup {0}
      /\ o.grp = op[p].grp /\ o.old = op[p].old /\ o.todo = op[p].todo
  <2> DEFINE t == IF tagged \in live THEN tagged ELSE 0
  <2>1. op[p] \in Request /\ live \in SUBSET Nat /\ t \in Nat /\ t \in live \cup {0}
    BY <1>2, Given DEF CatalogTypeOK
  <2> HIDE DEF live, t
  <2>2. [op[p] EXCEPT !.pc = "rows", !.live = live, !.tag = t] \in Request
    BY <2>1 DEF Request, SyncPc
  <2> QED BY <2>1, <2>2 DEF Request, t
<1>4. /\ op[p].grp \in Groups /\ op[p].old \in Known \cup {0} /\ op[p].todo = {}
  <2>1. op[p].todo = {}
    BY <1>1, Given DEF RequestOK
  <2> QED BY <1>1, <2>1, Given DEF RequestOK, SyncPc
<1>5. "rows" \notin PricePc
  BY DEF PricePc
<1>6. /\ prices' \in Seq(Price) /\ tagged' \in Nat /\ Known' = Known
      /\ ops' \in Nat /\ mixed' \subseteq Items /\ unsynced' \subseteq Items /\ UNCHANGED <<groups, item>>
  BY <1>1 DEF CatalogTypeOK, catalogHistory, stripe, Known
<1> HIDE DEF o, live
<1> QED BY <1>1, <1>2, <1>3, <1>4, <1>5, <1>6, StepTypes

LEMMA ClassifyTypes == ASSUME CatalogTypeOK, NEW p \in Proc, classify_catalog(p) PROVE CatalogTypeOK'
<1> DEFINE repairs == {i \in Local(op[p].grp) : _match_local(p, i) \notin {0, item[i].price}}
           o == [op[p] EXCEPT !.pc = "adopt", !.todo = repairs]
<1>1. op[p].pc = "rows" /\ op' = [op EXCEPT ![p] = o] /\ UNCHANGED <<groups, item, stripe, ops, catalogHistory>>
  BY DEF classify_catalog, At
<1>2. repairs \subseteq Items /\ (repairs # {} => op[p].tag # 0)
  BY DEF Local, _match_local
<1>3. /\ o \in Request /\ o.pc = "adopt" /\ o.live = op[p].live /\ o.tag = op[p].tag
      /\ o.grp = op[p].grp /\ o.old = op[p].old /\ o.todo = repairs
  <2> HIDE DEF repairs
  <2> QED BY <1>2, Given DEF Request, SyncPc
<1>4. /\ op[p].grp \in Groups /\ op[p].old \in Known \cup {0} /\ op[p].live \subseteq Known
      /\ op[p].tag \in op[p].live \cup {0}
  BY <1>1, Given DEF RequestOK, SyncPc
<1>5. "adopt" \notin PricePc
  BY DEF PricePc
<1>6. /\ prices' \in Seq(Price) /\ tagged' \in Nat /\ Known' = Known
      /\ ops' \in Nat /\ mixed' \subseteq Items /\ unsynced' \subseteq Items /\ UNCHANGED <<groups, item>>
  BY <1>1 DEF CatalogTypeOK, catalogHistory, stripe, Known
<1> HIDE DEF o, repairs
<1> QED BY <1>1, <1>2, <1>3, <1>4, <1>5, <1>6, StepTypes

LEMMA AdoptTypes ==
  ASSUME CatalogTypeOK, NEW p \in Proc, NEW i \in Items, reconcile_catalog_for_group(p, i)
  PROVE  /\ CatalogTypeOK' /\ op[p].pc = "adopt" /\ op[p].tag \in op[p].live /\ op[p].tag # 0
         /\ op'[p] = [op[p] EXCEPT !.todo = @ \ {i}]
<1> DEFINE o == [op[p] EXCEPT !.todo = @ \ {i}]
<1>1. op[p].pc = "adopt" /\ i \in op[p].todo /\ op' = [op EXCEPT ![p] = o] /\ UNCHANGED <<groups, stripe, ops>>
  BY DEF reconcile_catalog_for_group, At
<1>2. /\ o \in Request /\ o.pc = "adopt" /\ o.live = op[p].live /\ o.tag = op[p].tag
      /\ o.grp = op[p].grp /\ o.old = op[p].old
  BY <1>1, Given DEF Request
<1>3. /\ op[p].grp \in Groups /\ op[p].old \in Known \cup {0} /\ op[p].live \subseteq Known
      /\ op[p].tag \in op[p].live /\ op[p].tag # 0
  BY <1>1, Given DEF RequestOK, SyncPc
<1>4. "adopt" \notin PricePc
  BY DEF PricePc
<1>5. /\ prices' \in Seq(Price) /\ tagged' \in Nat /\ Known' = Known /\ ops' \in Nat /\ UNCHANGED groups
  BY <1>1 DEF CatalogTypeOK, stripe, Known
<1>6. /\ \/ UNCHANGED item
         \/ \E j \in Items : \E r \in Row :
              item' = [item EXCEPT ![j] = r] /\ r.price \in Known' \cup {0} /\ r.st # "none"
      /\ mixed' \subseteq Items /\ unsynced' \subseteq Items
  <2>1. CASE UNCHANGED <<item, catalogHistory>>
    BY <2>1 DEF catalogHistory, CatalogTypeOK
  <2>2. CASE /\ adopt_catalog_item_refs(i, op[p].tag) /\ unsynced' = unsynced \cup {i}
             /\ mixed' = mixed \cup (IF Sharing(i, op[p].tag) = {} THEN {} ELSE {i} \cup Sharing(i, op[p].tag))
    <3> DEFINE r == [item[i] EXCEPT !.price = op[p].tag,
                                    !.st = IF item[i].st = "archived" THEN "archived" ELSE "active"]
    <3>1. r \in Row /\ r.price = op[p].tag /\ r.st # "none"
      BY RowTyped, Given DEF Row, RowStates, Request
    <3>2. item' = [item EXCEPT ![i] = r]
      BY <2>2 DEF adopt_catalog_item_refs
    <3>3. mixed' \subseteq Items /\ unsynced' \subseteq Items
      BY <2>2 DEF Sharing, CatalogTypeOK
    <3> HIDE DEF r
    <3> QED BY <1>3, <1>5, <3>1, <3>2, <3>3
  <2> QED BY <2>1, <2>2 DEF reconcile_catalog_for_group
<1> HIDE DEF o
<1>7. /\ (o.pc \in PricePc => o.item \in Items) /\ o.old \in Known \cup {0}
      /\ o.pc # "refs" /\ o.pc # "store" /\ o.pc # "attach" /\ o.live \subseteq Known /\ o.tag \in o.live \cup {0}
      /\ (o.todo # {} => o.pc = "adopt" /\ o.tag # 0) /\ o.grp \in Groups /\ Known \subseteq Known'
  BY <1>2, <1>3, <1>4, <1>5
<1>8. CatalogTypeOK' /\ op'[p] = o
  BY <1>1, <1>2, <1>3, <1>4, <1>5, <1>6, <1>7, StepTypes
<1> QED BY <1>1, <1>3, <1>8 DEF o

LEMMA ImportTypes ==
  ASSUME CatalogTypeOK, NEW p \in Proc, NEW i \in Items, NEW n \in Known, import_selected_candidates(p, i, n)
  PROVE  CatalogTypeOK' /\ op'[p] = NoOp /\ op[p].pc = "rows" /\ op[p].grp \in Groups
<1>1. op[p].pc = "rows" /\ op[p].grp \in Groups
  BY Given DEF import_selected_candidates, At, RequestOK, SyncPc
<1> DEFINE r == [grp |-> op[p].grp, st |-> "active", active |-> TRUE, amt |-> prices[n].amt, price |-> n]
<1>2. Done(p) /\ item' = [item EXCEPT ![i] = r] /\ UNCHANGED <<groups, stripe, ops, catalogHistory>>
  BY DEF import_selected_candidates
<1>3. r \in Row /\ r.price = n /\ r.st # "none"
  <2>1. prices[n] \in Price /\ n \in Nat
    BY DEF CatalogTypeOK, Known
  <2> QED BY <1>1, <2>1 DEF Row, RowStates, Price
<1>4. /\ prices' \in Seq(Price) /\ tagged' \in Nat /\ Known' = Known
      /\ ops' \in Nat /\ mixed' \subseteq Items /\ unsynced' \subseteq Items /\ UNCHANGED groups
  BY <1>2 DEF CatalogTypeOK, catalogHistory, stripe, Known
<1> HIDE DEF r
<1> QED BY <1>1, <1>2, <1>3, <1>4, DoneTypes

LEMMA LeaveTypes ==
  ASSUME CatalogTypeOK, NEW p \in Proc, ReconcileDone(p) \/ Dies(p)
  PROVE  CatalogTypeOK' /\ op'[p] = NoOp
<1>1. Done(p) /\ UNCHANGED <<groups, item, stripe, ops, mixed>>
  BY DEF ReconcileDone, Dies, catalogHistory
<1>2. unsynced' \subseteq Items
  BY Given DEF ReconcileDone, Dies, catalogHistory, CatalogTypeOK, RequestOK, PricePc
<1>3. /\ prices' \in Seq(Price) /\ tagged' \in Nat /\ Known' = Known
      /\ ops' \in Nat /\ mixed' \subseteq Items /\ UNCHANGED <<groups, item>>
  BY <1>1 DEF CatalogTypeOK, stripe, Known
<1> QED BY <1>1, <1>2, <1>3, DoneTypes

-----------------------------------------------------------------------------
(* Every step keeps the types. *)

LEMMA GroupSplit ==
  ASSUME GroupStep
  PROVE  \/ \E a \in Callers, g \in Groups : delete_group(a, g)
         \/ \E p \in Proc :
              \/ \E a \in Callers, g \in Groups, x \in Projects : attach_project(p, a, g, x)
              \/ attach_project_to_billing_group(p)
         \/ \E a \in Callers, g \in Groups :
              \/ create_group(a, g)
              \/ \E s \in {"active", "suspended", "archived"} : update_group(a, g, s)
              \/ \E c \in Caps, on \in BOOLEAN : update_capabilities(a, g, c, on)
              \/ \E h, c \in {"value", "omitted", "empty"} : _apply_credentials(a, g, h, c)
         \/ \E a \in Callers, g \in Groups :
              (\E x \in Projects : detach_project(a, g, x)) \/ SubscriptionChanges(g)
<1>1. Root \in Callers
  BY DEF Callers
<1> QED BY <1>1 DEF GroupStep

LEMMA StepsTyped ==
  ASSUME CatalogTypeOK,
         \/ GroupStep \/ CatalogStep \/ UNCHANGED catalogVars
         \/ \E a \in Callers, g \in Groups : CatalogRequest(a, g)
  PROVE  CatalogTypeOK'
<1>1. CASE GroupStep
  BY <1>1, GroupSplit, GroupTypes, DeletedTypes, AttachTypes, DetachedTypes
<1>2. ASSUME NEW a \in Callers, NEW g \in Groups, CatalogRequest(a, g) PROVE CatalogTypeOK'
  <2>1. PICK i \in Items :
          \/ \E p \in Proc, m \in Amounts : create_catalog_item(p, a, g, i, m) \/ update_catalog_item(p, a, g, i, m)
          \/ \E archived \in BOOLEAN : archive_catalog_item(a, g, i, archived)
          \/ delete_catalog_item(a, g, i)
          \/ \E p \in Proc : sync_catalog(p, a, g)
    BY <1>2 DEF CatalogRequest
  <2> QED BY <2>1, CreateTypes, UpdateTypes, ArchiveTypes, SyncTypes
<1>3. CASE CatalogStep
  <2>1. PICK p \in Proc :
          \/ reprovision_price(p) \/ _provision(p) \/ StripeFails(p) \/ StoreRefs(p) \/ _deactivate_price(p)
          \/ build_stripe_index(p) \/ classify_catalog(p) \/ ReconcileDone(p) \/ Dies(p)
          \/ \E i \in Items : \/ reconcile_catalog_for_group(p, i)
                               \/ \E n \in Known : import_selected_candidates(p, i, n)
    BY <1>3 DEF CatalogStep, Known
  <2>2. CASE reprovision_price(p) \/ _provision(p) \/ StripeFails(p) \/ StoreRefs(p) \/ _deactivate_price(p)
    BY <2>2, ReprovisionTypes, ProvisionTypes, FailTypes, StoreTypes, DeactivateTypes
  <2>3. CASE build_stripe_index(p) \/ classify_catalog(p) \/ ReconcileDone(p) \/ Dies(p)
    BY <2>3, IndexTypes, ClassifyTypes, LeaveTypes
  <2>4. ASSUME NEW i \in Items, reconcile_catalog_for_group(p, i) PROVE CatalogTypeOK'
    BY <2>4, AdoptTypes
  <2>5. ASSUME NEW i \in Items, NEW n \in Known, import_selected_candidates(p, i, n) PROVE CatalogTypeOK'
    BY <2>5, ImportTypes
  <2> QED BY <2>1, <2>2, <2>3, <2>4, <2>5
<1>4. CASE UNCHANGED catalogVars
  BY <1>4 DEF catalogVars, groups, stripe, catalogHistory, CatalogTypeOK, RequestOK, RowOK, Known
<1> QED BY <1>1, <1>2, <1>3, <1>4

LEMMA NextTypes ==
  ASSUME CatalogTypeOK, NEW g \in Groups, CatalogNext(g) \/ UNCHANGED catalogVars PROVE CatalogTypeOK'
BY StepsTyped DEF CatalogNext

LEMMA InitTypes == CatalogInit => CatalogTypeOK
<1> SUFFICES ASSUME CatalogInit PROVE CatalogTypeOK
  OBVIOUS
<1>1. NoGroup \in GroupRow /\ NoRow \in Row /\ NoRow.price = 0
  BY DEF NoGroup, GroupRow, NoRow, Row, RowStates, Money
<1>2. "idle" \notin PricePc /\ "idle" \notin SyncPc
  BY DEF PricePc, SyncPc
<1>3. \A p \in Proc : RequestOK(p)
  BY <1>2, NoOpIs DEF CatalogInit, RequestOK
<1>4. \A i \in Items : RowOK(i)
  BY <1>1 DEF CatalogInit, RowOK
<1>5. prices \in Seq(Price)
  BY DEF CatalogInit
<1> QED BY <1>1, <1>3, <1>4, <1>5, NoOpTyped DEF CatalogInit, CatalogTypeOK

-----------------------------------------------------------------------------
(* Every step keeps the invariant: the steps that write no row. *)

Kept(g) == OfGroup(g)' /\ RaceInv' /\ LiveInv' /\ AmountInv'

LEMMA QuietKeeps ==
  ASSUME NEW g \in Groups, CatalogInv(g), UNCHANGED <<item, stripe, op, catalogHistory>> PROVE Kept(g)
BY DEF Kept, CatalogInv, OfGroup, RaceInv, MixInv, IndexInv, StoreInv, StoreAt, LiveInv, LiveAt, AmountInv, AmountAt,
       Held, Pricing, Excepted, stripe, catalogHistory

LEMMA Others ==
  ASSUME CatalogTypeOK, NEW p \in Proc, NEW o, op' = [op EXCEPT ![p] = o]
  PROVE  op'[p] = o /\ \A q \in Proc \ {p} : op'[q] = op[q]
BY DEF CatalogTypeOK

\* A replica gives up its request, or one about a project begins: what it was
\* working on keeps its price, unless that is recorded.
LEMMA LeaveKeeps ==
  ASSUME NEW g \in Groups, CatalogInv(g), NEW p \in Proc, NEW o, op' = [op EXCEPT ![p] = o],
         o.pc \in {"idle", "attach"}, UNCHANGED <<item, prices, mixed>>, unsynced \subseteq unsynced',
         op[p].pc \in {"refs", "price", "store"} => op[p].item \in unsynced'
  PROVE  Kept(g)
<1>1. op'[p] = o /\ \A q \in Proc \ {p} : op'[q] = op[q]
  BY Others DEF CatalogInv
<1>2. \A q \in Proc : op'[q].pc \in PricePc \cup SyncPc => op'[q] = op[q] /\ q # p
  BY <1>1 DEF PricePc, SyncPc
<1>3. OfGroup(g)' /\ MixInv' /\ IndexInv'
  BY <1>2 DEF CatalogInv, OfGroup, RaceInv, MixInv, IndexInv, Pricing
<1>4. StoreInv'
  BY <1>2 DEF CatalogInv, RaceInv, StoreInv, StoreAt, Pricing, PricePc
<1>5. LiveInv'
  BY <1>2 DEF CatalogInv, LiveInv, LiveAt, Held, PricePc
<1>6. AmountInv'
  <2> SUFFICES ASSUME NEW i \in Items, item[i].st # "none", ~Excepted(i)' PROVE AmountAt(i)'
    BY DEF AmountInv
  <2>1. AmountAt(i) /\ i \notin unsynced'
    BY DEF CatalogInv, AmountInv, Excepted
  <2>2. ASSUME Held(i), \A q \in Proc : Pricing(q)' => op'[q].item # i PROVE prices[item[i].price].amt = item[i].amt
    <3>1. CASE Pricing(p) /\ op[p].item = i
      BY <2>1, <2>2, <3>1 DEF AmountAt, Pricing, PricePc
    <3>2. CASE ~(Pricing(p) /\ op[p].item = i)
      BY <1>1, <2>1, <2>2, <3>2 DEF AmountAt, Pricing
    <3> QED BY <3>1, <3>2
  <2> QED BY <1>2, <2>1, <2>2 DEF AmountAt, Held, PricePc
<1> QED BY <1>3, <1>4, <1>5, <1>6 DEF Kept, RaceInv

LEMMA AttachKeeps ==
  ASSUME NEW g \in Groups, CatalogInv(g), NEW p \in Proc,
         \/ \E a \in Callers, h \in Groups, x \in Projects : attach_project(p, a, h, x)
         \/ attach_project_to_billing_group(p)
         \/ ReconcileDone(p) \/ Dies(p)
  PROVE  Kept(g)
<1>1. CASE \E a \in Callers, h \in Groups, x \in Projects : attach_project(p, a, h, x)
  <2>1. PICK a \in Callers, h \in Groups, x \in Projects : attach_project(p, a, h, x)
    BY <1>1
  <2> DEFINE o == [NoOp EXCEPT !.pc = "attach", !.grp = h, !.proj = x, !.saw = att[x]]
  <2>2. /\ op' = [op EXCEPT ![p] = o] /\ UNCHANGED <<item, prices, mixed>> /\ unsynced' = unsynced
        /\ op[p].pc = "idle"
    BY <2>1 DEF attach_project, Idle, stripe, catalogHistory
  <2>3. o.pc = "attach"
    BY DEF NoOp
  <2> HIDE DEF o
  <2> QED BY <2>2, <2>3, LeaveKeeps
<1>2. CASE attach_project_to_billing_group(p) \/ ReconcileDone(p) \/ Dies(p)
  <2>1. op' = [op EXCEPT ![p] = NoOp] /\ UNCHANGED <<item, prices, mixed>> /\ unsynced \subseteq unsynced'
    BY <1>2 DEF attach_project_to_billing_group, ReconcileDone, Dies, Done, stripe, catalogHistory
  <2>2. op[p].pc \in {"refs", "price", "store"} => op[p].item \in unsynced'
    BY <1>2 DEF attach_project_to_billing_group, ReconcileDone, Dies, At
  <2> QED BY <2>1, <2>2, NoOpIs, LeaveKeeps
<1> QED BY <1>1, <1>2

LEMMA DeactivateKeeps == ASSUME NEW g \in Groups, CatalogInv(g), NEW p \in Proc, _deactivate_price(p) PROVE Kept(g)
<1>1. CatalogTypeOK /\ op[p].pc = "deactivate"
  BY DEF CatalogInv, _deactivate_price, At
<1>2. /\ op' = [op EXCEPT ![p] = NoOp] /\ UNCHANGED <<item, mixed, unsynced>>
      /\ \/ UNCHANGED prices
         \/ op[p].old \in Known /\ prices' = [prices EXCEPT ![op[p].old].live = FALSE]
  BY <1>1, DeactivateTypes DEF _deactivate_price, Done, catalogHistory
<1>3. CASE UNCHANGED prices
  BY <1>1, <1>2, <1>3, NoOpIs, LeaveKeeps
<1>4. CASE op[p].old \in Known /\ prices' = [prices EXCEPT ![op[p].old].live = FALSE]
  <2> DEFINE n == op[p].old
  <2>1. \A k \in Known : prices'[k].amt = prices[k].amt /\ (k # n => prices'[k] = prices[k])
    BY <1>1, <1>4, SwitchedOff
  <2>2. op'[p] = NoOp /\ \A q \in Proc \ {p} : op'[q] = op[q]
    BY <1>1, <1>2, Others
  <2>3. \A q \in Proc : op'[q].pc \in PricePc \cup SyncPc => op'[q] = op[q] /\ q # p
    BY <2>2, NoOpIs DEF PricePc, SyncPc
  <2>4. OfGroup(g)' /\ MixInv'
    BY <1>2, <2>3 DEF CatalogInv, OfGroup, RaceInv, MixInv, Pricing
  <2>5. IndexInv'
    BY <1>1, <1>2, <2>3 DEF CatalogInv, RaceInv, MixInv, IndexInv, Pricing, PricePc
  <2>6. StoreInv'
    <3> SUFFICES ASSUME mixed # Items, NEW q \in Proc, op'[q].pc = "store" PROVE StoreAt(q)'
      BY <1>2 DEF StoreInv
    <3>1. op'[q] = op[q] /\ op[q].pc = "store" /\ StoreAt(q) /\ op[q].new \in Known
      BY <1>1, <1>2, <2>3, Given DEF CatalogInv, RaceInv, StoreInv, PricePc, RequestOK
    <3>2. op[q].new # n
      BY <1>1, <3>1 DEF StoreAt, Pricing, PricePc
    <3> QED BY <1>2, <2>1, <2>3, <3>1, <3>2 DEF StoreAt, Pricing, PricePc
  <2>7. LiveInv'
    <3> SUFFICES ASSUME NEW i \in Items \ mixed, Held(i) PROVE LiveAt(i)'
      BY <1>2 DEF LiveInv, Held
    <3>1. LiveAt(i) /\ item[i].price \in Known
      BY <1>1, RowTyped DEF CatalogInv, LiveInv, RowOK, Held
    <3>2. item[i].price # n
      BY <1>1, <3>1 DEF LiveAt
    <3> QED BY <1>2, <2>1, <2>3, <3>1, <3>2 DEF LiveAt, PricePc
  <2>8. AmountInv'
    <3> SUFFICES ASSUME NEW i \in Items, item[i].st # "none", ~Excepted(i) PROVE AmountAt(i)'
      BY <1>2 DEF AmountInv, Excepted
    <3>1. AmountAt(i) /\ (Held(i) => item[i].price \in Known)
      BY <1>1, RowTyped DEF CatalogInv, AmountInv, RowOK, Held
    <3>2. \A q \in Proc : op[q].pc = "store" => op[q].new \in Known
      BY <1>1, Given DEF RequestOK
    <3>3. ASSUME Held(i), \A q \in Proc : Pricing(q)' => op'[q].item # i PROVE prices[item[i].price].amt = item[i].amt
      <4>1. CASE op[p].item = i
        BY <1>1, <3>1, <3>3, <4>1 DEF AmountAt
      <4>2. CASE op[p].item # i
        BY <2>2, <3>1, <3>3, <4>2 DEF AmountAt, Pricing
      <4> QED BY <4>1, <4>2
    <3> QED BY <1>2, <2>1, <2>3, <3>1, <3>2, <3>3 DEF AmountAt, Held, PricePc
  <2> QED BY <2>4, <2>5, <2>6, <2>7, <2>8 DEF Kept, RaceInv
<1> QED BY <1>2, <1>3, <1>4

\* A reconciliation begins or goes on.
LEMMA LookKeeps ==
  ASSUME NEW g \in Groups, CatalogInv(g), NEW p \in Proc, NEW o, op' = [op EXCEPT ![p] = o],
         o.pc \in SyncPc, o.grp = g, mixed' # Items => \A n \in o.live : prices[n].live,
         ~Pricing(p), mixed \subseteq mixed', mixed' \subseteq Items,
         (\E q \in Proc : Pricing(q)) => mixed' = Items, UNCHANGED <<item, prices, unsynced>>
  PROVE  Kept(g)
<1>1. op'[p] = o /\ \A q \in Proc \ {p} : op'[q] = op[q]
  BY Others DEF CatalogInv
<1>2. \A q \in Proc : op'[q].pc \in PricePc => op'[q] = op[q] /\ q # p
  BY <1>1 DEF PricePc, SyncPc
<1>3. mixed' # Items => mixed # Items
  OBVIOUS
<1>4. OfGroup(g)' /\ IndexInv'
  BY <1>1, <1>3 DEF CatalogInv, OfGroup, RaceInv, IndexInv
<1>5. MixInv'
  BY <1>2 DEF CatalogInv, RaceInv, MixInv, Pricing
<1>6. StoreInv'
  BY <1>2, <1>3 DEF CatalogInv, RaceInv, StoreInv, StoreAt, Pricing, PricePc
<1>7. LiveInv'
  BY <1>2 DEF CatalogInv, LiveInv, LiveAt, Held, PricePc
<1>8. AmountInv'
  <2> SUFFICES ASSUME NEW i \in Items, item[i].st # "none", ~Excepted(i)' PROVE AmountAt(i)'
    BY DEF AmountInv
  <2>1. AmountAt(i)
    BY DEF CatalogInv, AmountInv, Excepted
  <2>2. (\A q \in Proc : Pricing(q)' => op'[q].item # i) => (\A q \in Proc : Pricing(q) => op[q].item # i)
    BY <1>1 DEF Pricing
  <2> QED BY <1>2, <2>1, <2>2 DEF AmountAt, Held, PricePc
<1> QED BY <1>4, <1>5, <1>6, <1>7, <1>8 DEF Kept, RaceInv

LEMMA SyncKeeps == ASSUME NEW g \in Groups, CatalogInv(g), NEW p \in Proc, NEW a \in Callers, sync_catalog(p, a, g) PROVE Kept(g)
<1> DEFINE o == [NoOp EXCEPT !.pc = "index", !.grp = g]
<1>1. o.pc \in SyncPc /\ o.grp = g /\ o.live = {}
  BY DEF NoOp, SyncPc
<1>2. /\ op' = [op EXCEPT ![p] = o] /\ UNCHANGED <<item, prices, unsynced>> /\ op[p].pc = "idle" /\ BeginSync
  BY DEF sync_catalog, Idle, stripe
<1>3. ~Pricing(p)
  BY <1>2 DEF Pricing, PricePc
<1>4. mixed \subseteq mixed' /\ mixed' \subseteq Items
  BY <1>2 DEF BeginSync, CatalogInv, CatalogTypeOK
<1>5. ASSUME NEW q \in Proc, Pricing(q) PROVE mixed' = Items
  <2>1. op[q].item \in Items /\ q \in OnItem(op[q].item)
    BY <1>5, Given DEF CatalogInv, RequestOK, Pricing, OnItem
  <2> QED BY <1>2, <1>4, <2>1 DEF BeginSync
<1> HIDE DEF o
<1> QED BY <1>1, <1>2, <1>3, <1>4, <1>5, LookKeeps

LEMMA ClassifyKeeps ==
  ASSUME NEW g \in Groups, CatalogInv(g), NEW p \in Proc, build_stripe_index(p) \/ classify_catalog(p) PROVE Kept(g)
<1>1. op[p].pc \in {"index", "rows"} /\ UNCHANGED <<item, prices, mixed, unsynced>>
  BY DEF build_stripe_index, classify_catalog, At, stripe, catalogHistory
<1>2. op[p].pc \in SyncPc /\ ~Pricing(p)
  BY <1>1 DEF SyncPc, Pricing, PricePc
<1>3. /\ mixed \subseteq Items /\ op[p].grp = g /\ op[p] \in Request
      /\ (\E q \in Proc : Pricing(q)) => mixed = Items
      /\ mixed # Items => \A n \in op[p].live : prices[n].live
  BY <1>2, Given DEF CatalogInv, CatalogTypeOK, OfGroup, RaceInv, MixInv, IndexInv
<1>4. PICK o : /\ op' = [op EXCEPT ![p] = o] /\ o.pc \in SyncPc /\ o.grp = g
               /\ o.live = op[p].live \/ o.live = {n \in 1 .. Len(prices) : prices[n].live}
  <2>1. CASE build_stripe_index(p)
    <3> DEFINE live == {n \in 1 .. Len(prices) : prices[n].live}
               o == [op[p] EXCEPT !.pc = "rows", !.live = live, !.tag = IF tagged \in live THEN tagged ELSE 0]
    <3>1. o.pc \in SyncPc /\ o.grp = g /\ o.live = live
      BY <1>3 DEF Request, SyncPc
    <3> QED BY <2>1, <3>1 DEF build_stripe_index
  <2>2. CASE classify_catalog(p)
    <3> DEFINE repairs == {i \in Local(op[p].grp) : _match_local(p, i) \notin {0, item[i].price}}
               o == [op[p] EXCEPT !.pc = "adopt", !.todo = repairs]
    <3>1. o.pc \in SyncPc /\ o.grp = g /\ o.live = op[p].live
      BY <1>3 DEF Request, SyncPc
    <3> QED BY <2>2, <3>1 DEF classify_catalog
  <2> QED BY <2>1, <2>2
<1>5. mixed # Items => \A n \in o.live : prices[n].live
  BY <1>3, <1>4
<1> QED BY <1>1, <1>2, <1>3, <1>4, <1>5, LookKeeps

LEMMA ReprovisionKeeps == ASSUME NEW g \in Groups, CatalogInv(g), NEW p \in Proc, reprovision_price(p) PROVE Kept(g)
<1> DEFINE r == item[op[p].item]
           o == [op[p] EXCEPT !.pc = "price", !.amt = r.amt, !.old = r.price]
<1>1. op[p].pc = "refs" /\ op' = [op EXCEPT ![p] = o] /\ UNCHANGED <<item, prices, mixed, unsynced>>
  BY DEF reprovision_price, At, stripe, catalogHistory
<1>2. CatalogTypeOK /\ op[p] \in Request /\ op[p].item \in Items
  BY <1>1, Given DEF CatalogInv, RequestOK, PricePc
<1>3. o.pc = "price" /\ o.item = op[p].item /\ o.amt = r.amt /\ o.old = r.price
  BY <1>2 DEF Request
<1> HIDE DEF o
<1>4. op'[p] = o /\ \A q \in Proc \ {p} : op'[q] = op[q]
  BY <1>1, <1>2, Others
<1>5. \A q \in Proc : Pricing(q)' <=> Pricing(q)
  BY <1>1, <1>3, <1>4 DEF Pricing, PricePc
<1>6. \A q \in Proc : op'[q].item = op[q].item
  BY <1>3, <1>4
<1>7. \A q \in Proc : op'[q].pc \in SyncPc \cup {"store", "deactivate"} => op'[q] = op[q] /\ q # p
  BY <1>3, <1>4 DEF SyncPc
<1>8. OfGroup(g)' /\ MixInv' /\ IndexInv'
  BY <1>1, <1>5, <1>6, <1>7 DEF CatalogInv, OfGroup, RaceInv, MixInv, IndexInv
<1>9. StoreInv'
  <2> SUFFICES ASSUME mixed # Items, NEW q \in Proc, op'[q].pc = "store" PROVE StoreAt(q)'
    BY <1>1 DEF StoreInv
  <2>1. op'[q] = op[q] /\ op[q].pc = "store" /\ StoreAt(q)
    BY <1>7 DEF CatalogInv, RaceInv, StoreInv
  <2>2. ASSUME NEW s \in Proc, Pricing(s)' PROVE op'[s].old # op[q].new
    BY <1>2, <1>3, <1>4, <1>5, <2>1, <2>2 DEF StoreAt
  <2> QED BY <1>1, <1>7, <2>1, <2>2 DEF StoreAt
<1>10. LiveInv'
  <2> SUFFICES ASSUME NEW i \in Items \ mixed, Held(i) PROVE LiveAt(i)'
    BY <1>1 DEF LiveInv, Held
  <2>1. LiveAt(i)
    BY DEF CatalogInv, LiveInv
  <2>2. ASSUME NEW q \in Proc, op'[q].pc \in {"price", "store"}, op'[q].old = item[i].price, op'[q].item # i
        PROVE  item[i].active /\ item[op'[q].item].st # "none"
    <3>1. CASE q = p
      <4>1. item[op[p].item].price = item[i].price /\ op[p].item # i
        BY <1>3, <1>4, <2>2, <3>1
      <4>2. item[op[p].item].st # "none"
        BY <1>2, <4>1, RowTyped DEF RowOK, NoRow, Held
      <4> QED BY <1>2, <1>3, <1>4, <2>1, <3>1, <4>1, <4>2 DEF LiveAt, CatalogTypeOK, Row
    <3>2. CASE q # p
      BY <1>4, <2>1, <2>2, <3>2 DEF LiveAt
    <3> QED BY <3>1, <3>2
  <2> QED BY <1>1, <1>7, <2>1, <2>2 DEF LiveAt
<1>11. AmountInv'
  BY <1>1, <1>3, <1>4, <1>5, <1>6, <1>7 DEF CatalogInv, AmountInv, AmountAt, Held, Excepted
<1> QED BY <1>8, <1>9, <1>10, <1>11 DEF Kept, RaceInv

LEMMA ProvisionKeeps == ASSUME NEW g \in Groups, CatalogInv(g), NEW p \in Proc, _provision(p) PROVE Kept(g)
<1> DEFINE n == Len(prices) + 1
           o == [op[p] EXCEPT !.pc = "store", !.new = n]
<1>1. op[p].pc = "price" /\ CreatePrice(op[p].amt) /\ op' = [op EXCEPT ![p] = o] /\ UNCHANGED <<item, mixed, unsynced>>
  BY DEF _provision, At, catalogHistory
<1>2. CatalogTypeOK /\ op[p] \in Request /\ op[p].item \in Items /\ op[p].amt \in Money
  BY <1>1, Given DEF CatalogInv, RequestOK, PricePc, Request
<1>3. o.pc = "store" /\ o.item = op[p].item /\ o.old = op[p].old /\ o.new = n
  BY <1>2 DEF Request
<1>4. /\ n \notin Known /\ n # 0 /\ prices'[n] = [amt |-> op[p].amt, live |-> TRUE]
      /\ \A k \in Known : prices'[k] = prices[k]
  BY <1>1, <1>2, NewPrice
<1> HIDE DEF o, n
<1>5. op'[p] = o /\ \A q \in Proc \ {p} : op'[q] = op[q]
  BY <1>1, <1>2, Others
<1>6. \A q \in Proc : (Pricing(q)' <=> Pricing(q)) /\ op'[q].item = op[q].item /\ op'[q].old = op[q].old
  BY <1>1, <1>3, <1>5 DEF Pricing, PricePc
<1>7. \A q \in Proc : op'[q].pc \in SyncPc \cup {"price", "deactivate"} => op'[q] = op[q] /\ q # p
  BY <1>3, <1>5 DEF SyncPc
<1>8. OfGroup(g)' /\ MixInv'
  BY <1>1, <1>6, <1>7 DEF CatalogInv, OfGroup, RaceInv, MixInv
<1>9. IndexInv'
  BY <1>1, <1>2, <1>4, <1>7, Given DEF CatalogInv, RaceInv, IndexInv, RequestOK
<1>10. StoreInv'
  <2> SUFFICES ASSUME mixed # Items, NEW q \in Proc, op'[q].pc = "store" PROVE StoreAt(q)'
    BY <1>1 DEF StoreInv
  <2>1. /\ \A i \in Items : item[i].price # n
        /\ \A s \in Proc : op[s].old # n /\ (op[s].pc = "store" => op[s].new \in Known)
    BY <1>2, <1>4, Given, RowTyped DEF RequestOK, RowOK
  <2>2. CASE q = p
    BY <1>1, <1>3, <1>4, <1>5, <1>6, <2>1, <2>2 DEF StoreAt
  <2>3. CASE q # p
    <3>1. op'[q] = op[q] /\ StoreAt(q) /\ op[q].new \in Known
      BY <1>5, <2>1, <2>3 DEF CatalogInv, RaceInv, StoreInv
    <3>2. \A s \in Proc : s # q /\ op'[s].pc = "store" => op'[s].new # op[q].new
      BY <1>3, <1>4, <1>5, <3>1 DEF StoreAt
    <3> QED BY <1>1, <1>4, <1>6, <3>1, <3>2 DEF StoreAt
  <2> QED BY <2>2, <2>3
<1>11. LiveInv'
  <2> SUFFICES ASSUME NEW i \in Items \ mixed, Held(i) PROVE LiveAt(i)'
    BY <1>1 DEF LiveInv, Held
  <2>1. LiveAt(i) /\ item[i].price \in Known
    BY <1>2, RowTyped DEF CatalogInv, LiveInv, RowOK, Held
  <2>2. \A q \in Proc : op'[q].pc \in {"price", "store"} => op[q].pc \in {"price", "store"}
    BY <1>1, <1>5
  <2> QED BY <1>1, <1>4, <1>6, <1>7, <2>1, <2>2 DEF LiveAt
<1>12. AmountInv'
  <2> SUFFICES ASSUME NEW i \in Items, item[i].st # "none", ~Excepted(i) PROVE AmountAt(i)'
    BY <1>1 DEF AmountInv, Excepted
  <2>1. AmountAt(i) /\ (Held(i) => item[i].price \in Known)
    BY <1>2, RowTyped DEF CatalogInv, AmountInv, RowOK, Held
  <2>2. ASSUME NEW q \in Proc, op'[q].item = i, op'[q].pc = "store" PROVE prices'[op'[q].new].amt = item[i].amt
    <3>1. CASE q = p
      BY <1>1, <1>3, <1>4, <1>5, <2>1, <2>2, <3>1 DEF AmountAt
    <3>2. CASE q # p
      BY <1>2, <1>4, <1>5, <2>1, <2>2, <3>2, Given DEF AmountAt, RequestOK
    <3> QED BY <3>1, <3>2
  <2> QED BY <1>1, <1>4, <1>6, <1>7, <2>1, <2>2 DEF AmountAt, Held
<1> QED BY <1>8, <1>9, <1>10, <1>11, <1>12 DEF Kept, RaceInv

-----------------------------------------------------------------------------
(* The steps that write rows. *)

\* Rows leave the offer, or come back as they were; the replica that worked on
\* such a row is done.
LEMMA OfferKeeps ==
  ASSUME NEW g \in Groups, CatalogInv(g), UNCHANGED <<mixed, unsynced>>,
         \A k \in Known : prices'[k] = prices[k],
         \A j \in Items : /\ item'[j].price = item[j].price /\ item'[j].grp = item[j].grp
                          /\ item'[j].amt = item[j].amt /\ (item'[j].st = "none" <=> item[j].st = "none")
                          /\ Held(j)' => Held(j) /\ (item[j].active => item'[j].active),
         \/ op' = op
         \/ \E p \in Proc, i \in Items : op[p].item = i /\ op' = [op EXCEPT ![p] = NoOp] /\ ~Held(i)'
  PROVE  Kept(g)
<1>1. CatalogTypeOK
  BY DEF CatalogInv
<1>2. \A q \in Proc : op'[q].pc \in PricePc \cup SyncPc => op'[q] = op[q]
  <2>1. CASE op' = op
    BY <2>1
  <2>2. ASSUME NEW p \in Proc, op' = [op EXCEPT ![p] = NoOp]
        PROVE  \A q \in Proc : op'[q].pc \in PricePc \cup SyncPc => op'[q] = op[q]
    BY <1>1, <2>2, Others, NoOpIs DEF PricePc, SyncPc
  <2> QED BY <2>1, <2>2
<1>3. \A q \in Proc : op[q].live \subseteq Known /\ (op[q].pc = "store" => op[q].new \in Known)
  BY <1>1, Given DEF RequestOK
<1>4. \A j \in Items : Held(j)' => item[j].price \in Known
  BY <1>1, RowTyped DEF RowOK, Held
<1>5. OfGroup(g)' /\ MixInv' /\ IndexInv'
  BY <1>2, <1>3 DEF CatalogInv, OfGroup, RaceInv, MixInv, IndexInv, Pricing
<1>6. StoreInv'
  BY <1>2, <1>3 DEF CatalogInv, RaceInv, StoreInv, StoreAt, Pricing, PricePc
<1>7. LiveInv'
  <2> SUFFICES ASSUME NEW i \in Items \ mixed, Held(i)' PROVE LiveAt(i)'
    BY DEF LiveInv
  <2>1. LiveAt(i) /\ Held(i) /\ item[i].price \in Known
    BY <1>4 DEF CatalogInv, LiveInv
  <2>2. \A q \in Proc : op'[q].pc \in PricePc => (op'[q].item \in Items /\ op'[q] = op[q])
    BY <1>1, <1>2, Given DEF RequestOK
  <2> QED BY <2>1, <2>2 DEF LiveAt, PricePc
<1>8. AmountInv'
  <2> SUFFICES ASSUME NEW i \in Items, item[i].st # "none", ~Excepted(i) PROVE AmountAt(i)'
    BY DEF AmountInv, Excepted
  <2>1. AmountAt(i) /\ (Held(i)' => item[i].price \in Known)
    BY <1>4 DEF CatalogInv, AmountInv
  <2>2. ASSUME Held(i)', \A q \in Proc : Pricing(q)' => op'[q].item # i
        PROVE  \A q \in Proc : Pricing(q) => op[q].item # i
    <3>1. CASE op' = op
      BY <2>2, <3>1 DEF Pricing
    <3>2. ASSUME NEW p \in Proc, NEW k \in Items, op[p].item = k, op' = [op EXCEPT ![p] = NoOp], ~Held(k)'
          PROVE  \A q \in Proc : Pricing(q) => op[q].item # i
      BY <1>1, <2>2, <3>2, Others DEF Pricing
    <3> QED BY <3>1, <3>2
  <2> QED BY <1>2, <1>3, <2>1, <2>2 DEF AmountAt, PricePc
<1> QED BY <1>5, <1>6, <1>7, <1>8 DEF Kept, RaceInv

LEMMA ArchiveKeeps ==
  ASSUME NEW g \in Groups, CatalogInv(g), NEW a \in Callers, NEW i \in Items,
         \/ \E archived \in BOOLEAN : archive_catalog_item(a, g, i, archived)
         \/ delete_catalog_item(a, g, i)
  PROVE  Kept(g)
<1>1. /\ CatalogTypeOK /\ UNCHANGED <<op, stripe, mixed, unsynced>> /\ item[i].st # "none"
      /\ archive_row(i) \/ set_catalog_item_active(i)
  BY ArchiveTypes DEF CatalogInv
<1>2. \A j \in Items : /\ item'[j].price = item[j].price /\ item'[j].grp = item[j].grp
                       /\ item'[j].amt = item[j].amt /\ (item'[j].st = "none" <=> item[j].st = "none")
                       /\ Held(j)' => Held(j) /\ (item[j].active => item'[j].active)
  BY <1>1 DEF archive_row, set_catalog_item_active, CatalogTypeOK, Row, Held
<1> QED BY <1>1, <1>2, OfferKeeps DEF stripe

\* The row of the request is marked as failed.
LEMMA FailedKeeps ==
  ASSUME NEW g \in Groups, CatalogInv(g), NEW p \in Proc, Pricing(p), Done(p),
         set_catalog_item_failed(op[p].item), UNCHANGED <<mixed, unsynced>>,
         \A k \in Known : prices'[k] = prices[k]
  PROVE  Kept(g)
<1>1. CatalogTypeOK /\ op[p].item \in Items /\ op' = [op EXCEPT ![p] = NoOp]
  BY Given DEF CatalogInv, RequestOK, Pricing, Done
<1>2. \A j \in Items : /\ item'[j].price = item[j].price /\ item'[j].grp = item[j].grp
                       /\ item'[j].amt = item[j].amt /\ (item'[j].st = "none" <=> item[j].st = "none")
                       /\ Held(j)' => item'[j] = item[j] /\ j # op[p].item
  <2>1. CASE UNCHANGED item /\ item[op[p].item].st = "none"
    BY <2>1 DEF Held
  <2>2. ASSUME NEW r \in Row, item' = [item EXCEPT ![op[p].item] = r], item[op[p].item].st # "none",
               r = [item[op[p].item] EXCEPT !.st = "failed", !.active = FALSE]
        PROVE  \A j \in Items : /\ item'[j].price = item[j].price /\ item'[j].grp = item[j].grp
                                /\ item'[j].amt = item[j].amt /\ (item'[j].st = "none" <=> item[j].st = "none")
                                /\ Held(j)' => item'[j] = item[j] /\ j # op[p].item
    <3>1. item[op[p].item] \in Row
      BY <1>1, RowTyped
    <3>2. r.price = item[op[p].item].price /\ r.grp = item[op[p].item].grp /\ r.amt = item[op[p].item].amt /\ r.st = "failed"
      BY <2>2, <3>1 DEF Row
    <3>3. item'[op[p].item] = r /\ \A j \in Items \ {op[p].item} : item'[j] = item[j]
      BY <1>1, <2>2 DEF CatalogTypeOK
    <3> QED BY <2>2, <3>2, <3>3 DEF Held
  <2> QED BY <1>1, <2>1, <2>2, FailedRow
<1>3. \A j \in Items : /\ Held(j)' => Held(j) /\ (item[j].active => item'[j].active)
                       /\ op[p].item = j => ~Held(j)'
  BY <1>2 DEF Held
<1> QED BY <1>1, <1>2, <1>3, OfferKeeps

LEMMA FailKeeps == ASSUME NEW g \in Groups, CatalogInv(g), NEW p \in Proc, StripeFails(p) PROVE Kept(g)
<1>1. Pricing(p) /\ op[p].amt \in Money /\ CatalogTypeOK
  BY Given DEF StripeFails, At, Pricing, PricePc, CatalogInv, Request
<1>2. \A k \in Known : prices'[k] = prices[k]
  BY <1>1, NewPrice DEF StripeFails, stripe
<1>3. Done(p) /\ set_catalog_item_failed(op[p].item) /\ UNCHANGED <<mixed, unsynced>>
  BY DEF StripeFails, catalogHistory
<1> QED BY <1>1, <1>2, <1>3, FailedKeeps

LEMMA DeleteKeeps == ASSUME NEW g \in Groups, CatalogInv(g), NEW a \in Callers, NEW h \in Groups, delete_group(a, h) PROVE Kept(g)
<1>1. CatalogTypeOK /\ UNCHANGED <<op, prices, mixed, unsynced>>
  BY DEF delete_group, CatalogInv, stripe, catalogHistory
<1>2. NoRow.price = 0 /\ NoRow.st = "none" /\ NoRow.grp = None /\ None \notin Groups
  BY CatalogAssumption DEF NoRow
<1>3. UNCHANGED item \/ \A i \in Items : item'[i] = NoRow
  <2>1. \A i \in Items : item'[i] = IF item[i].grp = h THEN NoRow ELSE item[i]
    BY DEF delete_group
  <2>2. \A i \in Items : item[i].grp = g \/ item[i] = NoRow
    BY <1>1, RowTyped DEF CatalogInv, OfGroup, RowOK
  <2>3. CASE h = g
    BY <1>2, <2>1, <2>2, <2>3
  <2>4. CASE h # g
    <3>1. \A i \in Items : item'[i] = item[i]
      BY <1>2, <2>1, <2>2, <2>4
    <3>2. item' \in [Items -> Row] /\ item \in [Items -> Row]
      BY <1>1, DeletedTypes DEF CatalogTypeOK
    <3> QED BY <3>1, <3>2
  <2> QED BY <2>3, <2>4
<1>4. CASE UNCHANGED item
  BY <1>1, <1>4 DEF Kept, CatalogInv, OfGroup, RaceInv, MixInv, IndexInv, StoreInv, StoreAt, LiveInv, LiveAt, AmountInv,
                    AmountAt, Held, Pricing, Excepted
<1>5. CASE \A i \in Items : item'[i] = NoRow
  <2>1. OfGroup(g)' /\ MixInv' /\ IndexInv'
    BY <1>1, <1>2, <1>5 DEF CatalogInv, OfGroup, RaceInv, MixInv, IndexInv, Pricing
  <2>2. StoreInv'
    <3>1. \A p \in Proc : op[p].pc = "store" => op[p].new # 0
      BY <1>1, Given DEF RequestOK, Known
    <3> QED BY <1>1, <1>2, <1>5, <3>1 DEF CatalogInv, RaceInv, StoreInv, StoreAt, Pricing
  <2> QED BY <1>2, <1>5, <2>1, <2>2 DEF Kept, RaceInv, LiveInv, AmountInv, Held
<1> QED BY <1>3, <1>4, <1>5

\* Storing: the old price is another row's only if that one is on offer, which
\* refuses this row the plan.
LEMMA StoreKeeps == ASSUME NEW g \in Groups, CatalogInv(g), NEW p \in Proc, StoreRefs(p) PROVE Kept(g)
<1> DEFINE i == op[p].item
           n == op[p].new
           o == [op[p] EXCEPT !.pc = "deactivate"]
<1>1. CatalogTypeOK /\ op[p].pc = "store" /\ UNCHANGED <<prices, mixed, unsynced>>
  BY DEF CatalogInv, StoreRefs, At, stripe, catalogHistory
<1>2. Pricing(p) /\ i \in Items /\ op[p] \in Request
  BY <1>1, Given DEF Pricing, PricePc, RequestOK
<1>3. o.pc = "deactivate" /\ o.item = i /\ o.old = op[p].old /\ o.new = n
  BY <1>2 DEF Request
<1>4. CASE item[i].st # "none" /\ PlanTaken(i)
  BY <1>1, <1>2, <1>4, FailedKeeps DEF StoreRefs
<1>5. CASE ~(item[i].st # "none" /\ PlanTaken(i))
  <2> HIDE DEF o, i, n
  <2>0. op' = [op EXCEPT ![p] = o]
    BY <1>5 DEF StoreRefs, o, i
  <2>1. op'[p] = o /\ \A q \in Proc \ {p} : op'[q] = op[q]
    BY <1>1, <2>0, Others
  <2>2. \A q \in Proc : (Pricing(q)' <=> Pricing(q)) /\ op'[q].item = op[q].item /\ op'[q].old = op[q].old
    BY <1>1, <1>3, <2>1 DEF Pricing, PricePc, i
  <2>3. \A q \in Proc : op'[q].pc \in SyncPc \cup {"price", "store"} => op'[q] = op[q] /\ q # p
    BY <1>3, <2>1 DEF SyncPc
  <2>4. CASE item[i].st = "none"
    <3>1. UNCHANGED item
      BY <2>4 DEF StoreRefs, i
    <3>2. OfGroup(g)' /\ MixInv' /\ IndexInv'
      BY <1>1, <2>2, <2>3, <3>1 DEF CatalogInv, OfGroup, RaceInv, MixInv, IndexInv
    <3>3. StoreInv'
      BY <1>1, <2>2, <2>3, <3>1 DEF CatalogInv, RaceInv, StoreInv, StoreAt
    <3>4. LiveInv'
      <4> SUFFICES ASSUME NEW k \in Items \ mixed, Held(k) PROVE LiveAt(k)'
        BY <1>1, <3>1 DEF LiveInv, Held
      <4>1. LiveAt(k) /\ k # i
        BY <2>4 DEF CatalogInv, LiveInv, Held
      <4>2. op[p].old # item[k].price
        BY <1>1, <2>4, <4>1 DEF LiveAt, i
      <4> QED BY <1>1, <1>3, <2>1, <2>2, <2>3, <3>1, <4>1, <4>2 DEF LiveAt
    <3>5. AmountInv'
      <4> SUFFICES ASSUME NEW k \in Items, item[k].st # "none", ~Excepted(k) PROVE AmountAt(k)'
        BY <1>1, <3>1 DEF AmountInv, Excepted
      <4>1. AmountAt(k) /\ k # i
        BY <2>4 DEF CatalogInv, AmountInv
      <4>2. \A q \in Proc : op[q].item = k => op'[q] = op[q]
        BY <2>1, <4>1 DEF i
      <4> QED BY <1>1, <2>2, <3>1, <4>1, <4>2 DEF AmountAt, Held
    <3> QED BY <3>2, <3>3, <3>4, <3>5 DEF Kept, RaceInv
  <2>5. CASE item[i].st # "none" /\ ~PlanTaken(i)
    <3>1. set_catalog_item_provisioned(i, n)
      BY <2>5 DEF StoreRefs, i, n
    <3>2. /\ item'[i].price = n /\ item'[i].st = "active" /\ item'[i].active
          /\ item'[i].amt = item[i].amt /\ item'[i].grp = item[i].grp
          /\ \A j \in Items \ {i} : item'[j] = item[j]
      BY <1>1, <1>2, <3>1 DEF set_catalog_item_provisioned, CatalogTypeOK, Row
    <3>3. OfGroup(g)' /\ MixInv' /\ IndexInv'
      BY <1>1, <2>2, <2>3, <2>5, <3>2 DEF CatalogInv, OfGroup, RaceInv, MixInv, IndexInv
    <3>4. StoreInv'
      <4> SUFFICES ASSUME mixed # Items, NEW q \in Proc, op'[q].pc = "store" PROVE StoreAt(q)'
        BY <1>1 DEF StoreInv
      <4>1. op'[q] = op[q] /\ q # p /\ StoreAt(q) /\ n # op[q].new
        BY <1>1, <2>3 DEF CatalogInv, RaceInv, StoreInv, StoreAt, n
      <4> QED BY <1>1, <2>2, <2>3, <3>2, <4>1 DEF StoreAt
    <3>5. LiveInv'
      <4> SUFFICES ASSUME NEW k \in Items \ mixed, Held(k)' PROVE LiveAt(k)'
        BY <1>1 DEF LiveInv
      <4>1. /\ prices[n].live /\ \A j \in Items : item[j].price # n
            /\ \A q \in Proc : Pricing(q) => op[q].old # n
        BY <1>1 DEF CatalogInv, RaceInv, StoreInv, StoreAt, n
      <4>2. CASE k = i
        BY <1>1, <2>2, <3>2, <4>1, <4>2 DEF LiveAt, Pricing, PricePc
      <4>3. CASE k # i
        <5>1. Held(k) /\ LiveAt(k)
          BY <3>2, <4>3 DEF CatalogInv, LiveInv, Held
        <5>2. ASSUME op[p].old = item[k].price PROVE FALSE
          <6>1. item[k].active
            BY <1>1, <4>3, <5>1, <5>2 DEF LiveAt, i
          <6>2. item[k].grp = item[i].grp
            BY <1>2, <2>5, <5>1 DEF CatalogInv, OfGroup, Held
          <6> QED BY <2>5, <4>3, <5>1, <6>1, <6>2 DEF PlanTaken, Held
        <5>3. \A q \in Proc : item[op[q].item].st # "none" /\ Pricing(q) => item'[op[q].item].st # "none"
          BY <1>1, <3>2, Given DEF RequestOK, Pricing
        <5> QED BY <1>1, <1>3, <2>1, <2>2, <2>3, <3>2, <4>1, <4>3, <5>1, <5>2, <5>3 DEF LiveAt, Pricing, PricePc
      <4> QED BY <4>2, <4>3
    <3>6. AmountInv'
      <4> SUFFICES ASSUME NEW k \in Items, item'[k].st # "none", ~Excepted(k) PROVE AmountAt(k)'
        BY <1>1 DEF AmountInv, Excepted
      <4>1. AmountAt(k)
        BY <2>5, <3>2 DEF CatalogInv, AmountInv
      <4>2. CASE k = i
        <5>1. prices[n].amt = item[i].amt
          BY <1>1, <4>1, <4>2 DEF AmountAt, i, n
        <5>2. Pricing(p)' /\ op'[p].item = i
          BY <1>2, <1>3, <2>1, <2>2
        <5> QED BY <1>1, <2>2, <2>3, <3>2, <4>1, <4>2, <5>1, <5>2 DEF AmountAt
      <4>3. CASE k # i
        <5>1. \A q \in Proc : op[q].item = k => op'[q] = op[q]
          BY <2>1, <4>3 DEF i
        <5> QED BY <1>1, <2>2, <3>2, <4>1, <4>3, <5>1 DEF AmountAt, Held
      <4> QED BY <4>2, <4>3
    <3> QED BY <3>3, <3>4, <3>5, <3>6 DEF Kept, RaceInv
  <2> QED BY <1>5, <2>4, <2>5
<1> QED BY <1>4, <1>5

\* A request about a row begins, or ends without the price.
LEMMA BeginKeeps ==
  ASSUME NEW g \in Groups, CatalogInv(g), NEW p \in Proc, NEW i \in Items, op[p].pc = "idle",
         item'[i].grp = g, item'[i].price = item[i].price, item'[i].st # "none", Held(i)' => Held(i),
         item[i].active => item'[i].active, \A j \in Items \ {i} : item'[j] = item[j], UNCHANGED prices,
         \/ \E o : /\ op' = [op EXCEPT ![p] = o] /\ o.pc \in {"price", "refs"} /\ o.item = i /\ o.old = 0
                   /\ (o.pc = "price" => o.amt = item'[i].amt) /\ BeginPriceOp(i) /\ UNCHANGED unsynced
         \/ /\ UNCHANGED <<op, mixed>> /\ unsynced \subseteq unsynced'
            /\ i \in unsynced' \/ (~Held(i)' /\ \A q \in Proc : op[q].item # i)
  PROVE  Kept(g)
<1>1. CatalogTypeOK /\ mixed \subseteq Items
  BY DEF CatalogInv, CatalogTypeOK
<1>2. /\ mixed \subseteq mixed' /\ mixed' \subseteq Items /\ unsynced \subseteq unsynced'
      /\ \A j \in Items : Held(j)' => Held(j) /\ (item[j].active => item'[j].active)
  BY <1>1 DEF BeginPriceOp, Held
<1>3. mixed' # Items => mixed # Items
  BY <1>2
<1>4. \A q \in Proc : op'[q] = op[q] \/ (q = p /\ op'[p].pc \in {"price", "refs"} /\ op'[p].item = i /\ op'[p].old = 0)
  BY <1>1, Others
<1>5. \A q \in Proc : op'[q].pc \in SyncPc \cup {"store", "deactivate"} => op'[q] = op[q]
  BY <1>4 DEF SyncPc
<1>6. OfGroup(g)'
  BY <1>5 DEF CatalogInv, OfGroup
<1>7. MixInv'
  <2>1. CASE UNCHANGED <<op, mixed>>
    BY <2>1 DEF CatalogInv, RaceInv, MixInv, Pricing
  <2>2. ASSUME NEW o, op' = [op EXCEPT ![p] = o], o.pc \in {"price", "refs"}, o.item = i, BeginPriceOp(i) PROVE MixInv'
    <3>1. op'[p] = o /\ \A q \in Proc \ {p} : op'[q] = op[q]
      BY <1>1, <2>2, Others
    <3>2. ASSUME NEW q \in Proc, op[q].pc \in SyncPc PROVE mixed' = Items
      BY <1>2, <2>2, <3>2 DEF BeginPriceOp, Syncing
    <3>3. ASSUME NEW q \in Proc, Pricing(q), op[q].item = i PROVE i \in mixed'
      <4>1. q \in OnItem(i)
        BY <3>3 DEF OnItem, Pricing
      <4> QED BY <2>2, <4>1 DEF BeginPriceOp
    <3>4. o.pc \notin SyncPc
      BY <2>2 DEF SyncPc
    <3>5. ASSUME NEW q \in Proc, NEW s \in Proc, op'[q].pc \in SyncPc, Pricing(s)' PROVE mixed' = Items
      BY <2>2, <3>1, <3>2, <3>4, <3>5
    <3>6. ASSUME NEW q \in Proc, NEW s \in Proc, q # s, Pricing(q)', Pricing(s)', op'[q].item = op'[s].item
          PROVE  op'[q].item \in mixed'
      <4>1. CASE q # p /\ s # p
        BY <1>2, <3>1, <3>6, <4>1 DEF CatalogInv, RaceInv, MixInv, Pricing
      <4>2. CASE q = p \/ s = p
        BY <2>2, <3>1, <3>3, <3>6, <4>2 DEF Pricing
      <4> QED BY <4>1, <4>2
    <3> QED BY <3>5, <3>6 DEF MixInv
  <2> QED BY <2>1, <2>2
<1>8. IndexInv'
  BY <1>3, <1>5 DEF CatalogInv, RaceInv, IndexInv
<1>9. StoreInv'
  <2> SUFFICES ASSUME mixed # Items, NEW q \in Proc, op'[q].pc = "store" PROVE StoreAt(q)'
    BY <1>3 DEF StoreInv
  <2>1. op'[q] = op[q] /\ StoreAt(q) /\ op[q].new # 0
    BY <1>1, <1>5, Given DEF CatalogInv, RaceInv, StoreInv, RequestOK, Known
  <2>2. \A s \in Proc : Pricing(s)' => op'[s].old # op[q].new
    BY <1>4, <2>1 DEF StoreAt, Pricing
  <2>3. \A j \in Items : item'[j].price = item[j].price
    OBVIOUS
  <2> QED BY <1>5, <2>1, <2>2, <2>3 DEF StoreAt
<1>10. LiveInv'
  <2> SUFFICES ASSUME NEW k \in Items, k \notin mixed', Held(k)' PROVE LiveAt(k)'
    BY DEF LiveInv
  <2>1. Held(k) /\ LiveAt(k) /\ item[k].price # 0 /\ \A j \in Items : item'[j].price = item[j].price
    BY <1>2 DEF CatalogInv, LiveInv, Held
  <2>2. \A q \in Proc : op[q].pc \in {"price", "store"} /\ item[op[q].item].st # "none" => item'[op[q].item].st # "none"
    BY <1>1, Given DEF RequestOK, PricePc
  <2>3. ASSUME NEW q \in Proc, op'[q].pc \in {"price", "store"}, op'[q].old = item[k].price PROVE op'[q] = op[q]
    BY <1>4, <2>1, <2>3
  <2> QED BY <1>2, <1>5, <2>1, <2>2, <2>3 DEF LiveAt
<1>11. AmountInv'
  <2> SUFFICES ASSUME NEW k \in Items, item'[k].st # "none", ~Excepted(k)' PROVE AmountAt(k)'
    BY DEF AmountInv
  <2>1. k # i => AmountAt(k)
    BY <1>2 DEF CatalogInv, AmountInv, Excepted
  <2>2. CASE k # i
    <3>1. \A q \in Proc : op[q].item = k => op[q].pc = "idle" \/ op'[q] = op[q]
      BY <1>4
    <3>2. \A q \in Proc : op'[q].item = k => op'[q] = op[q]
      BY <1>4, <2>2
    <3>3. (\A q \in Proc : Pricing(q)' => op'[q].item # k) => \A q \in Proc : Pricing(q) => op[q].item # k
      BY <3>1 DEF Pricing, PricePc
    <3> QED BY <2>1, <2>2, <3>2, <3>3 DEF AmountAt, Held
  <2>3. CASE k = i
    <3>1. CASE ~Held(i)' /\ \A q \in Proc : op'[q].item # i
      BY <2>3, <3>1 DEF AmountAt
    <3>2. ASSUME NEW o, op' = [op EXCEPT ![p] = o], o.pc \in {"price", "refs"}, o.item = i,
                 o.pc = "price" => o.amt = item'[i].amt, BeginPriceOp(i)
          PROVE  AmountAt(i)'
      <4>1. op'[p] = o /\ \A q \in Proc \ {p} : op'[q] = op[q]
        BY <1>1, <3>2, Others
      <4>2. \A q \in Proc : Pricing(q) => op[q].item # i
        BY <2>3, <3>2 DEF BeginPriceOp, Excepted, OnItem, Pricing
      <4> QED BY <3>2, <4>1, <4>2 DEF AmountAt, Pricing, PricePc
    <3> QED BY <2>3, <3>1, <3>2 DEF Excepted
  <2> QED BY <2>2, <2>3
<1> QED BY <1>6, <1>7, <1>8, <1>9, <1>10, <1>11 DEF Kept, RaceInv

LEMMA CreateKeeps ==
  ASSUME NEW g \in Groups, CatalogInv(g), NEW p \in Proc, NEW a \in Callers, NEW i \in Items, NEW m \in Amounts,
         create_catalog_item(p, a, g, i, m)
  PROVE  Kept(g)
<1> DEFINE o == [NoOp EXCEPT !.pc = "price", !.item = i, !.amt = m]
<1>1. /\ CatalogTypeOK /\ op[p].pc = "idle" /\ UNCHANGED prices /\ item[i] = NoRow
      /\ \A q \in Proc : op[q].item # i
  BY RowTyped DEF CatalogInv, create_catalog_item, Idle, stripe, NewId, RowOK
<1>2. /\ item'[i] = [NoRow EXCEPT !.grp = g, !.st = "pending", !.amt = m]
      /\ \A j \in Items \ {i} : item'[j] = item[j]
  BY <1>1 DEF create_catalog_item, CatalogTypeOK
<1>3. /\ item'[i].grp = g /\ item'[i].price = item[i].price /\ item'[i].st = "pending" /\ item'[i].amt = m
      /\ ~item[i].active
  BY <1>1, <1>2 DEF NoRow
<1>4. o.pc = "price" /\ o.item = i /\ o.old = 0 /\ o.amt = m
  BY DEF NoOp
<1> HIDE DEF o
<1>5. \/ op' = [op EXCEPT ![p] = o] /\ BeginPriceOp(i) /\ UNCHANGED unsynced
      \/ UNCHANGED <<op, mixed, unsynced>>
  BY DEF create_catalog_item, catalogHistory, o
<1>6. ~Held(i)'
  BY <1>3 DEF Held
<1>7. /\ item'[i].grp = g /\ item'[i].price = item[i].price /\ item'[i].st # "none"
      /\ (Held(i)' => Held(i)) /\ (item[i].active => item'[i].active)
  BY <1>3, <1>6
<1>8. CASE op' = [op EXCEPT ![p] = o] /\ BeginPriceOp(i) /\ UNCHANGED unsynced
  <2>1. \E w : /\ op' = [op EXCEPT ![p] = w] /\ w.pc \in {"price", "refs"} /\ w.item = i /\ w.old = 0
               /\ (w.pc = "price" => w.amt = item'[i].amt) /\ BeginPriceOp(i) /\ UNCHANGED unsynced
    BY <1>3, <1>4, <1>8
  <2> QED BY <1>1, <1>2, <1>7, <2>1, BeginKeeps
<1>9. CASE UNCHANGED <<op, mixed, unsynced>>
  BY <1>1, <1>2, <1>6, <1>7, <1>9, BeginKeeps
<1> QED BY <1>5, <1>8, <1>9

LEMMA UpdateKeeps ==
  ASSUME NEW g \in Groups, CatalogInv(g), NEW p \in Proc, NEW a \in Callers, NEW i \in Items, NEW m \in Amounts,
         update_catalog_item(p, a, g, i, m)
  PROVE  Kept(g)
<1> DEFINE o == [NoOp EXCEPT !.pc = "refs", !.item = i]
<1>1. CatalogTypeOK /\ op[p].pc = "idle" /\ UNCHANGED prices /\ item[i].st # "none" /\ item[i].grp = g
  BY DEF CatalogInv, update_catalog_item, Idle, stripe, _require_catalog_item
<1>2. /\ item'[i] = [item[i] EXCEPT !.amt = m] /\ item[i] \in Row
      /\ \A j \in Items \ {i} : item'[j] = item[j]
  BY <1>1 DEF update_catalog_item, CatalogTypeOK
<1>3. /\ item'[i].grp = g /\ item'[i].price = item[i].price /\ item'[i].st = item[i].st
      /\ item'[i].active = item[i].active
  BY <1>1, <1>2 DEF Row
<1>4. o.pc = "refs" /\ o.item = i /\ o.old = 0
  BY DEF NoOp
<1> HIDE DEF o
<1>5. \/ op' = [op EXCEPT ![p] = o] /\ BeginPriceOp(i) /\ UNCHANGED unsynced
      \/ UNCHANGED <<op, mixed>> /\ unsynced' = unsynced \cup {i}
  BY DEF update_catalog_item, o
<1>6. Held(i)' => Held(i)
  BY <1>3 DEF Held
<1> QED BY <1>1, <1>2, <1>3, <1>4, <1>5, <1>6, BeginKeeps

\* Adopting: no row is repriced meanwhile, and rows that come to share the
\* price are recorded.
LEMMA AdoptKeeps ==
  ASSUME NEW g \in Groups, CatalogInv(g), NEW p \in Proc, NEW i \in Items, reconcile_catalog_for_group(p, i) PROVE Kept(g)
<1> DEFINE o == [op[p] EXCEPT !.todo = @ \ {i}]
           n == op[p].tag
<1>1. /\ CatalogTypeOK /\ op[p].pc = "adopt" /\ n \in op[p].live /\ n # 0
      /\ op' = [op EXCEPT ![p] = o] /\ UNCHANGED prices
  BY AdoptTypes DEF CatalogInv, reconcile_catalog_for_group, stripe
<1>2. op[p].pc \in SyncPc /\ ~Pricing(p) /\ op[p].grp = g
  BY <1>1 DEF SyncPc, Pricing, PricePc, CatalogInv, OfGroup
<1>3. o.pc = op[p].pc /\ o.grp = g /\ o.live = op[p].live
  BY <1>1, <1>2, Given DEF Request
<1>4. /\ mixed \subseteq Items /\ ((\E q \in Proc : Pricing(q)) => mixed = Items)
      /\ (mixed # Items => \A k \in op[p].live : prices[k].live)
  BY <1>1, <1>2 DEF CatalogInv, CatalogTypeOK, RaceInv, MixInv, IndexInv
<1> HIDE DEF o
<1>5. CASE UNCHANGED <<item, catalogHistory>>
  <2>1. UNCHANGED <<item, prices, mixed, unsynced>>
    BY <1>1, <1>5 DEF catalogHistory
  <2> QED BY <1>1, <1>2, <1>3, <1>4, <2>1, LookKeeps
<1>6. CASE /\ item[i].st # "none" /\ adopt_catalog_item_refs(i, n) /\ unsynced' = unsynced \cup {i}
           /\ mixed' = mixed \cup (IF Sharing(i, n) = {} THEN {} ELSE {i} \cup Sharing(i, n))
  <2> HIDE DEF n
  <2>1. op'[p] = o /\ \A q \in Proc \ {p} : op'[q] = op[q]
    BY <1>1, Others
  <2>2. \A q \in Proc : op'[q].pc = op[q].pc /\ (op'[q].pc \in PricePc => op'[q] = op[q])
    BY <1>2, <1>3, <2>1 DEF Pricing
  <2>3. /\ item'[i].price = n /\ item'[i].active = item[i].active
        /\ item'[i].grp = item[i].grp /\ item'[i].st # "none"
        /\ \A j \in Items \ {i} : item'[j] = item[j]
    BY <1>1, <1>6, RowTyped DEF adopt_catalog_item_refs, CatalogTypeOK, Row
  <2>4. mixed \subseteq mixed' /\ mixed' \subseteq Items
    BY <1>4, <1>6 DEF Sharing
  <2>5. OfGroup(g)'
    BY <1>3, <1>6, <2>1, <2>2, <2>3 DEF CatalogInv, OfGroup
  <2>6. MixInv'
    BY <2>2, <2>4 DEF CatalogInv, RaceInv, MixInv, Pricing
  <2>7. IndexInv'
    <3>1. mixed' # Items => mixed # Items
      BY <1>4, <2>4
    <3>2. \A q \in Proc : op'[q].live = op[q].live
      BY <1>3, <2>1
    <3> QED BY <1>1, <2>2, <3>1, <3>2 DEF CatalogInv, RaceInv, IndexInv
  <2>8. StoreInv'
    BY <1>4, <2>2, <2>4 DEF StoreInv, Pricing, PricePc
  <2>9. LiveInv'
    <3> SUFFICES ASSUME NEW k \in Items, k \notin mixed', Held(k)' PROVE LiveAt(k)'
      BY DEF LiveInv
    <3>1. mixed # Items /\ \A q \in Proc : op'[q].pc \notin PricePc
      BY <1>4, <2>2, <2>4 DEF Pricing
    <3>2. \A q \in Proc : op'[q].pc \notin {"price", "store", "deactivate"}
      BY <3>1 DEF PricePc
    <3>3. CASE k = i
      <4>1. Sharing(i, n) = {} /\ prices[n].live
        BY <1>1, <1>4, <1>6, <3>1, <3>3 DEF n
      <4> QED BY <1>1, <2>3, <3>2, <3>3, <4>1 DEF LiveAt, Sharing
    <3>4. CASE k # i
      <4>1. Held(k) /\ LiveAt(k) /\ item'[k] = item[k]
        BY <2>3, <2>4, <3>4 DEF CatalogInv, LiveInv, Held
      <4>2. item[k].price # n
        BY <1>6, <3>4 DEF Sharing
      <4> QED BY <1>1, <2>3, <3>2, <3>4, <4>1, <4>2 DEF LiveAt
    <3> QED BY <3>3, <3>4
  <2>10. AmountInv'
    <3> SUFFICES ASSUME NEW k \in Items, item'[k].st # "none", ~Excepted(k)' PROVE AmountAt(k)'
      BY DEF AmountInv
    <3>1. k # i /\ item'[k] = item[k] /\ AmountAt(k)
      BY <1>6, <2>3, <2>4 DEF CatalogInv, AmountInv, Excepted
    <3>2. \A q \in Proc : op'[q].pc \in {"price", "store", "deactivate"} => op'[q] = op[q]
      BY <2>2 DEF PricePc
    <3>3. (\A q \in Proc : Pricing(q)' => op'[q].item # k) => \A q \in Proc : Pricing(q) => op[q].item # k
      BY <2>2 DEF Pricing
    <3> QED BY <1>1, <3>1, <3>2, <3>3 DEF AmountAt, Held
  <2> QED BY <2>5, <2>6, <2>7, <2>8, <2>9, <2>10 DEF Kept, RaceInv
<1> QED BY <1>5, <1>6 DEF reconcile_catalog_for_group

\* Importing: the row is new, and so is its price to the group.
LEMMA ImportKeeps ==
  ASSUME NEW g \in Groups, CatalogInv(g), NEW p \in Proc, NEW i \in Items, NEW n \in Known,
         import_selected_candidates(p, i, n)
  PROVE  Kept(g)
<1>1. /\ CatalogTypeOK /\ op[p].pc = "rows" /\ op' = [op EXCEPT ![p] = NoOp]
      /\ UNCHANGED <<prices, mixed, unsynced>> /\ n \in op[p].live
      /\ item[i].st = "none" /\ \A q \in Proc : op[q].item # i
  BY DEF CatalogInv, import_selected_candidates, At, Done, stripe, catalogHistory, NewId
<1>2. op[p].pc \in SyncPc /\ ~Pricing(p) /\ op[p].grp = g
  BY <1>1 DEF SyncPc, Pricing, PricePc, CatalogInv, OfGroup
<1>3. /\ ((\E q \in Proc : Pricing(q)) => mixed = Items)
      /\ (mixed # Items => prices[n].live) /\ mixed \subseteq Items
  BY <1>1, <1>2 DEF CatalogInv, CatalogTypeOK, RaceInv, MixInv, IndexInv
<1>4. op'[p] = NoOp /\ \A q \in Proc \ {p} : op'[q] = op[q]
  BY <1>1, Others
<1>5. \A q \in Proc : op'[q].pc \in PricePc \cup SyncPc => op'[q] = op[q] /\ q # p
  BY <1>4, NoOpIs DEF PricePc, SyncPc
<1>6. /\ item'[i] = [grp |-> g, st |-> "active", active |-> TRUE, amt |-> prices[n].amt, price |-> n]
      /\ \A j \in Items \ {i} : item'[j] = item[j]
  BY <1>1, <1>2 DEF import_selected_candidates, CatalogTypeOK
<1>7. OfGroup(g)' /\ MixInv' /\ IndexInv'
  BY <1>1, <1>5, <1>6 DEF CatalogInv, OfGroup, RaceInv, MixInv, IndexInv, Pricing
<1>8. StoreInv'
  BY <1>1, <1>3, <1>5 DEF StoreInv, Pricing, PricePc
<1>9. LiveInv'
  <2> SUFFICES ASSUME NEW k \in Items \ mixed, Held(k)' PROVE LiveAt(k)'
    BY <1>1 DEF LiveInv
  <2>1. mixed # Items /\ \A q \in Proc : op'[q].pc \notin PricePc
    BY <1>3, <1>5 DEF Pricing
  <2>2. \A q \in Proc : op'[q].pc \notin {"price", "store", "deactivate"}
    BY <2>1 DEF PricePc
  <2>3. CASE k = i
    BY <1>1, <1>3, <1>6, <2>1, <2>2, <2>3 DEF LiveAt
  <2>4. CASE k # i
    <3>1. Held(k) /\ LiveAt(k) /\ item'[k] = item[k]
      BY <1>6, <2>4 DEF CatalogInv, LiveInv, Held
    <3>2. item[k].price # n
      <4>1. k \in Local(g)
        BY <3>1 DEF Local, CatalogInv, OfGroup, Held
      <4> QED BY <1>2, <4>1 DEF import_selected_candidates
    <3> QED BY <1>1, <1>6, <2>2, <2>4, <3>1, <3>2 DEF LiveAt
  <2> QED BY <2>3, <2>4
<1>10. AmountInv'
  <2> SUFFICES ASSUME NEW k \in Items, item'[k].st # "none", ~Excepted(k) PROVE AmountAt(k)'
    BY <1>1 DEF AmountInv, Excepted
  <2>1. CASE k = i
    <3>1. \A q \in Proc : op'[q].item = i => op'[q].pc = "idle"
      BY <1>1, <1>4, NoOpIs
    <3> QED BY <1>1, <1>6, <2>1, <3>1 DEF AmountAt
  <2>2. CASE k # i
    <3>1. item'[k] = item[k] /\ AmountAt(k)
      BY <1>6, <2>2 DEF CatalogInv, AmountInv
    <3>2. \A q \in Proc : op'[q].pc \in {"price", "store", "deactivate"} => op'[q] = op[q]
      BY <1>5 DEF PricePc
    <3>3. (\A q \in Proc : Pricing(q)' => op'[q].item # k) => \A q \in Proc : Pricing(q) => op[q].item # k
      BY <1>2, <1>4 DEF Pricing
    <3> QED BY <1>1, <3>1, <3>2, <3>3 DEF AmountAt, Held
  <2> QED BY <2>1, <2>2
<1> QED BY <1>7, <1>8, <1>9, <1>10 DEF Kept, RaceInv

-----------------------------------------------------------------------------
(* The catalog. *)

LEMMA NextKeeps ==
  ASSUME NEW g \in Groups, CatalogInv(g), CatalogNext(g) \/ UNCHANGED catalogVars PROVE CatalogInv(g)'
<1>0. CatalogTypeOK /\ CatalogTypeOK'
  BY NextTypes DEF CatalogInv
<1> SUFFICES Kept(g)
  BY <1>0 DEF CatalogInv, Kept
<1>1. CASE GroupStep
  BY <1>0, <1>1, GroupSplit, GroupTypes, DetachedTypes, QuietKeeps, DeleteKeeps, AttachKeeps
<1>2. ASSUME NEW a \in Callers, CatalogRequest(a, g) PROVE Kept(g)
  <2>1. PICK i \in Items :
          \/ \E p \in Proc, m \in Amounts : create_catalog_item(p, a, g, i, m) \/ update_catalog_item(p, a, g, i, m)
          \/ \E archived \in BOOLEAN : archive_catalog_item(a, g, i, archived)
          \/ delete_catalog_item(a, g, i)
          \/ \E p \in Proc : sync_catalog(p, a, g)
    BY <1>2 DEF CatalogRequest
  <2> QED BY <2>1, CreateKeeps, UpdateKeeps, ArchiveKeeps, SyncKeeps
<1>3. CASE CatalogStep
  <2>1. PICK p \in Proc :
          \/ reprovision_price(p) \/ _provision(p) \/ StripeFails(p) \/ StoreRefs(p) \/ _deactivate_price(p)
          \/ build_stripe_index(p) \/ classify_catalog(p) \/ ReconcileDone(p) \/ Dies(p)
          \/ \E i \in Items : \/ reconcile_catalog_for_group(p, i)
                               \/ \E n \in Known : import_selected_candidates(p, i, n)
    BY <1>3 DEF CatalogStep, Known
  <2>2. CASE reprovision_price(p) \/ _provision(p) \/ StripeFails(p) \/ StoreRefs(p) \/ _deactivate_price(p)
    BY <2>2, ReprovisionKeeps, ProvisionKeeps, FailKeeps, StoreKeeps, DeactivateKeeps
  <2>3. CASE build_stripe_index(p) \/ classify_catalog(p) \/ ReconcileDone(p) \/ Dies(p)
    BY <2>3, ClassifyKeeps, AttachKeeps
  <2>4. ASSUME NEW i \in Items, reconcile_catalog_for_group(p, i) PROVE Kept(g)
    BY <2>4, AdoptKeeps
  <2>5. ASSUME NEW i \in Items, NEW n \in Known, import_selected_candidates(p, i, n) PROVE Kept(g)
    BY <2>5, ImportKeeps
  <2> QED BY <2>1, <2>2, <2>3, <2>4, <2>5
<1>4. CASE UNCHANGED catalogVars
  BY <1>4, QuietKeeps DEF catalogVars, stripe
<1> QED BY <1>1, <1>2, <1>3, <1>4 DEF CatalogNext

LEMMA InitKeeps == ASSUME NEW g \in Groups, CatalogInit PROVE CatalogInv(g)
<1>1. CatalogTypeOK
  BY InitTypes
<1>2. \A i \in Items : item[i] = NoRow
  BY DEF CatalogInit
<1>3. \A i \in Items : item[i].st = "none"
  BY <1>2 DEF NoRow
<1>4. \A p \in Proc : op[p].pc \notin PricePc \cup SyncPc
  BY NoOpIs DEF CatalogInit, PricePc, SyncPc
<1>5. OfGroup(g) /\ RaceInv
  BY <1>3, <1>4 DEF OfGroup, RaceInv, MixInv, IndexInv, StoreInv, Pricing, PricePc
<1> QED BY <1>1, <1>3, <1>5 DEF CatalogInv, LiveInv, AmountInv, Held

LEMMA CatalogInvAlways == ASSUME NEW g \in Groups PROVE CatalogSpec(g) => []CatalogInv(g)
<1>1. CatalogInit => CatalogInv(g)
  BY InitKeeps
<1>2. CatalogInv(g) /\ [CatalogNext(g)]_catalogVars => CatalogInv(g)'
  BY NextKeeps
<1> QED BY <1>1, <1>2, PTL DEF CatalogSpec

\* Whatever the requests about groups and plans, the calls to Stripe that fail
\* and the replicas that die, the tables keep their shape: what a request
\* has in hand exists.
THEOREM CatalogTypes == ASSUME NEW g \in Groups PROVE CatalogSpec(g) => []CatalogTypeOK
<1>1. CatalogInv(g) => CatalogTypeOK
  BY DEF CatalogInv
<1> QED BY <1>1, CatalogInvAlways, PTL

\* A plan on offer charges the amount it is listed with once its repricing is
\* over, for the exceptions OfferedAmountCharged names.
THEOREM PlansCostAsListed == ASSUME NEW g \in Groups PROVE CatalogSpec(g) => []OfferedAmountCharged
<1>1. CatalogInv(g) => OfferedAmountCharged
  <2> SUFFICES ASSUME CatalogInv(g), NEW i \in Items, Offered(i), item[i].price # 0, OnItem(i) = {}, ~Excepted(i)
               PROVE  prices[item[i].price].amt = item[i].amt
    BY DEF OfferedAmountCharged
  <2>1. Held(i) /\ item[i].st # "none" /\ AmountAt(i)
    BY DEF CatalogInv, AmountInv, Offered, Held
  <2>2. \A p \in Proc : Pricing(p) => op[p].item # i
    BY DEF OnItem, Pricing
  <2> QED BY <2>1, <2>2 DEF AmountAt
<1> QED BY <1>1, CatalogInvAlways, PTL

\* A plan on offer can be bought, also while it is repriced and when the
\* replica dies in the middle of that.
THEOREM PlansCanBeBought == ASSUME NEW g \in Groups PROVE CatalogSpec(g) => []OfferedPriceIsLive
<1>1. CatalogInv(g) => OfferedPriceIsLive
  BY DEF CatalogInv, LiveInv, LiveAt, OfferedPriceIsLive, Offered, Held
<1> QED BY <1>1, CatalogInvAlways, PTL

-----------------------------------------------------------------------------
(* Checkouts. *)

LEMMA SessionsGrow ==
  ASSUME CheckoutTypeOK,
         UNCHANGED sessions \/ \E b \in Bodies \cup {None} : sessions' = Append(sessions, b)
  PROVE  sessions' \in Seq(Bodies \cup {None}) /\ \A n \in Nat : \A b : MadeFor(n, b) => MadeFor(n, b)'
<1>1. sessions \in Seq(Bodies \cup {None})
  BY DEF CheckoutTypeOK
<1>2. CASE UNCHANGED sessions
  BY <1>1, <1>2 DEF MadeFor, Sessions
<1>3. ASSUME NEW b \in Bodies \cup {None}, sessions' = Append(sessions, b)
      PROVE  sessions' \in Seq(Bodies \cup {None}) /\ \A n \in Nat : \A c : MadeFor(n, c) => MadeFor(n, c)'
  <2>1. Len(sessions') = Len(sessions) + 1 /\ \A n \in Sessions : sessions'[n] = sessions[n]
    BY <1>1, <1>3 DEF Sessions
  <2>2. Len(sessions) \in Nat
    BY <1>1
  <2> QED BY <1>1, <1>3, <2>1, <2>2 DEF MadeFor, Sessions
<1> QED BY <1>2, <1>3

\* A step of one replica; rows keep their body and sessions stay.
LEMMA CheckoutFrame ==
  ASSUME CheckoutTypeOK, NEW r \in Server, NEW o \in Checkout, co' = [co EXCEPT ![r] = o], CheckoutOK(r)',
         UNCHANGED sessions \/ \E b \in Bodies \cup {None} : sessions' = Append(sessions, b),
         intents' \in Seq(Intent), Len(intents) <= Len(intents'),
         \A k \in 1 .. Len(intents) : intents'[k].body = intents[k].body,
         memory' \in [Server -> [body : Bodies \cup {None}, sess : Nat]], answers' \subseteq Bodies \X Nat
  PROVE  CheckoutTypeOK'
<1>1. co' \in [Server -> Checkout] /\ \A q \in Server \ {r} : co'[q] = co[q]
  BY DEF CheckoutTypeOK
<1>2. sessions' \in Seq(Bodies \cup {None}) /\ \A n \in Nat : \A b : MadeFor(n, b) => MadeFor(n, b)'
  BY SessionsGrow
<1>3. Len(intents) \in Nat /\ Len(intents') \in Nat
  BY DEF CheckoutTypeOK
<1>4. \A q \in Server : CheckoutOK(q)'
  <2> SUFFICES ASSUME NEW q \in Server, q # r PROVE CheckoutOK(q)'
    OBVIOUS
  <2>1. co'[q] = co[q] /\ CheckoutOK(q) /\ co[q].sess \in Nat /\ co[q].row \in Nat
    BY <1>1 DEF CheckoutTypeOK, Checkout
  <2>2. PICK w : co'[q] = w /\ w = co[q]
    BY <2>1
  <2>3. w.pc = "complete" => MadeFor(w.sess, w.body)'
    <3>1. w.pc = "complete" => MadeFor(w.sess, w.body)
      BY <2>1, <2>2 DEF CheckoutOK
    <3> QED BY <1>2, <2>1, <2>2, <3>1
  <2>4. w.row \in 0 .. Len(intents') /\ (w.row # 0 => intents'[w.row].body = w.body)
    BY <1>3, <2>1, <2>2 DEF CheckoutOK
  <2> QED BY <2>1, <2>2, <2>3, <2>4 DEF CheckoutOK, MadeFor
<1> QED BY <1>1, <1>2, <1>4 DEF CheckoutTypeOK

LEMMA CoGiven ==
  ASSUME CheckoutTypeOK, NEW r \in Server
  PROVE  /\ co[r] \in Checkout /\ CheckoutOK(r) /\ memory[r] \in [body : Bodies \cup {None}, sess : Nat]
         /\ \A o : co' = [co EXCEPT ![r] = o] => co'[r] = o /\ \A q \in Server \ {r} : co'[q] = co[q]
BY DEF CheckoutTypeOK

LEMMA WaitingTyped == Waiting \in Checkout /\ Waiting.pc = "idle" /\ Waiting.row = 0
BY DEF Waiting, Checkout

\* A replica is done, with an answer or without.
LEMMA EndTypes ==
  ASSUME CheckoutTypeOK, NEW r \in Server, EndCo(r), UNCHANGED <<intents, sessions>>,
         memory' \in [Server -> [body : Bodies \cup {None}, sess : Nat]], answers' \subseteq Bodies \X Nat
  PROVE  CheckoutTypeOK'
<1>1. co' = [co EXCEPT ![r] = Waiting] /\ co'[r] = Waiting
  BY DEF EndCo, CheckoutTypeOK
<1>2. intents \in Seq(Intent) /\ Len(intents) \in Nat
  BY DEF CheckoutTypeOK
<1>3. CheckoutOK(r)'
  BY <1>1, <1>2, WaitingTyped DEF CheckoutOK
<1>4. Waiting \in Checkout /\ Len(intents) <= Len(intents') /\ intents' \in Seq(Intent)
  BY <1>2, WaitingTyped
<1> HIDE DEF Waiting
<1> QED BY <1>1, <1>3, <1>4, CheckoutFrame

LEMMA OwnFrame ==
  ASSUME CheckoutTypeOK, OwnInv,
         UNCHANGED sessions \/ \E b \in Bodies \cup {None} : sessions' = Append(sessions, b),
         \A x \in answers' : x \in answers \/ MadeFor(x[2], x[1])',
         \A r \in Server : \/ memory'[r] = memory[r] \/ memory'[r] = Nothing
                           \/ MadeFor(memory[r].sess, memory[r].body)',
         \A k \in 1 .. Len(intents') :
            \/ /\ k \in 1 .. Len(intents) /\ intents'[k].sess = intents[k].sess
               /\ intents'[k].body = intents[k].body
            \/ intents'[k].sess = 0
            \/ MadeFor(intents[k].sess, intents[k].body)'
  PROVE  OwnInv'
<1>1. \A n \in Nat : \A b : MadeFor(n, b) => MadeFor(n, b)'
  BY SessionsGrow
<1>2. \A x \in answers' : MadeFor(x[2], x[1])'
  BY <1>1 DEF OwnInv, CheckoutTypeOK
<1>3. ASSUME NEW r \in Server, memory'[r] # Nothing PROVE MadeFor(memory[r].sess, memory[r].body)'
  <2>1. CASE memory'[r] = memory[r]
    <3>1. PICK m : m = memory[r]
      OBVIOUS
    <3>2. m.sess \in Nat /\ MadeFor(m.sess, m.body)
      BY <1>3, <2>1, <3>1, CoGiven DEF OwnInv
    <3>3. MadeFor(m.sess, m.body)'
      BY <1>1, <3>2
    <3> QED BY <2>1, <3>1, <3>3 DEF MadeFor
  <2> QED BY <1>3, <2>1
<1>4. ASSUME NEW k \in 1 .. Len(intents'), intents'[k].sess # 0 PROVE MadeFor(intents[k].sess, intents[k].body)'
  <2>1. CASE /\ k \in 1 .. Len(intents) /\ intents'[k].sess = intents[k].sess
             /\ intents'[k].body = intents[k].body
    <3>1. PICK m : m = intents[k]
      OBVIOUS
    <3>2. m.sess \in Nat /\ MadeFor(m.sess, m.body)
      <4>1. intents[k] \in Intent
        BY <2>1 DEF CheckoutTypeOK
      <4> QED BY <1>4, <2>1, <3>1, <4>1 DEF OwnInv, Intent
    <3>3. MadeFor(m.sess, m.body)'
      BY <1>1, <3>2
    <3> QED BY <2>1, <3>1, <3>3 DEF MadeFor
  <2> QED BY <1>4, <2>1
<1> QED BY <1>2, <1>3, <1>4 DEF OwnInv

\* A checkout is asked for.
LEMMA AskKeeps ==
  ASSUME CheckoutTypeOK, OwnInv, NEW r \in Server, NEW b \in Bodies, create_internal_billing_checkout(r, b),
         att \in [Projects -> Groups \cup {None}]
  PROVE  /\ CheckoutTypeOK' /\ OwnInv'
         /\ trouble' = {} => trouble = {} /\ (QuietInv => QuietInv')
<1> DEFINE o == [Waiting EXCEPT !.pc = "begin", !.body = b, !.grp = att[Project]]
<1>1. /\ co[r].pc = "idle" /\ att[Project] \in Groups /\ UNCHANGED <<att, intents, memory, sessions>>
      /\ \/ /\ memory[r] # Nothing /\ memory[r].body = b /\ UNCHANGED <<co, trouble>>
            /\ answers' = answers \cup {<<b, memory[r].sess>>}
         \/ /\ co' = [co EXCEPT ![r] = o] /\ UNCHANGED answers /\ trouble \subseteq trouble'
            /\ trouble' = {} => \A q \in Server : co[q].pc = "idle"
  BY CheckoutAssumption
     DEF create_internal_billing_checkout, CoAt, _resolve_scope, groups, _local_idempotency_decision,
         compare_idempotent_request, Tell, Trouble
<1>2. CASE /\ memory[r] # Nothing /\ memory[r].body = b /\ UNCHANGED <<co, trouble>>
           /\ answers' = answers \cup {<<b, memory[r].sess>>}
  <2>1. MadeFor(memory[r].sess, b) /\ memory[r].sess \in Nat
    BY <1>2, CoGiven DEF OwnInv
  <2>2. CheckoutTypeOK'
    BY <1>1, <1>2, <2>1 DEF CheckoutTypeOK, CheckoutOK, MadeFor, Sessions
  <2>3. OwnInv'
    BY <1>1, <1>2, <2>1 DEF OwnInv, MadeFor, Sessions
  <2>4. QuietInv => QuietInv'
    BY <1>1, <1>2 DEF QuietInv, AnswerIs
  <2> QED BY <1>2, <2>2, <2>3, <2>4
<1>3. CASE /\ co' = [co EXCEPT ![r] = o] /\ UNCHANGED answers /\ trouble \subseteq trouble'
           /\ trouble' = {} => \A q \in Server : co[q].pc = "idle"
  <2>1. /\ o \in Checkout /\ o.pc = "begin" /\ o.row = 0 /\ o.body = b /\ o.grp = att[Project]
    BY <1>1 DEF Waiting, Checkout
  <2> HIDE DEF o
  <2>2. co'[r] = o /\ \A q \in Server \ {r} : co'[q] = co[q]
    BY <1>3, CoGiven
  <2>3. intents \in Seq(Intent) /\ Len(intents) \in Nat
    BY DEF CheckoutTypeOK
  <2>4. CheckoutOK(r)'
    BY <1>1, <2>1, <2>2, <2>3 DEF CheckoutOK
  <2>5. CheckoutTypeOK'
    <3>1. /\ intents' \in Seq(Intent) /\ Len(intents) <= Len(intents')
          /\ memory' \in [Server -> [body : Bodies \cup {None}, sess : Nat]] /\ answers' \subseteq Bodies \X Nat
      BY <1>1, <1>3, <2>3 DEF CheckoutTypeOK
    <3> QED BY <1>1, <1>3, <2>1, <2>4, <3>1, CheckoutFrame
  <2>6. OwnInv'
    BY <1>1, <1>3 DEF OwnInv, MadeFor, Sessions
  <2>7. ASSUME trouble' = {}, QuietInv PROVE QuietInv'
    BY <1>1, <1>3, <2>1, <2>2, <2>7 DEF QuietInv, AnswerIs
  <2> QED BY <1>3, <2>5, <2>6, <2>7
<1> QED BY <1>1, <1>2, <1>3

\* The row of the key is read or made.
LEMMA BeginTypes ==
  ASSUME CheckoutTypeOK, OwnInv, NEW r \in Server, begin_checkout_intent(r) PROVE CheckoutTypeOK' /\ OwnInv'
<1>1. /\ co[r].pc = "begin" /\ co[r] \in Checkout /\ co[r].body \in Bodies /\ co[r].grp \in Groups
      /\ intents \in Seq(Intent) /\ Len(intents) \in Nat
      /\ UNCHANGED <<sessions, memory>> /\ memory \in [Server -> [body : Bodies \cup {None}, sess : Nat]]
      /\ answers \subseteq Bodies \X Nat
  BY CoGiven DEF begin_checkout_intent, CoAt, CheckoutOK, CheckoutTypeOK
<1>2. ASSUME NEW n \in Nat, intents' \in Seq(Intent), Len(intents) <= Len(intents'),
             n \in 1 .. Len(intents'), intents'[n].body = co[r].body,
             \A k \in 1 .. Len(intents) : intents'[k].body = intents[k].body, UNCHANGED answers,
             co' = [co EXCEPT ![r].pc = "session", ![r].row = n]
      PROVE  CheckoutTypeOK'
  <2> DEFINE o == [co[r] EXCEPT !.pc = "session", !.row = n]
  <2>1. /\ o \in Checkout /\ o.pc = "session" /\ o.row = n /\ o.body = co[r].body /\ o.grp = co[r].grp
        /\ co' = [co EXCEPT ![r] = o]
    BY <1>1, <1>2 DEF Checkout
  <2> HIDE DEF o
  <2>2. co'[r] = o
    BY <2>1, CoGiven
  <2>3. CheckoutOK(r)'
    BY <1>1, <1>2, <2>1, <2>2 DEF CheckoutOK
  <2>4. answers' \subseteq Bodies \X Nat /\ memory' \in [Server -> [body : Bodies \cup {None}, sess : Nat]]
    BY <1>1, <1>2
  <2> QED BY <1>1, <1>2, <2>1, <2>3, <2>4, CheckoutFrame
<1>3. CASE /\ intents' = Append(intents, [grp |-> co[r].grp, body |-> co[r].body, st |-> "pending", sess |-> 0])
           /\ co' = [co EXCEPT ![r].pc = "session", ![r].row = Len(intents) + 1]
           /\ UNCHANGED answers
  <2>1. [grp |-> co[r].grp, body |-> co[r].body, st |-> "pending", sess |-> 0] \in Intent
    BY <1>1 DEF Intent
  <2>2. /\ intents' \in Seq(Intent) /\ Len(intents') = Len(intents) + 1
        /\ intents'[Len(intents) + 1].body = co[r].body /\ intents'[Len(intents) + 1].sess = 0
        /\ \A k \in 1 .. Len(intents) : intents'[k] = intents[k]
    BY <1>1, <1>3, <2>1
  <2>3. CheckoutTypeOK'
    <3> DEFINE n == Len(intents) + 1
    <3>1. /\ n \in Nat /\ n \in 1 .. Len(intents') /\ Len(intents) <= Len(intents')
          /\ intents'[n].body = co[r].body /\ \A k \in 1 .. Len(intents) : intents'[k].body = intents[k].body
      BY <1>1, <2>2
    <3>2. co' = [co EXCEPT ![r].pc = "session", ![r].row = n] /\ UNCHANGED answers
      BY <1>3
    <3> HIDE DEF n
    <3> QED BY <1>2, <2>2, <3>1, <3>2
  <2>4. \A k \in 1 .. Len(intents') : k \in 1 .. Len(intents) \/ k = Len(intents) + 1
    BY <1>1, <2>2
  <2> QED BY <1>1, <1>3, <2>2, <2>3, <2>4, OwnFrame
<1>4. ASSUME NEW k \in ActiveIntents(co[r].grp),
             intents' = [intents EXCEPT ![k].st = "conflict"], EndCo(r), UNCHANGED answers
      PROVE  CheckoutTypeOK' /\ OwnInv'
  <2>1. k \in 1 .. Len(intents) /\ intents[k] \in Intent
    BY <1>1 DEF ActiveIntents
  <2> DEFINE w == [intents[k] EXCEPT !.st = "conflict"]
  <2>2. w \in Intent /\ w.body = intents[k].body /\ w.sess = intents[k].sess /\ intents' = [intents EXCEPT ![k] = w]
    BY <1>4, <2>1 DEF Intent
  <2> HIDE DEF w
  <2>3. /\ intents' \in Seq(Intent) /\ Len(intents') = Len(intents)
        /\ \A j \in 1 .. Len(intents) : intents'[j].body = intents[j].body /\ intents'[j].sess = intents[j].sess
    BY <1>1, <2>1, <2>2
  <2>4. co' = [co EXCEPT ![r] = Waiting] /\ co'[r] = Waiting /\ Waiting \in Checkout
    BY <1>4, CoGiven, WaitingTyped DEF EndCo
  <2>5. CheckoutOK(r)'
    BY <1>1, <2>3, <2>4, WaitingTyped DEF CheckoutOK
  <2>6. Len(intents) <= Len(intents') /\ answers' \subseteq Bodies \X Nat
        /\ memory' \in [Server -> [body : Bodies \cup {None}, sess : Nat]]
    BY <1>1, <1>4, <2>3
  <2> HIDE DEF Waiting
  <2>7. CheckoutTypeOK'
    BY <1>1, <2>3, <2>4, <2>5, <2>6, CheckoutFrame
  <2> QED BY <1>1, <1>4, <2>3, <2>7, OwnFrame
<1>5. ASSUME NEW k \in ActiveIntents(co[r].grp), intents[k].body = co[r].body, UNCHANGED intents,
             \/ intents[k].sess # 0 /\ Tell(co[r].body, intents[k].sess) /\ EndCo(r)
             \/ co' = [co EXCEPT ![r].pc = "session", ![r].row = k] /\ UNCHANGED answers
      PROVE  CheckoutTypeOK' /\ OwnInv'
  <2>0. k \in 1 .. Len(intents) /\ intents[k] \in Intent
    BY <1>1 DEF ActiveIntents
  <2>1. k \in 1 .. Len(intents) /\ intents[k].sess \in Nat
    BY <2>0 DEF Intent
  <2>2. CASE co' = [co EXCEPT ![r].pc = "session", ![r].row = k] /\ UNCHANGED answers
    <3>1. CheckoutTypeOK'
      <4>1. k \in Nat /\ intents' \in Seq(Intent) /\ Len(intents) <= Len(intents') /\ k \in 1 .. Len(intents')
            /\ intents'[k].body = co[r].body /\ \A j \in 1 .. Len(intents) : intents'[j].body = intents[j].body
        BY <1>1, <1>5, <2>1
      <4> QED BY <1>2, <2>2, <4>1
    <3> QED BY <1>1, <1>5, <2>2, <3>1, OwnFrame
  <2>3. CASE intents[k].sess # 0 /\ Tell(co[r].body, intents[k].sess) /\ EndCo(r)
    <3>1. MadeFor(intents[k].sess, co[r].body)
      BY <1>5, <2>1, <2>3 DEF OwnInv
    <3>2. answers' = answers \cup {<<co[r].body, intents[k].sess>>} /\ answers' \subseteq Bodies \X Nat
      BY <1>1, <2>1, <2>3 DEF Tell
    <3>3. CheckoutTypeOK'
      BY <1>1, <1>5, <2>3, <3>2, EndTypes
    <3>4. OwnInv'
      BY <1>1, <1>5, <3>1, <3>2 DEF OwnInv, MadeFor, Sessions
    <3> QED BY <3>3, <3>4
  <2> QED BY <1>5, <2>2, <2>3
<1>6. CASE \E k \in ActiveIntents(co[r].grp) :
            IF ~compare_idempotent_request(intents[k].body, co[r].body)
            THEN /\ intents' = [intents EXCEPT ![k].st = "conflict"]
                 /\ EndCo(r) /\ Trouble("conflict") /\ UNCHANGED answers
            ELSE /\ UNCHANGED <<intents, trouble>>
                 /\ IF intents[k].sess # 0 THEN Tell(co[r].body, intents[k].sess) /\ EndCo(r)
                    ELSE co' = [co EXCEPT ![r].pc = "session", ![r].row = k] /\ UNCHANGED answers
  <2>1. PICK k \in ActiveIntents(co[r].grp) :
            IF intents[k].body # co[r].body
            THEN /\ intents' = [intents EXCEPT ![k].st = "conflict"]
                 /\ EndCo(r) /\ Trouble("conflict") /\ UNCHANGED answers
            ELSE /\ UNCHANGED <<intents, trouble>>
                 /\ IF intents[k].sess # 0 THEN Tell(co[r].body, intents[k].sess) /\ EndCo(r)
                    ELSE co' = [co EXCEPT ![r].pc = "session", ![r].row = k] /\ UNCHANGED answers
    BY <1>6 DEF compare_idempotent_request
  <2>2. CASE intents[k].body # co[r].body
    BY <1>4, <2>1, <2>2
  <2>3. CASE intents[k].body = co[r].body
    BY <1>5, <2>1, <2>3
  <2> QED BY <2>2, <2>3
<1> QED BY <1>3, <1>6 DEF begin_checkout_intent

LEMMA BeginQuiet ==
  ASSUME CheckoutTypeOK, NEW r \in Server, begin_checkout_intent(r), trouble' = {}, UNCHANGED att
  PROVE  trouble = {} /\ (QuietInv => QuietInv')
<1>1. /\ co[r].pc = "begin" /\ co[r] \in Checkout /\ intents \in Seq(Intent) /\ Len(intents) \in Nat
      /\ UNCHANGED <<sessions, memory>>
  BY CoGiven DEF begin_checkout_intent, CoAt, CheckoutTypeOK
<1>2. trouble = {}
  BY DEF begin_checkout_intent, Trouble
<1> SUFFICES ASSUME QuietInv PROVE QuietInv'
  BY <1>2
<1>3. /\ co[r].grp = att[Project] /\ \A q \in Server \ {r} : co[q].pc = "idle"
      /\ \A k \in 1 .. Len(intents) : intents[k].grp = att[Project] /\ intents[k].st \in {"pending", "completed"}
      /\ Len(intents) \in {0, 1}
  BY <1>1 DEF QuietInv
<1>4. ActiveIntents(co[r].grp) = 1 .. Len(intents)
  BY <1>3 DEF ActiveIntents
<1>5. \A q \in Server : memory[q] # Nothing => AnswerIs(memory[q].sess)
  BY <1>1, <1>3 DEF QuietInv
<1>6. ASSUME NEW o, co' = [co EXCEPT ![r] = o], o.pc \in {"idle", "session"}, o.grp = co[r].grp \/ o.pc = "idle"
      PROVE  /\ co'[r] = o /\ \A q \in Server : q # r => co'[q].pc = "idle"
             /\ \A q \in Server : co'[q].pc # "idle" => q = r /\ co'[q].grp = att[Project]
  <2>1. co'[r] = o /\ \A q \in Server \ {r} : co'[q] = co[q]
    BY <1>6, CoGiven
  <2> QED BY <1>3, <1>6, <2>1
<1>7. CASE /\ ActiveIntents(co[r].grp) = {}
           /\ intents' = Append(intents, [grp |-> co[r].grp, body |-> co[r].body, st |-> "pending", sess |-> 0])
           /\ co' = [co EXCEPT ![r].pc = "session", ![r].row = Len(intents) + 1]
           /\ UNCHANGED answers
  <2> DEFINE o == [co[r] EXCEPT !.pc = "session", !.row = Len(intents) + 1]
  <2>1. Len(intents) = 0
    BY <1>1, <1>3, <1>4, <1>7
  <2>2. co' = [co EXCEPT ![r] = o] /\ o.pc = "session" /\ o.row = 1 /\ o.grp = co[r].grp
    <3>1. co' = [co EXCEPT ![r] = o]
      BY <1>7
    <3>2. Len(intents) + 1 = 1
      BY <2>1
    <3> QED BY <1>1, <3>1, <3>2 DEF Checkout
  <2>3. Len(intents') = 1 /\ intents'[1].sess = 0 /\ intents'[1].grp = att[Project] /\ intents'[1].st = "pending"
    BY <1>1, <1>3, <1>7, <2>1
  <2>4. answers = {} /\ \A q \in Server : memory[q] = Nothing
    BY <1>5, <2>1 DEF QuietInv, AnswerIs
  <2> HIDE DEF o
  <2>5. /\ co'[r] = o /\ \A q \in Server : q # r => co'[q].pc = "idle"
        /\ \A q \in Server : co'[q].pc # "idle" => q = r /\ co'[q].grp = att[Project]
    BY <1>6, <2>2
  <2>6. /\ \A q, s \in Server : co'[q].pc # "idle" /\ co'[s].pc # "idle" => q = s
        /\ \A q \in Server : co'[q].pc \in {"session", "complete"} => co'[q].row = 1
    BY <2>2, <2>5
  <2>7. \A k \in 1 .. Len(intents') : intents'[k].grp = att[Project] /\ intents'[k].st \in {"pending", "completed"}
    BY <2>3
  <2> QED BY <1>1, <1>7, <2>3, <2>4, <2>5, <2>6, <2>7 DEF QuietInv, AnswerIs
<1>8. ASSUME NEW k \in ActiveIntents(co[r].grp), intents[k].sess # 0, UNCHANGED intents,
             Tell(co[r].body, intents[k].sess), EndCo(r)
      PROVE  QuietInv'
  <2>1. k = 1 /\ Len(intents) = 1
    BY <1>1, <1>3, <1>4
  <2>2. /\ co'[r] = Waiting /\ \A q \in Server : co'[q].pc = "idle"
    BY <1>6, <1>8, WaitingTyped DEF EndCo
  <2>3. \A x \in answers' : x \in answers \/ x[2] = intents[1].sess
    BY <1>8, <2>1 DEF Tell
  <2> QED BY <1>1, <1>3, <1>5, <1>8, <2>1, <2>2, <2>3 DEF QuietInv, AnswerIs
<1>9. ASSUME NEW k \in ActiveIntents(co[r].grp), intents[k].sess = 0, UNCHANGED <<intents, answers>>,
             co' = [co EXCEPT ![r].pc = "session", ![r].row = k]
      PROVE  QuietInv'
  <2> DEFINE o == [co[r] EXCEPT !.pc = "session", !.row = k]
  <2>1. k = 1 /\ Len(intents) = 1
    BY <1>1, <1>3, <1>4
  <2>2. co' = [co EXCEPT ![r] = o] /\ o.pc = "session" /\ o.row = 1 /\ o.grp = co[r].grp
    BY <1>1, <1>9, <2>1 DEF Checkout
  <2> HIDE DEF o
  <2>3. /\ co'[r] = o /\ \A q \in Server : q # r => co'[q].pc = "idle"
        /\ \A q \in Server : co'[q].pc # "idle" => q = r /\ co'[q].grp = att[Project]
    BY <1>6, <2>2
  <2> QED BY <1>1, <1>3, <1>5, <1>9, <2>1, <2>2, <2>3 DEF QuietInv, AnswerIs
<1>10. CASE \E k \in ActiveIntents(co[r].grp) :
            IF ~compare_idempotent_request(intents[k].body, co[r].body)
            THEN /\ intents' = [intents EXCEPT ![k].st = "conflict"]
                 /\ EndCo(r) /\ Trouble("conflict") /\ UNCHANGED answers
            ELSE /\ UNCHANGED <<intents, trouble>>
                 /\ IF intents[k].sess # 0 THEN Tell(co[r].body, intents[k].sess) /\ EndCo(r)
                    ELSE co' = [co EXCEPT ![r].pc = "session", ![r].row = k] /\ UNCHANGED answers
  BY <1>8, <1>9, <1>10 DEF Trouble
<1> QED BY <1>7, <1>10 DEF begin_checkout_intent

\* The session is made.
LEMMA SessionKeeps ==
  ASSUME CheckoutTypeOK, OwnInv, NEW r \in Server, create_checkout_session(r), UNCHANGED att
  PROVE  CheckoutTypeOK' /\ OwnInv' /\ UNCHANGED trouble /\ (QuietInv => QuietInv')
<1> DEFINE n == Len(sessions) + 1
           b == co[r].body
           o == [co[r] EXCEPT !.pc = "complete", !.sess = n]
           m == [body |-> b, sess |-> n]
<1>1. /\ co[r].pc = "session" /\ co[r] \in Checkout /\ b \in Bodies /\ co[r].grp \in Groups
      /\ sessions \in Seq(Bodies \cup {None}) /\ sessions' = Append(sessions, b)
      /\ n \in Nat /\ n # 0
      /\ co' = [co EXCEPT ![r] = o] /\ memory' = [memory EXCEPT ![r] = m] /\ UNCHANGED <<intents, answers, trouble>>
  <2>1. co[r].pc = "session" /\ co[r] \in Checkout /\ CheckoutOK(r) /\ sessions \in Seq(Bodies \cup {None})
    BY CoGiven DEF create_checkout_session, CoAt, CheckoutTypeOK
  <2>2. b \in Bodies /\ co[r].grp \in Groups /\ n \in Nat /\ n # 0
    BY <2>1 DEF CheckoutOK
  <2>3. co' = [co EXCEPT ![r] = o] /\ memory' = [memory EXCEPT ![r] = m]
    BY DEF create_checkout_session
  <2> QED BY <2>1, <2>2, <2>3 DEF create_checkout_session
<1>2. Len(sessions') = n /\ sessions'[n] = b
  BY <1>1
<1>3. /\ o \in Checkout /\ o.pc = "complete" /\ o.row = co[r].row /\ o.body = b /\ o.grp = co[r].grp /\ o.sess = n
      /\ m \in [body : Bodies \cup {None}, sess : Nat] /\ m.sess = n /\ m.body = b
  BY <1>1 DEF Checkout
<1> HIDE DEF n, b, o, m
<1>4. co'[r] = o /\ \A q \in Server \ {r} : co'[q] = co[q]
  BY <1>1, CoGiven
<1>5. memory'[r] = m /\ \A q \in Server \ {r} : memory'[q] = memory[q]
  BY <1>1 DEF CheckoutTypeOK
<1>6. MadeFor(co[r].sess, co[r].body)' /\ MadeFor(memory[r].sess, memory[r].body)'
  BY <1>1, <1>2, <1>3, <1>4, <1>5 DEF MadeFor, Sessions
<1>7. CheckoutOK(r)'
  BY <1>1, <1>3, <1>4, <1>6, CoGiven DEF CheckoutOK, b
<1>8. CheckoutTypeOK'
  <2>1. /\ intents' \in Seq(Intent) /\ Len(intents) <= Len(intents') /\ answers' \subseteq Bodies \X Nat
        /\ memory' \in [Server -> [body : Bodies \cup {None}, sess : Nat]]
    BY <1>1, <1>3 DEF CheckoutTypeOK
  <2> QED BY <1>1, <1>3, <1>7, <2>1, CheckoutFrame
<1>9. OwnInv'
  BY <1>1, <1>5, <1>6, OwnFrame
<1>10. ASSUME QuietInv PROVE QuietInv'
  <2>1. /\ co[r].row = 1 /\ AnswerIs(0) /\ co[r].grp = att[Project] /\ \A q \in Server \ {r} : co[q].pc = "idle"
    BY <1>1, <1>10 DEF QuietInv
  <2>2. \A q \in Server \ {r} : co'[q].pc = "idle" /\ (memory'[q] # Nothing => AnswerIs(memory[q].sess))
    BY <1>4, <1>5, <1>10, <2>1 DEF QuietInv
  <2> QED BY <1>1, <1>3, <1>4, <1>5, <1>10, <2>1, <2>2 DEF QuietInv, AnswerIs
<1> QED BY <1>1, <1>8, <1>9, <1>10

\* The answer is stored with the row.
LEMMA CompleteKeeps ==
  ASSUME CheckoutTypeOK, OwnInv, NEW r \in Server, complete_checkout_intent(r), UNCHANGED att
  PROVE  CheckoutTypeOK' /\ OwnInv' /\ UNCHANGED trouble /\ (QuietInv => QuietInv')
<1> DEFINE k == co[r].row
           n == co[r].sess
           b == co[r].body
<1>1. /\ co[r].pc = "complete" /\ co[r] \in Checkout /\ b \in Bodies /\ MadeFor(n, b) /\ n \in Nat /\ n # 0
      /\ k \in 0 .. Len(intents) /\ (k # 0 => intents[k].body = b)
      /\ intents \in Seq(Intent) /\ Len(intents) \in Nat
      /\ memory \in [Server -> [body : Bodies \cup {None}, sess : Nat]] /\ answers \subseteq Bodies \X Nat
  BY CoGiven DEF complete_checkout_intent, CoAt, CheckoutOK, CheckoutTypeOK, Checkout, MadeFor, Sessions
<1>2. /\ EndCo(r) /\ answers' = answers \cup {<<b, n>>} /\ UNCHANGED <<memory, sessions, trouble>>
      /\ \/ UNCHANGED intents /\ (k = 0 \/ intents[k].st = "deleted" \/ ActiveIntents(co[r].grp) \ {k} # {})
         \/ k # 0 /\ intents' = [intents EXCEPT ![k] = [intents[k] EXCEPT !.st = "completed", !.sess = n]]
  BY DEF complete_checkout_intent, Tell
<1> HIDE DEF k, n, b
<1>3. /\ intents' \in Seq(Intent) /\ Len(intents') = Len(intents)
      /\ \A j \in 1 .. Len(intents) :
            /\ intents'[j].body = intents[j].body /\ intents'[j].grp = intents[j].grp
            /\ intents'[j] = intents[j] \/ (j = k /\ intents'[j].sess = n /\ intents'[j].st = "completed")
  <2>1. CASE UNCHANGED intents
    BY <1>1, <2>1
  <2>2. CASE k # 0 /\ intents' = [intents EXCEPT ![k] = [intents[k] EXCEPT !.st = "completed", !.sess = n]]
    <3> DEFINE w == [intents[k] EXCEPT !.st = "completed", !.sess = n]
    <3>1. k \in 1 .. Len(intents) /\ intents[k] \in Intent
      BY <1>1, <2>2
    <3>2. w \in Intent /\ w.body = intents[k].body /\ w.grp = intents[k].grp /\ w.sess = n /\ w.st = "completed"
      BY <1>1, <3>1 DEF Intent
    <3>3. intents' = [intents EXCEPT ![k] = w]
      BY <2>2
    <3> HIDE DEF w
    <3> QED BY <1>1, <3>1, <3>2, <3>3
  <2> QED BY <1>2, <2>1, <2>2
<1>4. co' = [co EXCEPT ![r] = Waiting] /\ co'[r] = Waiting /\ Waiting \in Checkout
      /\ \A q \in Server \ {r} : co'[q] = co[q]
  BY <1>2, CoGiven, WaitingTyped DEF EndCo
<1>5. CheckoutOK(r)'
  BY <1>1, <1>3, <1>4, WaitingTyped DEF CheckoutOK
<1>6. CheckoutTypeOK'
  <2>1. /\ Len(intents) <= Len(intents') /\ answers' \subseteq Bodies \X Nat
        /\ memory' \in [Server -> [body : Bodies \cup {None}, sess : Nat]] /\ UNCHANGED sessions
        /\ \A j \in 1 .. Len(intents) : intents'[j].body = intents[j].body
    BY <1>1, <1>2, <1>3
  <2> HIDE DEF Waiting
  <2> QED BY <1>3, <1>4, <1>5, <2>1, CheckoutFrame
<1>7. OwnInv'
  <2>1. \A j \in 1 .. Len(intents') : \/ intents'[j].sess = intents[j].sess /\ intents'[j].body = intents[j].body
                                      \/ intents'[j].sess = n /\ intents'[j].body = b
    BY <1>1, <1>3
  <2> QED BY <1>1, <1>2, <1>3, <2>1 DEF OwnInv, MadeFor, Sessions
<1>8. ASSUME QuietInv PROVE QuietInv'
  <2>1. /\ k = 1 /\ AnswerIs(0) /\ \A q \in Server \ {r} : co[q].pc = "idle"
        /\ \A j \in 1 .. Len(intents) : intents[j].grp = att[Project] /\ intents[j].st \in {"pending", "completed"}
        /\ \A q \in Server : memory[q] # Nothing => AnswerIs(memory[q].sess) \/ memory[q].sess = n
    BY <1>1, <1>8 DEF QuietInv, k, n
  <2>2. ActiveIntents(co[r].grp) \ {k} = {} /\ intents[k].st # "deleted"
    BY <2>1 DEF ActiveIntents, AnswerIs
  <2>3. intents'[1].sess = n
    <3>1. intents' = [intents EXCEPT ![k] = [intents[k] EXCEPT !.st = "completed", !.sess = n]]
      BY <1>2, <2>1, <2>2
    <3>2. intents[1] \in Intent /\ 1 \in DOMAIN intents
      <4>1. DOMAIN intents = 1 .. Len(intents) /\ 1 \in 1 .. Len(intents)
        BY <1>1, <2>1 DEF AnswerIs
      <4> QED BY <1>1, <4>1
    <3> QED BY <2>1, <3>1, <3>2 DEF Intent
  <2>4. \A q \in Server : memory[q] # Nothing => memory[q].sess \in Nat \ {0}
    BY CoGiven DEF OwnInv, MadeFor, Sessions
  <2>5. answers = {} /\ \A q \in Server : memory[q] # Nothing => memory[q].sess = n
    <3>1. \A x \in answers : x[2] # 0
      BY DEF OwnInv, MadeFor, Sessions
    <3> QED BY <1>8, <2>1, <2>4, <3>1 DEF QuietInv, AnswerIs
  <2>6. Len(intents') = 1 /\ \A q \in Server : co'[q].pc = "idle"
    BY <1>3, <1>4, <2>1, WaitingTyped DEF AnswerIs
  <2>7. \A x \in answers' : x[2] = n
    BY <1>2, <2>5
  <2>8. \A j \in 1 .. Len(intents') : intents'[j].grp = att[Project] /\ intents'[j].st \in {"pending", "completed"}
    BY <1>3, <2>1
  <2> QED BY <1>2, <2>3, <2>5, <2>6, <2>7, <2>8 DEF QuietInv, AnswerIs
<1> QED BY <1>2, <1>6, <1>7, <1>8

\* The checkout goes on without a row.
LEMMA UnrecordedKeeps ==
  ASSUME CheckoutTypeOK, OwnInv, NEW r \in Server, _begin_checkout_with_db_fails(r)
  PROVE  CheckoutTypeOK' /\ OwnInv' /\ trouble' # {}
<1> DEFINE o == [co[r] EXCEPT !.pc = "session"]
<1>1. /\ co[r].pc = "begin" /\ co[r] \in Checkout /\ CheckoutOK(r) /\ co' = [co EXCEPT ![r] = o]
      /\ UNCHANGED <<intents, memory, sessions, answers>> /\ trouble' # {}
  BY CoGiven DEF _begin_checkout_with_db_fails, CoAt, Trouble
<1>2. /\ o \in Checkout /\ o.pc = "session" /\ o.row = co[r].row /\ o.body = co[r].body /\ o.grp = co[r].grp
  BY <1>1 DEF Checkout
<1> HIDE DEF o
<1>3. co'[r] = o
  BY <1>1, CoGiven
<1>4. CheckoutOK(r)'
  BY <1>1, <1>2, <1>3 DEF CheckoutOK
<1>5. /\ intents' \in Seq(Intent) /\ Len(intents) <= Len(intents') /\ answers' \subseteq Bodies \X Nat
      /\ memory' \in [Server -> [body : Bodies \cup {None}, sess : Nat]]
  BY <1>1 DEF CheckoutTypeOK
<1>6. CheckoutTypeOK'
  BY <1>1, <1>2, <1>4, <1>5, CheckoutFrame
<1> QED BY <1>1, <1>6, OwnFrame

\* A replica gives up, tells its answer without storing it, or dies.
LEMMA EndKeeps ==
  ASSUME CheckoutTypeOK, OwnInv, NEW r \in Server, UNCHANGED att,
         CheckoutFails(r) \/ CompleteFails(r) \/ ServerDies(r)
  PROVE  /\ CheckoutTypeOK' /\ OwnInv'
         /\ trouble' = {} => trouble = {} /\ (QuietInv => QuietInv')
<1>1. /\ EndCo(r) /\ UNCHANGED <<intents, sessions>>
      /\ \/ UNCHANGED memory \/ memory' = [memory EXCEPT ![r] = Nothing]
      /\ \/ UNCHANGED answers
         \/ co[r].pc = "complete" /\ answers' = answers \cup {<<co[r].body, co[r].sess>>}
  BY DEF CheckoutFails, CompleteFails, ServerDies, Tell, CoAt
<1>2. /\ memory' \in [Server -> [body : Bodies \cup {None}, sess : Nat]]
      /\ \A q \in Server : memory'[q] = memory[q] \/ memory'[q] = Nothing
  <2>1. Nothing \in [body : Bodies \cup {None}, sess : Nat]
    BY DEF Nothing
  <2> QED BY <1>1, <2>1 DEF CheckoutTypeOK
<1>3. co[r].pc = "complete" => MadeFor(co[r].sess, co[r].body) /\ co[r].body \in Bodies /\ co[r].sess \in Nat
  BY CoGiven DEF CheckoutOK, Checkout
<1>4. answers' \subseteq Bodies \X Nat
  BY <1>1, <1>3 DEF CheckoutTypeOK
<1>5. \A x \in answers' : x \in answers \/ MadeFor(x[2], x[1])
  BY <1>1, <1>3
<1>6. CheckoutTypeOK'
  BY <1>1, <1>2, <1>4, EndTypes
<1>7. OwnInv'
  BY <1>1, <1>2, <1>5 DEF OwnInv, MadeFor, Sessions
<1>8. ASSUME trouble' = {}, QuietInv PROVE QuietInv'
  <2>1. co[r].pc = "session" /\ UNCHANGED <<intents, memory, answers, att>> /\ EndCo(r)
    BY <1>8 DEF CheckoutFails, CompleteFails, ServerDies, Trouble, CoAt
  <2>2. co'[r] = Waiting /\ Waiting.pc = "idle" /\ \A q \in Server \ {r} : co'[q] = co[q]
    BY <2>1, CoGiven, WaitingTyped DEF EndCo
  <2> QED BY <1>8, <2>1, <2>2 DEF QuietInv, AnswerIs
<1>9. trouble \subseteq trouble'
  BY DEF CheckoutFails, CompleteFails, ServerDies, Trouble
<1> QED BY <1>6, <1>7, <1>8, <1>9

LEMMA PortalKeeps ==
  ASSUME CheckoutTypeOK, OwnInv, NEW r \in Server, create_internal_billing_portal(r)
  PROVE  CheckoutTypeOK' /\ OwnInv' /\ UNCHANGED trouble /\ (QuietInv => QuietInv')
<1>1. /\ sessions' = Append(sessions, None) /\ UNCHANGED <<att, intents, memory, co, answers, trouble>>
  BY DEF create_internal_billing_portal, groups
<1>2. co' = [co EXCEPT ![r] = co[r]] /\ co[r] \in Checkout /\ CheckoutOK(r) /\ co[r].sess \in Nat
  BY <1>1, CoGiven DEF CheckoutTypeOK, Checkout
<1>3. CheckoutOK(r)'
  <2>1. \A n \in Nat : \A b : MadeFor(n, b) => MadeFor(n, b)'
    BY <1>1, SessionsGrow
  <2>2. PICK w : w = co[r] /\ co'[r] = w
    BY <1>1
  <2>3. w.pc = "complete" => MadeFor(w.sess, w.body)'
    BY <1>2, <2>1, <2>2 DEF CheckoutOK
  <2> QED BY <1>1, <1>2, <2>2, <2>3 DEF CheckoutOK, MadeFor
<1>4. /\ intents' \in Seq(Intent) /\ Len(intents) <= Len(intents') /\ answers' \subseteq Bodies \X Nat
      /\ memory' \in [Server -> [body : Bodies \cup {None}, sess : Nat]]
  BY <1>1 DEF CheckoutTypeOK
<1>5. CheckoutTypeOK'
  BY <1>1, <1>2, <1>3, <1>4, CheckoutFrame
<1>6. OwnInv'
  BY <1>1, OwnFrame
<1> QED BY <1>1, <1>5, <1>6 DEF QuietInv, AnswerIs

\* No step at all.
LEMMA RestKeeps ==
  ASSUME CheckoutTypeOK, OwnInv, UNCHANGED checkoutVars
  PROVE  CheckoutTypeOK' /\ OwnInv' /\ UNCHANGED trouble /\ (ProjectStays /\ QuietInv => QuietInv')
<1>1. CheckoutTypeOK' /\ OwnInv'
  BY DEF checkoutVars, CheckoutTypeOK, CheckoutOK, OwnInv, MadeFor, Sessions
<1>2. ASSUME ProjectStays, QuietInv PROVE QuietInv'
  <2>1. \A r \in Server : co[r].pc # "idle" => co[r].grp \in Groups /\ co[r].grp = att[Project]
    BY <1>2, CoGiven DEF CheckoutOK, QuietInv
  <2>2. \A k \in 1 .. Len(intents) : intents[k].grp \in Groups /\ intents[k].grp = att[Project]
    <3> SUFFICES ASSUME NEW k \in 1 .. Len(intents) PROVE intents[k].grp \in Groups /\ intents[k].grp = att[Project]
      OBVIOUS
    <3>1. intents[k] \in Intent
      BY DEF CheckoutTypeOK
    <3> QED BY <1>2, <3>1 DEF QuietInv, Intent
  <2>3. att[Project] \in Groups => att'[Project] = att[Project]
    BY <1>2, CatalogAssumption DEF ProjectStays
  <2> QED BY <1>2, <2>1, <2>2, <2>3 DEF QuietInv, AnswerIs, checkoutVars
<1> QED BY <1>1, <1>2 DEF checkoutVars

\* A group that is deleted holds no project any more.
LEMMA DeletedDetaches ==
  ASSUME CatalogTypeOK, GroupStep \/ (\E a \in Callers, g \in Groups : CatalogRequest(a, g)) \/ CatalogStep
  PROVE  att[Project] \in Deleted => att'[Project] = None
<1>1. grp \in [Groups -> GroupRow]
  BY DEF CatalogTypeOK
<1>2. \A r : Stored(r).st = r.st
  BY DEF Stored
<1>3. CASE UNCHANGED grp
  BY <1>3 DEF Deleted, _require_group
<1>4. ASSUME NEW h \in Groups, NEW r, r.st # "none", grp' = [grp EXCEPT ![h] = r] PROVE Deleted = {}
  BY <1>1, <1>4 DEF Deleted, _require_group
<1>5. ASSUME NEW a \in Callers, NEW h \in Groups, delete_group(a, h) PROVE att[Project] \in Deleted => att'[Project] = None
  <2>1. \A g \in Groups \ {h} : grp'[g] = grp[g]
    BY <1>1, <1>5 DEF delete_group
  <2>2. Deleted \subseteq {h}
    BY <2>1 DEF Deleted, _require_group
  <2> QED BY <1>5, <2>2, CheckoutAssumption DEF delete_group
<1>6. CASE \E a \in Callers, h \in Groups :
              \/ create_group(a, h) \/ \E s \in {"active", "suspended", "archived"} : update_group(a, h, s)
              \/ \E c \in Caps, on \in BOOLEAN : update_capabilities(a, h, c, on)
              \/ \E k, c \in {"value", "omitted", "empty"} : _apply_credentials(a, h, k, c)
  <2>1. PICK a \in Callers, h \in Groups :
              \/ create_group(a, h) \/ \E s \in {"active", "suspended", "archived"} : update_group(a, h, s)
              \/ \E c \in Caps, on \in BOOLEAN : update_capabilities(a, h, c, on)
              \/ \E k, c \in {"value", "omitted", "empty"} : _apply_credentials(a, h, k, c)
    BY <1>6
  <2>2. CASE create_group(a, h)
    <3>1. [NoGroup EXCEPT !.st = "active", !.owner = a].st # "none"
      BY DEF NoGroup
    <3> QED BY <1>4, <2>2, <3>1 DEF create_group
  <2>3. ASSUME NEW s \in {"active", "suspended", "archived"}, update_group(a, h, s) PROVE Deleted = {}
    <3>1. Stored([grp[h] EXCEPT !.st = s]).st # "none"
      BY <1>1, <1>2 DEF GroupRow
    <3> QED BY <1>4, <2>3, <3>1 DEF update_group
  <2>4. ASSUME NEW c \in Caps, NEW on \in BOOLEAN, update_capabilities(a, h, c, on) PROVE Deleted = {}
    <3> DEFINE n == [grp[h] EXCEPT !.caps = IF on THEN @ \cup {c} ELSE @ \ {c}]
    <3>1. Stored(n).st # "none"
      BY <1>1, <1>2, <2>4 DEF GroupRow, update_capabilities, _require_scoped_group, _require_group
    <3>2. grp' = [grp EXCEPT ![h] = Stored(n)]
      BY <2>4, Zenon DEF update_capabilities
    <3> HIDE DEF n
    <3> QED BY <1>4, <3>1, <3>2
  <2>5. ASSUME NEW k, NEW c, _apply_credentials(a, h, k, c) PROVE Deleted = {}
    <3> DEFINE n == [grp[h] EXCEPT !.cred = "active", !.hook = _kept_or_sent(k, @),
                                    !.portal = _kept_or_sent(c, @)]
    <3>1. Stored(n).st # "none"
      BY <1>1, <1>2, <2>5 DEF GroupRow, _apply_credentials, _require_group
    <3>2. grp' = [grp EXCEPT ![h] = Stored(n)]
      BY <2>5, Zenon DEF _apply_credentials
    <3> HIDE DEF n
    <3> QED BY <1>4, <3>1, <3>2
  <2> QED BY <2>1, <2>2, <2>3, <2>4, <2>5
<1>8. CASE \E p \in Proc : attach_project_to_billing_group(p)
  BY <1>3, <1>8 DEF attach_project_to_billing_group
<1>9. CASE \E a \in Callers, g \in Groups : CatalogRequest(a, g)
  <2>1. PICK a \in Callers, g \in Groups, i \in Items :
          \/ \E p \in Proc, m \in Amounts : create_catalog_item(p, a, g, i, m) \/ update_catalog_item(p, a, g, i, m)
          \/ \E archived \in BOOLEAN : archive_catalog_item(a, g, i, archived)
          \/ delete_catalog_item(a, g, i) \/ \E p \in Proc : sync_catalog(p, a, g)
    BY <1>9 DEF CatalogRequest
  <2>2. UNCHANGED groups
    BY <2>1 DEF create_catalog_item, update_catalog_item, archive_catalog_item, delete_catalog_item, sync_catalog
  <2> QED BY <1>3, <2>2 DEF groups
<1>10. CASE CatalogStep
  BY <1>3, <1>10 DEF CatalogStep, reprovision_price, _provision, StripeFails, StoreRefs, _deactivate_price,
                     build_stripe_index, classify_catalog, ReconcileDone, Dies, reconcile_catalog_for_group,
                     import_selected_candidates, groups
<1>11. CASE \E a \in Callers, h \in Groups : delete_group(a, h)
  BY <1>5, <1>11
<1>12. CASE GroupStep
  <2>1. \/ \E p \in Proc : attach_project_to_billing_group(p)
        \/ \E g \in Groups : SubscriptionChanges(g)
        \/ \E a \in Callers, g \in Groups :
             \/ create_group(a, g) \/ delete_group(a, g)
             \/ \E s \in {"active", "suspended", "archived"} : update_group(a, g, s)
             \/ \E c \in Caps, on \in BOOLEAN : update_capabilities(a, g, c, on)
             \/ \E h, c \in {"value", "omitted", "empty"} : _apply_credentials(a, g, h, c)
             \/ \E x \in Projects : detach_project(a, g, x) \/ \E p \in Proc : attach_project(p, a, g, x)
    BY <1>12 DEF GroupStep
  <2>4. CASE \E a \in Callers, g \in Groups, x \in Projects :
               detach_project(a, g, x) \/ \E p \in Proc : attach_project(p, a, g, x)
    BY <1>3, <2>4 DEF detach_project, attach_project, groups
  <2>5. CASE \E g \in Groups : SubscriptionChanges(g)
    BY <1>3, <2>5 DEF SubscriptionChanges
  <2> QED BY <1>6, <1>8, <1>11, <2>1, <2>4, <2>5, Zenon
<1> QED BY <1>9, <1>10, <1>12

\* The catalog and the groups change; the rows of a deleted group go.
LEMMA MeanwhileKeeps ==
  ASSUME CheckoutTypeOK, OwnInv, CheckoutRows, att[Project] \in Deleted => att'[Project] = None
  PROVE  CheckoutTypeOK' /\ OwnInv' /\ UNCHANGED trouble /\ (ProjectStays /\ QuietInv => QuietInv')
<1>1. UNCHANGED <<memory, co, sessions, portal, answers, trouble>>
  BY DEF CheckoutRows
<1>2. intents \in Seq(Intent) /\ Len(intents) \in Nat /\ DOMAIN intents = 1 .. Len(intents)
  BY DEF CheckoutTypeOK
<1>3. ASSUME NEW k \in 1 .. Len(intents)
      PROVE  /\ intents'[k] \in Intent /\ intents'[k].body = intents[k].body /\ intents'[k].sess = intents[k].sess
             /\ intents[k].grp \notin Deleted => intents'[k] = intents[k]
  <2>1. intents[k] \in Intent
    BY <1>2
  <2>2. intents'[k] = IF intents[k].grp \in Deleted THEN [intents[k] EXCEPT !.st = "deleted"] ELSE intents[k]
    BY <1>2 DEF CheckoutRows
  <2> QED BY <2>1, <2>2 DEF Intent
<1>4. intents' \in Seq(Intent) /\ Len(intents') = Len(intents)
  <2>1. intents' = [k \in 1 .. Len(intents) |-> intents'[k]]
    BY <1>2 DEF CheckoutRows
  <2>2. intents' \in [1 .. Len(intents) -> Intent]
    BY <1>3, <2>1
  <2> QED BY <1>2, <2>2
<1>5. CheckoutTypeOK'
  <2>1. ASSUME NEW r \in Server PROVE CheckoutOK(r)'
    <3>1. CheckoutOK(r) /\ co[r].row \in Nat
      BY CoGiven DEF Checkout
    <3> QED BY <1>1, <1>2, <1>3, <1>4, <3>1 DEF CheckoutOK, MadeFor, Sessions
  <2> QED BY <1>1, <1>4, <2>1 DEF CheckoutTypeOK
<1>6. OwnInv'
  BY <1>1, <1>3, <1>4 DEF OwnInv, MadeFor, Sessions
<1>7. ASSUME ProjectStays, QuietInv PROVE QuietInv'
  <2>1. \A r \in Server : co[r].pc # "idle" => co[r].grp \in Groups /\ co[r].grp = att[Project]
    BY <1>7, CoGiven DEF CheckoutOK, QuietInv
  <2>2. ASSUME NEW k \in 1 .. Len(intents)
        PROVE  /\ att[Project] \in Groups /\ intents'[k] = intents[k]
               /\ intents[k].grp = att[Project] /\ intents[k].st \in {"pending", "completed"}
    <3>1. intents[k] \in Intent /\ intents[k].grp = att[Project] /\ intents[k].st \in {"pending", "completed"}
      BY <1>2, <1>7 DEF QuietInv
    <3>2. att[Project] \in Groups
      BY <3>1 DEF Intent
    <3>3. att[Project] \notin Deleted
      BY <1>7, <3>2, CatalogAssumption DEF ProjectStays
    <3> QED BY <1>3, <3>1, <3>2, <3>3
  <2>3. att[Project] \in Groups => att'[Project] = att[Project]
    BY <1>7, CatalogAssumption DEF ProjectStays
  <2>4. intents' = intents
    BY <1>2, <1>4, <2>2
  <2> QED BY <1>1, <1>7, <2>1, <2>2, <2>3, <2>4 DEF QuietInv, AnswerIs
<1> QED BY <1>1, <1>5, <1>6, <1>7

LEMMA CheckoutLeavesCatalog ==
  ASSUME CatalogTypeOK, CheckoutStep PROVE CatalogTypeOK' /\ UNCHANGED att
<1>1. UNCHANGED <<groups, item, stripe, op, catalogHistory>> /\ ops' \in Nat
  <2>1. PICK r \in Server :
          \/ \E b \in Bodies : create_internal_billing_checkout(r, b)
          \/ begin_checkout_intent(r) \/ _begin_checkout_with_db_fails(r)
          \/ create_checkout_session(r) \/ CheckoutFails(r)
          \/ complete_checkout_intent(r) \/ CompleteFails(r)
          \/ create_internal_billing_portal(r) \/ ServerDies(r)
    BY DEF CheckoutStep
  <2>2. CASE (\E b \in Bodies : create_internal_billing_checkout(r, b)) \/ create_internal_billing_portal(r)
    <3>1. UNCHANGED <<groups, item, stripe, op, catalogHistory>>
      BY <2>2, Zenon DEF create_internal_billing_checkout, create_internal_billing_portal
    <3>2. ops' = ops + 1 /\ ops \in Nat
      BY <2>2 DEF create_internal_billing_checkout, create_internal_billing_portal, Serve, CatalogTypeOK
    <3> QED BY <3>1, <3>2
  <2>3. CASE ~((\E b \in Bodies : create_internal_billing_checkout(r, b)) \/ create_internal_billing_portal(r))
    <3>1. UNCHANGED catalogVars
      BY <2>1, <2>3 DEF begin_checkout_intent, _begin_checkout_with_db_fails, create_checkout_session, CheckoutFails,
                        complete_checkout_intent, CompleteFails, ServerDies
    <3> QED BY <3>1 DEF catalogVars, CatalogTypeOK
  <2> QED BY <2>2, <2>3
<1>2. item' \in [Items -> Row] /\ \A i \in Items : RowOK(i)'
  BY <1>1, RowsStay DEF stripe, Known
<1> QED BY <1>1, <1>2, TypesQuiet DEF groups, catalogHistory, CatalogTypeOK

LEMMA BillingKeeps ==
  ASSUME CheckoutInv, BillingNext \/ UNCHANGED allVars
  PROVE  /\ CheckoutInv'
         /\ (trouble = {} => QuietInv) /\ (ProjectStays \/ UNCHANGED allVars) => (trouble' = {} => QuietInv')
<1>0. CatalogTypeOK /\ CheckoutTypeOK /\ OwnInv
  BY DEF CheckoutInv
<1>1. CASE CheckoutStep
  <2>0. CatalogTypeOK' /\ UNCHANGED att /\ att \in [Projects -> Groups \cup {None}]
    BY <1>0, <1>1, CheckoutLeavesCatalog DEF CatalogTypeOK
  <2>1. PICK r \in Server :
          \/ \E b \in Bodies : create_internal_billing_checkout(r, b)
          \/ begin_checkout_intent(r) \/ _begin_checkout_with_db_fails(r)
          \/ create_checkout_session(r) \/ CheckoutFails(r)
          \/ complete_checkout_intent(r) \/ CompleteFails(r)
          \/ create_internal_billing_portal(r) \/ ServerDies(r)
    BY <1>1 DEF CheckoutStep
  <2>2. /\ CheckoutTypeOK' /\ OwnInv'
        /\ trouble' = {} => trouble = {} /\ (QuietInv => QuietInv')
    <3>1. CASE \E b \in Bodies : create_internal_billing_checkout(r, b)
      BY <1>0, <2>0, <3>1, AskKeeps
    <3>2. CASE begin_checkout_intent(r)
      BY <1>0, <2>0, <3>2, BeginTypes, BeginQuiet
    <3>3. CASE _begin_checkout_with_db_fails(r)
      BY <1>0, <3>3, UnrecordedKeeps
    <3>4. CASE create_checkout_session(r)
      BY <1>0, <2>0, <3>4, SessionKeeps
    <3>5. CASE complete_checkout_intent(r)
      BY <1>0, <2>0, <3>5, CompleteKeeps
    <3>6. CASE CheckoutFails(r) \/ CompleteFails(r) \/ ServerDies(r)
      BY <1>0, <2>0, <3>6, EndKeeps
    <3>7. CASE create_internal_billing_portal(r)
      BY <1>0, <3>7, PortalKeeps
    <3> QED BY <2>1, <3>1, <3>2, <3>3, <3>4, <3>5, <3>6, <3>7
  <2> QED BY <2>0, <2>2 DEF CheckoutInv
<1>2. CASE /\ GroupStep \/ (\E a \in Callers, g \in Groups : CatalogRequest(a, g)) \/ CatalogStep
           /\ CheckoutRows
  <2>1. CatalogTypeOK'
    BY <1>0, <1>2, StepsTyped
  <2>2. ProjectStays \/ UNCHANGED allVars => ProjectStays
    BY DEF ProjectStays, allVars, catalogVars, groups
  <2>3. att[Project] \in Deleted => att'[Project] = None
    BY <1>0, <1>2, DeletedDetaches
  <2> QED BY <1>0, <1>2, <2>1, <2>2, <2>3, MeanwhileKeeps DEF CheckoutInv
<1>3. CASE UNCHANGED allVars
  <2>1. UNCHANGED catalogVars /\ UNCHANGED checkoutVars /\ ProjectStays
    BY <1>3 DEF allVars, ProjectStays, catalogVars, groups
  <2> QED BY <1>0, <2>1, StepsTyped, RestKeeps DEF CheckoutInv
<1> QED BY <1>1, <1>2, <1>3 DEF BillingNext

LEMMA BillingStarts == CatalogInit /\ CheckoutInit => CheckoutInv /\ QuietInv
<1> SUFFICES ASSUME CatalogInit, CheckoutInit PROVE CheckoutInv /\ QuietInv
  OBVIOUS
<1>1. /\ \A r \in Server : co[r] = Waiting /\ memory[r] = Nothing
      /\ Len(intents) = 0 /\ answers = {} /\ intents \in Seq(Intent) /\ sessions \in Seq(Bodies \cup {None})
      /\ co \in [Server -> Checkout] /\ memory \in [Server -> [body : Bodies \cup {None}, sess : Nat]]
  BY WaitingTyped DEF CheckoutInit, Nothing
<1>2. \A r \in Server : CheckoutOK(r)
  BY <1>1, WaitingTyped DEF CheckoutOK
<1> QED BY <1>1, <1>2, InitTypes, WaitingTyped DEF CheckoutInv, CheckoutTypeOK, OwnInv, QuietInv

\* A caller is only ever given a session that was made for its own body,
\* whatever fails, overlaps or moves.
THEOREM AnswersAreOwn == BillingSpec => []OwnInv
<1>1. CatalogInit /\ CheckoutInit => CheckoutInv
  BY BillingStarts
<1>2. CheckoutInv /\ [BillingNext]_allVars => CheckoutInv'
  BY BillingKeeps
<1>3. CheckoutInv => OwnInv
  BY DEF CheckoutInv
<1> QED BY <1>1, <1>2, <1>3, PTL DEF BillingSpec

\* Who repeats a checkout is told the same session on every replica, for the
\* exceptions AnswersAgree names, as long as the project stays in its group.
THEOREM RepeatsAgree == BillingSpec /\ [][ProjectStays]_allVars => []AnswersAgree
<1> DEFINE Inv == CheckoutInv /\ (trouble = {} => QuietInv)
<1>1. CatalogInit /\ CheckoutInit => Inv
  BY BillingStarts
<1>2. Inv /\ [BillingNext]_allVars /\ [ProjectStays]_allVars => Inv'
  BY BillingKeeps
<1>3. Inv => AnswersAgree
  <2> SUFFICES ASSUME Inv PROVE AnswersAgree
    OBVIOUS
  <2>1. \A x \in answers : sessions[x[2]] = x[1]
    BY DEF CheckoutInv, OwnInv, MadeFor
  <2>2. trouble = {} => \A x, y \in answers : x[2] = y[2]
    BY DEF QuietInv, AnswerIs
  <2> QED BY <2>1, <2>2 DEF AnswersAgree
<1> HIDE DEF Inv
<1> QED BY <1>1, <1>2, <1>3, PTL DEF BillingSpec

=============================================================================
