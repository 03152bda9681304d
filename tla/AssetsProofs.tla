----------------------------- MODULE AssetsProofs -----------------------------
(***************************************************************************)
(* For any assets, plans, cost and number of clerks: types, that an asset  *)
(* is never written down below zero, that the register is backed by        *)
(* entries and entries by postings, that one request at a time leaves      *)
(* ledger and register in agreement, and that a disposal stands.           *)
(*                                                                         *)
(* What a request has read may be out of date by the time it writes, so    *)
(* the invariant says of a request only what it will write: InHand, that   *)
(* this is within the cost and covered by entries.                         *)
(***************************************************************************)
EXTENDS Assets, SumTheorems

AssetRows == [status : Status, plan : Plans, acc : Nat, book : Int, disposal : Nat]

\* What is written of a request that is under way.
InHand(c) ==
    LET a == request[c].asset
    IN  /\ request[c].step = "idle" => request[c] = NoRequest
        /\ request[c].step # "idle" =>
              /\ a \in Asset /\ asset[a].status # "absent"
              /\ request[c].op \in {"depreciate", "dispose", "activate"}
        /\ request[c].op = "depreciate" =>
              /\ request[c].acc + request[c].amount <= Cost
              /\ request[c].acc <= opening[a] + recorded[a]
        /\ request[c].step = "entered" =>
              /\ request[c].op = "depreciate"
              /\ request[c].acc + request[c].amount <= opening[a] + recorded[a]
        /\ request[c].op = "dispose" =>
              request[c].status # "none" /\ (request[c].step = "posted" =>
                                                request[c].disposal \in 1..Len(disposals[a]))

RowInv(a) ==
    /\ asset[a].acc <= Cost /\ asset[a].book = Cost - asset[a].acc
    /\ asset[a].acc <= opening[a] + recorded[a]
    /\ asset[a].disposal \in 0..Len(disposals[a])
    /\ asset[a].status = "absent" => opening[a] = 0 /\ asset[a].acc = 0

AssetInv == AssetTypeOK /\ (\A a \in Asset : RowInv(a)) /\ \A c \in Clerks : InHand(c)

-----------------------------------------------------------------------------
(* Rows and requests *)

LEMMA PlanFacts ==
    ASSUME NEW p \in Plans
    PROVE  p.residual \in 0..Cost /\ p.life \in Nat \ {0} /\ p.method \in {"STRAIGHT_LINE", "DECLINING_BALANCE"}
BY PlansAssumption

LEMMA NewRow ==
    ASSUME NEW status \in Status, NEW p \in Plans, NEW acc \in Nat
    PROVE  /\ AssetRow(status, p, acc) \in AssetRows
           /\ AssetRow(status, p, acc).acc = acc /\ AssetRow(status, p, acc).book = Cost - acc
           /\ AssetRow(status, p, acc).disposal = 0 /\ AssetRow(status, p, acc).status = status
BY CostAssumption DEF AssetRow, AssetRows

LEMMA StatusWritten ==
    ASSUME NEW row \in AssetRows, NEW s \in Status, NEW new, new = [row EXCEPT !.status = s]
    PROVE  /\ new \in AssetRows /\ new.status = s /\ new.acc = row.acc
           /\ new.book = row.book /\ new.disposal = row.disposal
BY DEF AssetRows

LEMMA PlanWritten ==
    ASSUME NEW row \in AssetRows, NEW p \in Plans, NEW new, new = [row EXCEPT !.plan = p]
    PROVE  /\ new \in AssetRows /\ new.status = row.status /\ new.acc = row.acc
           /\ new.book = row.book /\ new.disposal = row.disposal
BY DEF AssetRows

LEMMA ValuesWritten ==
    ASSUME NEW row \in AssetRows, NEW acc \in Nat, NEW book \in Int, NEW new, new = [row EXCEPT !.acc = acc, !.book = book]
    PROVE  /\ new \in AssetRows /\ new.status = row.status /\ new.acc = acc
           /\ new.book = book /\ new.disposal = row.disposal
BY DEF AssetRows

LEMMA DisposalWritten ==
    ASSUME NEW row \in AssetRows, NEW s \in Status, NEW n \in Nat, NEW new, new = [row EXCEPT !.status = s, !.disposal = n]
    PROVE  /\ new \in AssetRows /\ new.status = s /\ new.acc = row.acc
           /\ new.book = row.book /\ new.disposal = n
BY DEF AssetRows

LEMMA NoRequestFacts ==
    /\ NoRequest \in Request /\ NoRequest.step = "idle" /\ NoRequest.op = "none"
    /\ NoRequest.asset = None
BY DEF NoRequest, Request

\* The amount to record is at most what is left to write off.
LEMMA AmountFacts ==
    ASSUME NEW row \in AssetRows, CanCalculate(row.plan)
    PROVE  DepreciationAmount(row) \in Int /\ DepreciationAmount(row) <= Cost - row.acc
<1> DEFINE r == row.plan.residual
           life == row.plan.life
<1>1. r \in 0..Cost /\ life \in Nat \ {0} /\ row.acc \in Nat /\ row.book \in Int /\ Cost \in Nat
  BY PlanFacts, CostAssumption DEF AssetRows
<1>2. CalculateMonthlyDepreciation(row) \in Int
  <2>1. \A n \in Int, m \in Nat \ {0} : Rounded(n, m) \in Int
    BY DEF Rounded
  <2>2. CASE row.plan.method = "DECLINING_BALANCE"
    <3>1. life \div 12 \in Nat \ {0}
      BY <1>1, <2>2 DEF CanCalculate
    <3>2. 12 * (life \div 12) \in Nat \ {0} /\ 2 * row.book \in Int
      BY <1>1, <3>1
    <3> QED
      BY <2>1, <2>2, <3>2 DEF CalculateMonthlyDepreciation
  <2>3. CASE row.plan.method # "DECLINING_BALANCE"
    <3>1. Cost - r \in Int
      BY <1>1
    <3> QED
      BY <1>1, <2>1, <2>3, <3>1 DEF CalculateMonthlyDepreciation
  <2> QED
    BY <2>2, <2>3
<1> DEFINE amount == CalculateMonthlyDepreciation(row)
           most == Cost - r - row.acc
<1>3. DepreciationAmount(row) = IF amount > most THEN most ELSE amount
  BY DEF DepreciationAmount
<1>4. most \in Int /\ most <= Cost - row.acc
  BY <1>1
<1> HIDE DEF amount, most
<1> QED
  BY <1>1, <1>2, <1>3, <1>4 DEF amount

-----------------------------------------------------------------------------
(* The invariant *)

LEMMA Typed ==
    ASSUME AssetInv
    PROVE  /\ asset \in [Asset -> AssetRows] /\ request \in [Clerks -> Request]
           /\ recorded \in [Asset -> Nat] /\ depreciation \in [Asset -> Nat] /\ opening \in [Asset -> Nat]
           /\ halfway \in [Asset -> Nat] /\ overlapped \in [Asset -> BOOLEAN]
           /\ disposals \in [Asset -> Seq(Nat)] /\ requests \in 0..MaxRequests
           /\ \A c \in Clerks : request[c].step # "idle" <=> request[c].asset # None
           /\ Cost \in Nat
BY CostAssumption DEF AssetInv, AssetTypeOK, AssetRows

\* A request that a step leaves alone keeps what is in hand.
LEMMA InHandStays ==
    ASSUME AssetInv, NEW c \in Clerks, request'[c] = request[c] \/ request'[c] = NoRequest,
           recorded' \in [Asset -> Nat], disposals' \in [Asset -> Seq(Nat)],
           \A a \in Asset : /\ asset[a].status # "absent" => /\ asset'[a].status # "absent"
                                                              /\ opening'[a] = opening[a]
                            /\ recorded[a] <= recorded'[a]
                            /\ Len(disposals[a]) <= Len(disposals'[a])
    PROVE  InHand(c)'
<1>1. CASE request'[c] = NoRequest
  BY <1>1, NoRequestFacts DEF InHand
<1>2. CASE request'[c] = request[c] /\ request[c].step = "idle"
  <2>1. request'[c] = NoRequest
    BY <1>2 DEF AssetInv, InHand
  <2> QED
    BY <1>1, <2>1
<1>3. CASE request'[c] = request[c] /\ request[c].step # "idle"
  <2>1. PICK a \in Asset : a = request[c].asset /\ asset[a].status # "absent"
    BY <1>3 DEF AssetInv, InHand
  <2>2. /\ asset'[a].status # "absent" /\ opening'[a] = opening[a] /\ recorded[a] <= recorded'[a]
        /\ Len(disposals[a]) <= Len(disposals'[a])
        /\ recorded[a] \in Nat /\ recorded'[a] \in Nat /\ opening[a] \in Nat
        /\ Len(disposals[a]) \in Nat /\ Len(disposals'[a]) \in Nat
    BY <2>1, Typed
  <2>3. InHand(c) /\ request[c] \in Request
    BY Typed DEF AssetInv
  <2>4. /\ request[c].acc \in Nat /\ request[c].amount \in Nat /\ request[c].disposal \in Nat
    BY <2>3 DEF Request
  <2> QED
    BY SMTT(30), <1>3, <2>1, <2>2, <2>3, <2>4 DEF InHand
<1> QED
  BY <1>1, <1>2, <1>3

\* A step that writes one row, and perhaps ends one request.
LEMMA RowStep ==
    ASSUME AssetInv, NEW a \in Asset, NEW row \in AssetRows,
           asset' = [asset EXCEPT ![a] = row],
           \/ opening' = opening
           \/ asset[a].status = "absent" /\ opening' = [opening EXCEPT ![a] = row.acc],
           \/ request' = request
           \/ \E c \in Clerks : Done(c),
           UNCHANGED <<recorded, depreciation, disposals, halfway, overlapped, requests>>,
           row.acc <= Cost, row.book = Cost - row.acc,
           row.acc <= opening'[a] + recorded[a],
           row.disposal \in 0..Len(disposals[a]), row.status # "absent"
    PROVE  AssetInv'
<1>1. /\ asset'[a] = row /\ \A b \in Asset \ {a} : asset'[b] = asset[b] /\ opening'[b] = opening[b]
      /\ asset' \in [Asset -> AssetRows]
      /\ asset[a].status # "absent" => opening' = opening
  BY Typed
<1>2. opening' \in [Asset -> Nat]
  BY Typed DEF AssetRows
<1>3. \A c \in Clerks : request'[c] = request[c] \/ request'[c] = NoRequest
  BY Typed DEF Done
<1>4. request' \in [Clerks -> Request]
  BY Typed, NoRequestFacts DEF Done
<1>5. ASSUME NEW c \in Clerks PROVE InHand(c)'
  <2>1. \A b \in Asset : asset[b].status # "absent" => asset'[b].status # "absent" /\ opening'[b] = opening[b]
    BY <1>1
  <2>2. \A b \in Asset : recorded[b] <= recorded'[b] /\ Len(disposals[b]) <= Len(disposals'[b])
    BY Typed
  <2> QED
    BY <1>3, <2>1, <2>2, Typed, InHandStays
<1>6. \A c \in Clerks : request'[c].step # "idle" <=> request'[c].asset # None
  BY <1>3, Typed, NoRequestFacts
<1>7. ASSUME NEW b \in Asset PROVE RowInv(b)'
  <2>1. CASE b = a
    BY <1>1, <2>1 DEF RowInv
  <2>2. CASE b # a
    BY <1>1, <2>2 DEF RowInv, AssetInv
  <2> QED
    BY <2>1, <2>2
<1>8. AssetTypeOK'
  BY <1>1, <1>2, <1>4, <1>6, Typed DEF AssetTypeOK, AssetRows
<1> QED
  BY <1>5, <1>7, <1>8 DEF AssetInv

LEMMA RegisterKeeps == ASSUME AssetInv, RegisterStep PROVE AssetInv'
<1>0. \A a \in Asset : asset[a] \in AssetRows /\ RowInv(a) /\ recorded[a] \in Nat /\ opening[a] \in Nat
                       /\ Len(disposals[a]) \in Nat /\ asset[a].acc \in Nat /\ asset[a].disposal \in Nat
  <2> SUFFICES ASSUME NEW a \in Asset
               PROVE  /\ asset[a] \in AssetRows /\ RowInv(a) /\ recorded[a] \in Nat /\ opening[a] \in Nat
                      /\ Len(disposals[a]) \in Nat /\ asset[a].acc \in Nat /\ asset[a].disposal \in Nat
    OBVIOUS
  <2>1. /\ asset[a] \in AssetRows /\ recorded[a] \in Nat /\ opening[a] \in Nat
        /\ disposals[a] \in Seq(Nat)
    BY Typed
  <2>2. RowInv(a)
    BY DEF AssetInv
  <2> QED
    BY <2>1, <2>2 DEF AssetRows
<1>1. ASSUME NEW a \in Asset, DeleteAsset(a) PROVE AssetInv'
  <2> DEFINE row == [asset[a] EXCEPT !.status = "deleted"]
  <2>1. /\ asset' = [asset EXCEPT ![a] = row] /\ opening' = opening /\ request' = request
        /\ UNCHANGED <<recorded, depreciation, disposals, halfway, overlapped, requests>>
    BY <1>1 DEF DeleteAsset, ledger, history
  <2>2. /\ row \in AssetRows /\ row.status = "deleted" /\ row.acc = asset[a].acc
        /\ row.book = asset[a].book /\ row.disposal = asset[a].disposal
    BY <1>0, StatusWritten DEF Status
  <2> HIDE DEF row
  <2> QED
    BY <1>0, <2>1, <2>2, RowStep DEF RowInv
<1>2. ASSUME NEW a \in Asset, NEW p \in Plans, UpdateAsset(a, p) PROVE AssetInv'
  <2> DEFINE row == [asset[a] EXCEPT !.plan = p]
  <2>1. /\ asset' = [asset EXCEPT ![a] = row] /\ opening' = opening /\ request' = request
        /\ UNCHANGED <<recorded, depreciation, disposals, halfway, overlapped, requests>>
        /\ asset[a].status # "absent"
    BY <1>2 DEF UpdateAsset, ledger, history
  <2>2. /\ row \in AssetRows /\ row.status = asset[a].status /\ row.acc = asset[a].acc
        /\ row.book = asset[a].book /\ row.disposal = asset[a].disposal
    BY <1>0, PlanWritten
  <2> HIDE DEF row
  <2> QED
    BY <1>0, <2>1, <2>2, RowStep DEF RowInv
<1>3. ASSUME NEW a \in Asset, NEW p \in Plans, CreateAsset(a, p) PROVE AssetInv'
  <2> DEFINE row == AssetRow("DRAFT", p, 0)
  <2>1. /\ asset' = [asset EXCEPT ![a] = row] /\ opening' = opening /\ request' = request
        /\ UNCHANGED <<recorded, depreciation, disposals, halfway, overlapped, requests>>
    BY <1>3 DEF CreateAsset, Add, ledger
  <2>2. /\ row \in AssetRows /\ row.status = "DRAFT" /\ row.acc = 0 /\ row.book = Cost - 0
        /\ row.disposal = 0
    BY NewRow DEF Status
  <2> HIDE DEF row
  <2>3. /\ row.acc <= Cost /\ row.acc <= opening'[a] + recorded[a]
        /\ row.disposal \in 0..Len(disposals[a]) /\ row.book = Cost - row.acc
    BY <1>0, <2>1, <2>2, CostAssumption
  <2> QED
    BY <2>1, <2>2, <2>3, RowStep
<1>4. ASSUME NEW a \in Asset, NEW p \in Plans, NEW s \in {"DRAFT", "ACTIVE", "SOLD", "DISPOSED"},
             NEW o \in Openings, ImportAsset(a, p, s, o)
      PROVE  AssetInv'
  <2> DEFINE row == AssetRow(s, p, o)
  <2>1. /\ asset' = [asset EXCEPT ![a] = row] /\ opening' = [opening EXCEPT ![a] = o]
        /\ request' = request /\ asset[a].status = "absent"
        /\ UNCHANGED <<recorded, depreciation, disposals, halfway, overlapped, requests>>
        /\ o <= Cost - p.residual
    BY <1>4 DEF ImportAsset, Add, ledger
  <2>2. o \in Nat /\ o <= Cost
    BY <2>1, PlanFacts, OpeningsAssumption, CostAssumption
  <2>3. /\ row \in AssetRows /\ row.status = s /\ row.acc = o /\ row.book = Cost - o
        /\ row.disposal = 0
    BY <2>2, NewRow DEF Status
  <2>4. opening'[a] = o
    BY <2>1, Typed
  <2> HIDE DEF row
  <2>5. /\ row.acc <= Cost /\ row.acc <= opening'[a] + recorded[a]
        /\ row.disposal \in 0..Len(disposals[a]) /\ row.book = Cost - row.acc
    BY <1>0, <2>2, <2>3, <2>4
  <2> QED
    BY <2>1, <2>3, <2>5, RowStep
<1> QED
  BY <1>1, <1>2, <1>3, <1>4 DEF RegisterStep

\* What a clerk at work has in hand.
LEMMA AtWork ==
    ASSUME AssetInv, NEW c \in Clerks, request[c].step # "idle"
    PROVE  /\ request[c] \in Request /\ InHand(c)
           /\ request[c].asset \in Asset /\ asset[request[c].asset].status # "absent"
           /\ asset[request[c].asset] \in AssetRows /\ RowInv(request[c].asset)
BY Typed DEF AssetInv, InHand

LEMMA WritesKeep ==
    ASSUME AssetInv, NEW c \in Clerks,
           Activate(c) \/ UpdateAssetDepreciation(c) \/ UpdateDisposal(c)
    PROVE  AssetInv'
<1>1. /\ request[c].step # "idle" /\ Done(c) /\ opening' = opening
      /\ UNCHANGED <<recorded, depreciation, disposals, halfway, overlapped, requests>>
  BY DEF Activate, UpdateAssetDepreciation, UpdateDisposal, ledger, history
<1>2. PICK a \in Asset : a = request[c].asset
  BY <1>1, AtWork
<1>3. /\ asset[a] \in AssetRows /\ RowInv(a) /\ asset[a].status # "absent" /\ InHand(c)
      /\ request[c] \in Request /\ Cost \in Nat
  BY <1>1, <1>2, AtWork, CostAssumption
<1>4. asset[a].acc \in Nat /\ asset[a].disposal \in Nat
  BY <1>3 DEF AssetRows
<1>5. PICK row \in AssetRows :
         /\ asset' = [asset EXCEPT ![a] = row] /\ row.status # "absent"
         /\ row.acc <= Cost /\ row.book = Cost - row.acc /\ row.acc <= opening[a] + recorded[a]
         /\ row.disposal \in 0..Len(disposals[a])
  <2>1. CASE asset' = asset
    <3>1. asset' = [asset EXCEPT ![a] = asset[a]]
      BY <2>1, Typed
    <3> QED
      BY <1>3, <3>1 DEF RowInv
  <2>2. CASE Activate(c) /\ asset' # asset
    <3> DEFINE row == [asset[a] EXCEPT !.status = "ACTIVE"]
    <3>1. asset' = [asset EXCEPT ![a] = row]
      BY <1>2, <2>2 DEF Activate
    <3>2. /\ row \in AssetRows /\ row.status = "ACTIVE" /\ row.acc = asset[a].acc
          /\ row.book = asset[a].book /\ row.disposal = asset[a].disposal
      BY <1>3, StatusWritten DEF Status
    <3> HIDE DEF row
    <3> QED
      BY <1>3, <3>1, <3>2 DEF RowInv
  <2>3. CASE UpdateAssetDepreciation(c)
    <3> DEFINE acc == request[c].acc + request[c].amount
               row == [asset[a] EXCEPT !.acc = acc, !.book = Cost - acc]
    <3>1. asset' = [asset EXCEPT ![a] = row]
      BY <1>2, <2>3 DEF UpdateAssetDepreciation, NewAccumulated
    <3>2. acc \in Nat /\ Cost - acc \in Int
      BY <1>3 DEF Request
    <3>3. acc <= Cost /\ acc <= opening[a] + recorded[a]
      BY <1>2, <1>3, <2>3 DEF UpdateAssetDepreciation, InHand
    <3> HIDE DEF acc
    <3>4. /\ row \in AssetRows /\ row.status = asset[a].status /\ row.acc = acc
          /\ row.book = Cost - acc /\ row.disposal = asset[a].disposal
      BY <1>3, <3>2 DEF AssetRows
    <3> HIDE DEF row
    <3> QED
      BY <1>3, <3>1, <3>2, <3>3, <3>4 DEF RowInv
  <2>4. CASE UpdateDisposal(c) /\ asset' # asset
    <3> DEFINE row == [asset[a] EXCEPT !.status = request[c].status, !.disposal = request[c].disposal]
    <3>1. asset' = [asset EXCEPT ![a] = row]
      BY <1>2, <2>4 DEF UpdateDisposal
    <3>2. /\ request[c].status \in {"SOLD", "DISPOSED"} /\ request[c].disposal \in 1..Len(disposals[a])
          /\ request[c].disposal \in Nat
      BY <1>2, <1>3, <2>4 DEF UpdateDisposal, InHand, Request
    <3>3. /\ row \in AssetRows /\ row.status = request[c].status /\ row.acc = asset[a].acc
          /\ row.book = asset[a].book /\ row.disposal = request[c].disposal
      BY <1>3, <3>2 DEF Status, AssetRows
    <3> HIDE DEF row
    <3>4. row.disposal \in 0..Len(disposals[a])
      BY <3>2, <3>3
    <3> QED
      BY <1>3, <3>1, <3>2, <3>3, <3>4 DEF RowInv
  <2> QED
    BY <2>1, <2>2, <2>3, <2>4
<1>6. row.acc <= opening'[a] + recorded[a]
  BY <1>1, <1>5
<1> QED
  BY <1>1, <1>5, <1>6, RowStep

\* What a clerk's step leaves of the rest.
Grows ==
    /\ recorded' \in [Asset -> Nat] /\ depreciation' \in [Asset -> Nat] /\ halfway' \in [Asset -> Nat]
    /\ disposals' \in [Asset -> Seq(Nat)] /\ overlapped' \in [Asset -> BOOLEAN]
    /\ requests' \in 0..MaxRequests
    /\ \A a \in Asset : recorded[a] <= recorded'[a] /\ Len(disposals[a]) <= Len(disposals'[a])

\* A step of one clerk that writes no row.
LEMMA ClerkStep ==
    ASSUME AssetInv, NEW c \in Clerks, NEW new \in Request,
           request' = [request EXCEPT ![c] = new], new.step # "idle" <=> new.asset # None,
           UNCHANGED <<asset, opening>>, Grows, InHand(c)'
    PROVE  AssetInv'
<1> USE DEF Grows
<1>1. /\ request' \in [Clerks -> Request] /\ request'[c] = new
      /\ \A d \in Clerks \ {c} : request'[d] = request[d]
  BY Typed
<1>2. ASSUME NEW d \in Clerks PROVE InHand(d)' /\ (request'[d].step # "idle" <=> request'[d].asset # None)
  <2>1. CASE d = c
    BY <1>1, <2>1
  <2>2. CASE d # c
    BY <1>1, <2>2, InHandStays, Typed
  <2> QED
    BY <2>1, <2>2
<1>3. ASSUME NEW a \in Asset PROVE RowInv(a)'
  <2>1. /\ RowInv(a) /\ asset[a] \in AssetRows /\ recorded[a] \in Nat /\ recorded'[a] \in Nat
        /\ disposals[a] \in Seq(Nat) /\ disposals'[a] \in Seq(Nat) /\ opening[a] \in Nat
    BY Typed DEF AssetInv
  <2>2. asset[a].acc \in Nat /\ asset[a].disposal \in Nat
    BY <2>1 DEF AssetRows
  <2>3. recorded[a] <= recorded'[a] /\ Len(disposals[a]) <= Len(disposals'[a])
    OBVIOUS
  <2> QED
    BY SMTT(30), <2>1, <2>2, <2>3 DEF RowInv
<1>4. AssetTypeOK'
  BY <1>1, <1>2, Typed DEF AssetTypeOK, AssetRows
<1> QED
  BY <1>2, <1>3, <1>4 DEF AssetInv

\* What a clerk reads.
LEMMA ReadsKeep ==
    ASSUME AssetInv, NEW c \in Clerks, NEW a \in Asset, NEW status, NEW new \in Request,
           Reads(c, a, status, new), status \in {"DRAFT", "ACTIVE"},
           new.step = "read" /\ new.asset = a /\ new.op \in {"depreciate", "dispose", "activate"},
           new.op = "depreciate" => new.acc = asset[a].acc /\ new.acc + new.amount <= Cost,
           new.op = "dispose" => new.status # "none"
    PROVE  AssetInv'
<1>1. /\ request' = [request EXCEPT ![c] = new] /\ asset[a].status = status
      /\ requests < MaxRequests /\ requests' = requests + 1
      /\ overlapped' = [overlapped EXCEPT ![a] = @ \/ Busy(a) # {}]
      /\ UNCHANGED <<asset, recorded, depreciation, disposals, opening, halfway>>
  BY DEF Reads, ledger
<1>2. request'[c] = new
  BY <1>1, Typed
<1>3. requests' \in 0..MaxRequests
  BY <1>1, Typed, CostAssumption
<1>4. overlapped' \in [Asset -> BOOLEAN]
  BY <1>1, Typed
<1>5. asset[a].acc <= opening[a] + recorded[a]
  BY DEF AssetInv, RowInv
<1>6. InHand(c)'
  BY <1>1, <1>2, <1>5 DEF InHand
<1>7. \A b \in Asset : recorded[b] \in Nat /\ Len(disposals[b]) \in Nat
  BY Typed
<1> QED
  <2>1. Grows
    BY <1>1, <1>3, <1>4, <1>7, Typed DEF Grows
  <2>2. a # None
    BY CostAssumption
  <2> QED
    BY <1>1, <1>6, <2>1, <2>2, ClerkStep

LEMMA ReadStepKeeps ==
    ASSUME AssetInv, NEW c \in Clerks, ReadStep(c) PROVE AssetInv'
<1>1. ASSUME NEW a \in Asset, ReadDraft(c, a) PROVE AssetInv'
  <2> DEFINE new == [NoRequest EXCEPT !.step = "read", !.op = "activate", !.asset = a]
  <2>1. new \in Request /\ new.step = "read" /\ new.asset = a /\ new.op = "activate"
    BY DEF NoRequest, Request
  <2>2. Reads(c, a, "DRAFT", new)
    BY <1>1 DEF ReadDraft
  <2> HIDE DEF new
  <2> QED
    BY <2>1, <2>2, ReadsKeep
<1>2. ASSUME NEW a \in Asset, NEW s \in {"SOLD", "DISPOSED"}, ReadForDisposal(c, a, s) PROVE AssetInv'
  <2> DEFINE new == [NoRequest EXCEPT !.step = "read", !.op = "dispose", !.asset = a,
                                      !.acc = asset[a].acc, !.status = s]
  <2>1. asset[a].acc \in Nat
    BY Typed DEF AssetRows
  <2>2. /\ new \in Request /\ new.step = "read" /\ new.asset = a /\ new.op = "dispose"
        /\ new.status = s
    BY <2>1 DEF NoRequest, Request
  <2>3. Reads(c, a, "ACTIVE", new)
    BY <1>2 DEF ReadForDisposal
  <2> HIDE DEF new
  <2> QED
    BY <2>2, <2>3, ReadsKeep
<1>3. ASSUME NEW a \in Asset, ReadForDepreciation(c, a) PROVE AssetInv'
  <2> DEFINE amount == DepreciationAmount(asset[a])
             new == [NoRequest EXCEPT !.step = "read", !.op = "depreciate", !.asset = a,
                                      !.acc = asset[a].acc, !.amount = amount]
  <2>1. asset[a] \in AssetRows /\ asset[a].acc \in Nat
    BY Typed DEF AssetRows
  <2>2. amount \in Nat /\ amount <= Cost - asset[a].acc
    BY <1>3, <2>1, AmountFacts DEF ReadForDepreciation
  <2>3. Reads(c, a, "ACTIVE", new)
    BY <1>3 DEF ReadForDepreciation
  <2> HIDE DEF amount
  <2>4. /\ new \in Request /\ new.step = "read" /\ new.asset = a /\ new.op = "depreciate"
        /\ new.acc = asset[a].acc /\ new.amount = amount
    BY <2>1, <2>2 DEF NoRequest, Request
  <2>5. new.acc + new.amount <= Cost
    BY <2>1, <2>2, <2>4, CostAssumption
  <2> HIDE DEF new
  <2> QED
    BY <2>3, <2>4, <2>5, ReadsKeep
<1> QED
  BY <1>1, <1>2, <1>3 DEF ReadStep

LEMMA PostKeeps ==
    ASSUME AssetInv, NEW c \in Clerks,
           \/ PostDepreciation(c) \/ CreateDepreciationEntry(c) \/ PostDisposal(c) \/ Fail(c)
    PROVE  AssetInv'
<1>1. request[c].step # "idle"
  BY DEF PostDepreciation, CreateDepreciationEntry, PostDisposal, Fail
<1>2. PICK a \in Asset : a = request[c].asset
  BY <1>1, AtWork
<1>3. /\ request[c] \in Request /\ InHand(c) /\ asset[a].status # "absent"
      /\ request[c].acc \in Nat /\ request[c].amount \in Nat /\ request[c].disposal \in Nat
  BY <1>1, <1>2, AtWork DEF Request
<1>4. a # None
  BY CostAssumption
<1>5. \A b \in Asset : recorded[b] \in Nat /\ Len(disposals[b]) \in Nat /\ opening[b] \in Nat
  BY Typed
<1>6. CASE PostDepreciation(c)
  <2> DEFINE new == [request[c] EXCEPT !.step = "posted"]
  <2>1. /\ request' = [request EXCEPT ![c] = new] /\ request[c].op = "depreciate"
        /\ depreciation' = [depreciation EXCEPT ![a] = @ + request[c].amount]
        /\ UNCHANGED <<asset, recorded, disposals, opening, halfway, overlapped, requests>>
    BY <1>2, <1>6, Typed DEF PostDepreciation, history
  <2>2. /\ new \in Request /\ new.step = "posted" /\ new.op = request[c].op /\ new.asset = a
        /\ new.acc = request[c].acc /\ new.amount = request[c].amount
    BY <1>2, <1>3 DEF Request
  <2> HIDE DEF new
  <2>3. request'[c] = new
    BY <2>1, Typed
  <2>4. InHand(c)'
    BY <1>2, <1>3, <2>1, <2>2, <2>3 DEF InHand
  <2>5. depreciation' \in [Asset -> Nat]
    BY <1>3, <2>1, Typed
  <2>6. Grows
    BY <1>5, <2>1, <2>5, Typed DEF Grows
  <2> QED
    BY <1>4, <2>1, <2>2, <2>4, <2>6, ClerkStep
<1>7. CASE CreateDepreciationEntry(c)
  <2> DEFINE new == [request[c] EXCEPT !.step = "entered"]
  <2>1. /\ request' = [request EXCEPT ![c] = new] /\ request[c].op = "depreciate"
        /\ recorded' = [recorded EXCEPT ![a] = @ + request[c].amount]
        /\ UNCHANGED <<asset, depreciation, disposals, opening, halfway, overlapped, requests>>
    BY <1>2, <1>7, Typed DEF CreateDepreciationEntry, EntryAmount, ledger, history
  <2>2. /\ new \in Request /\ new.step = "entered" /\ new.op = request[c].op /\ new.asset = a
        /\ new.acc = request[c].acc /\ new.amount = request[c].amount
    BY <1>2, <1>3 DEF Request
  <2> HIDE DEF new
  <2>3. request'[c] = new
    BY <2>1, Typed
  <2>4. /\ recorded' \in [Asset -> Nat] /\ recorded'[a] = recorded[a] + request[c].amount
        /\ \A b \in Asset : recorded[b] <= recorded'[b]
    BY SMTT(30), <1>3, <1>5, <2>1, Typed
  <2>5. InHand(c)'
    <3>1. request[c].acc + request[c].amount <= Cost /\ request[c].acc <= opening[a] + recorded[a]
      BY <1>2, <1>3, <2>1 DEF InHand
    <3>2. request[c].acc + request[c].amount <= opening[a] + recorded'[a]
      BY <1>3, <1>5, <2>4, <3>1
    <3>3. request[c].acc <= opening[a] + recorded'[a]
      BY <1>3, <1>5, <2>4, <3>1
    <3> QED
      BY <1>3, <2>1, <2>2, <2>3, <3>1, <3>2, <3>3 DEF InHand
  <2>6. Grows
    BY <1>5, <2>1, <2>4, Typed DEF Grows
  <2> QED
    BY <1>4, <2>1, <2>2, <2>5, <2>6, ClerkStep
<1>8. CASE PostDisposal(c)
  <2> DEFINE n == Len(disposals[a]) + 1
             new == [request[c] EXCEPT !.step = "posted", !.disposal = n]
  <2>1. /\ request' = [request EXCEPT ![c] = new] /\ request[c].op = "dispose"
        /\ disposals' = [disposals EXCEPT ![a] = Append(@, request[c].acc)]
        /\ UNCHANGED <<asset, recorded, depreciation, opening, halfway, overlapped, requests>>
    BY <1>2, <1>8, Typed DEF PostDisposal, history
  <2>2. n \in Nat
    BY <1>5
  <2>3. disposals[a] \in Seq(Nat) /\ Append(disposals[a], request[c].acc) \in Seq(Nat)
        /\ Len(Append(disposals[a], request[c].acc)) = n
    BY <1>3, Typed
  <2>4. /\ disposals' \in [Asset -> Seq(Nat)] /\ Len(disposals'[a]) = n
        /\ \A b \in Asset : Len(disposals[b]) <= Len(disposals'[b])
    BY <1>5, <2>1, <2>3, Typed
  <2>5. n \in 1..Len(disposals'[a])
    BY <1>5, <2>4
  <2> HIDE DEF n
  <2>6. /\ new \in Request /\ new.step = "posted" /\ new.op = request[c].op /\ new.asset = a
        /\ new.disposal = n /\ new.status = request[c].status
    BY <1>2, <1>3, <2>2 DEF Request
  <2> HIDE DEF new
  <2>7. request'[c] = new
    BY <2>1, Typed
  <2>8. InHand(c)'
    BY <1>2, <1>3, <2>1, <2>5, <2>6, <2>7 DEF InHand
  <2>9. Grows
    BY SMTT(30), <1>5, <2>1, <2>4, Typed DEF Grows
  <2> QED
    BY <1>4, <2>1, <2>6, <2>8, <2>9, ClerkStep
<1>9. CASE Fail(c)
  <2>1. /\ request' = [request EXCEPT ![c] = NoRequest]
        /\ halfway' = IF request[c].op = "depreciate" /\ request[c].step # "read"
                      THEN [halfway EXCEPT ![a] = @ + request[c].amount] ELSE halfway
        /\ UNCHANGED <<asset, recorded, depreciation, disposals, opening, overlapped, requests>>
    BY <1>2, <1>9 DEF Fail, Done, ledger
  <2>2. request'[c] = NoRequest
    BY <2>1, Typed
  <2>3. InHand(c)'
    BY <2>2, NoRequestFacts DEF InHand
  <2>4. halfway' \in [Asset -> Nat]
    BY <1>3, <2>1, Typed
  <2>5. Grows
    BY <1>5, <2>1, <2>4, Typed DEF Grows
  <2> QED
    BY <2>1, <2>3, <2>5, NoRequestFacts, ClerkStep
<1> QED
  BY <1>6, <1>7, <1>8, <1>9

LEMMA AssetStarts == Init => AssetInv
<1> SUFFICES ASSUME Init PROVE AssetInv
  OBVIOUS
<1> DEFINE p == CHOOSE p \in Plans : TRUE
           row == AssetRow("absent", p, 0)
<1>1. p \in Plans
  BY PlansAssumption
<1> HIDE DEF p
<1>2. /\ row \in AssetRows /\ row.acc = 0 /\ row.book = Cost - 0 /\ row.disposal = 0
      /\ row.status = "absent"
  BY <1>1, NewRow DEF Status
<1>3. asset = [a \in Asset |-> row]
  BY DEF Init, p
<1> HIDE DEF row
<1>4. /\ recorded = [a \in Asset |-> 0] /\ depreciation = [a \in Asset |-> 0]
      /\ halfway = [a \in Asset |-> 0] /\ opening = [a \in Asset |-> 0]
      /\ disposals = [a \in Asset |-> <<>>] /\ overlapped = [a \in Asset |-> FALSE]
      /\ request = [c \in Clerks |-> NoRequest] /\ requests = 0
  BY DEF Init
<1>5. /\ recorded \in [Asset -> Nat] /\ depreciation \in [Asset -> Nat] /\ halfway \in [Asset -> Nat]
      /\ opening \in [Asset -> Nat] /\ disposals \in [Asset -> Seq(Nat)]
      /\ overlapped \in [Asset -> BOOLEAN] /\ request \in [Clerks -> Request]
      /\ asset \in [Asset -> AssetRows] /\ requests \in 0..MaxRequests
  BY <1>2, <1>3, <1>4, NoRequestFacts, CostAssumption
<1>6. AssetTypeOK
  <2>1. \A c \in Clerks : request[c].step # "idle" <=> request[c].asset # None
    BY <1>4, NoRequestFacts
  <2> QED
    BY <1>5, <2>1 DEF AssetTypeOK, AssetRows
<1>7. \A a \in Asset : RowInv(a)
  <2> SUFFICES ASSUME NEW a \in Asset PROVE RowInv(a)
    OBVIOUS
  <2>1. /\ asset[a] = row /\ recorded[a] = 0 /\ opening[a] = 0 /\ disposals[a] = <<>>
    BY <1>3, <1>4
  <2>2. 0 \in 0..Len(<<>>)
    OBVIOUS
  <2>3. asset[a].disposal \in 0..Len(disposals[a])
    BY <1>2, <2>1, <2>2
  <2>4. Cost \in Nat
    BY CostAssumption
  <2> QED
    BY <1>2, <2>1, <2>3, <2>4 DEF RowInv
<1>8. \A c \in Clerks : InHand(c)
  BY <1>4, NoRequestFacts DEF InHand
<1> QED
  BY <1>6, <1>7, <1>8 DEF AssetInv

LEMMA AssetKeeps == AssetInv /\ [Next]_vars => AssetInv'
<1> SUFFICES ASSUME AssetInv, [Next]_vars PROVE AssetInv'
  OBVIOUS
<1>1. CASE UNCHANGED vars
  BY <1>1 DEF vars, history, ledger, AssetInv, AssetTypeOK, RowInv, InHand
<1> QED
  BY <1>1, RegisterKeeps, ReadStepKeeps, WritesKeep, PostKeeps DEF Next

LEMMA AssetInvariant == Spec => []AssetInv
BY AssetStarts, AssetKeeps, PTL DEF Spec

\* Rows, sums and requests keep their types, for any number of clerks.
THEOREM AssetTypes == Spec => []AssetTypeOK
<1>1. AssetInv => AssetTypeOK
  BY DEF AssetInv
<1> QED
  BY <1>1, AssetInvariant, PTL

\* However depreciations, imports and changes of plan interleave, an asset is not
\* written down below zero and its book value is its cost less what is
\* accumulated (assets/service.go:416-424).
THEOREM NeverBelowZero == Spec => []ValueAddsUp
<1>1. AssetInv => ValueAddsUp
  BY DEF AssetInv, RowInv, ValueAddsUp
<1> QED
  BY <1>1, AssetInvariant, PTL

\* A disposal is not replaced, and only an activation that had found a draft
\* brings the asset back (assets/repository.go:304).
THEOREM DisposalsStand == Spec => DisposalStands
<1> DEFINE Stands(a) ==
      Disposed(a) =>
          /\ asset'[a].disposal = asset[a].disposal
          /\ \/ asset'[a].status = asset[a].status
             \/ \E c \in Clerks : request[c].asset = a /\ Activate(c)
<1>1. ASSUME AssetInv, [Next]_vars, NEW a \in Asset PROVE Stands(a)
  <2> SUFFICES ASSUME Disposed(a) PROVE /\ asset'[a].disposal = asset[a].disposal
                                        /\ \/ asset'[a].status = asset[a].status
                                           \/ \E c \in Clerks : request[c].asset = a /\ Activate(c)
    OBVIOUS
  <2>1. asset \in [Asset -> AssetRows] /\ asset[a] \in AssetRows
    BY <1>1, Typed
  <2>2. asset[a].status \notin {"absent", "DRAFT", "ACTIVE", "deleted"}
    BY DEF Disposed
  <2>3. CASE UNCHANGED asset
    BY <2>3
  <2>4. ASSUME NEW b \in Asset, NEW row, Add(b, row) PROVE asset'[a] = asset[a]
    BY <2>1, <2>2, <2>4 DEF Add
  <2>5. ASSUME NEW b \in Asset, NEW p \in Plans, UpdateAsset(b, p) PROVE asset'[a] = asset[a]
    BY <2>1, <2>2, <2>5 DEF UpdateAsset
  <2>6. ASSUME NEW b \in Asset, DeleteAsset(b) PROVE asset'[a] = asset[a]
    BY <2>1, <2>2, <2>6 DEF DeleteAsset
  <2>7. CASE RegisterStep
    BY <2>4, <2>5, <2>6, <2>7 DEF RegisterStep, CreateAsset, ImportAsset
  <2>8. ASSUME NEW c \in Clerks, Activate(c) PROVE Stands(a)
    <3>1. CASE request[c].asset = a
      BY <2>1, <2>8, <3>1 DEF Activate, AssetRows
    <3>2. CASE request[c].asset # a
      BY <2>1, <2>8, <3>2 DEF Activate
    <3> QED
      BY <3>1, <3>2
  <2>9. ASSUME NEW c \in Clerks, UpdateAssetDepreciation(c) PROVE Stands(a)
    BY <2>1, <2>9 DEF UpdateAssetDepreciation, AssetRows
  <2>10. ASSUME NEW c \in Clerks, UpdateDisposal(c) PROVE asset'[a] = asset[a]
    BY <2>1, <2>2, <2>10 DEF UpdateDisposal, StillActive
  <2>11. ASSUME NEW c \in Clerks,
                ReadStep(c) \/ Fail(c) \/ PostDepreciation(c) \/ CreateDepreciationEntry(c) \/ PostDisposal(c)
         PROVE  UNCHANGED asset
    BY <2>11 DEF ReadStep, ReadDraft, ReadForDepreciation, ReadForDisposal, Reads, Fail, PostDepreciation,
                 CreateDepreciationEntry, PostDisposal
  <2>12. UNCHANGED vars => UNCHANGED asset
    BY DEF vars
  <2> QED
    BY <1>1, <2>3, <2>7, <2>8, <2>9, <2>10, <2>11, <2>12 DEF Next
<1>2. AssetInv /\ [Next]_vars =>
        [\A a \in Asset : Disposed(a) =>
            /\ asset'[a].disposal = asset[a].disposal
            /\ \/ asset'[a].status = asset[a].status
               \/ \E c \in Clerks : request[c].asset = a /\ Activate(c)]_vars
  BY <1>1
<1> QED
  BY <1>2, AssetInvariant, PTL DEF Spec, DisposalStands

-----------------------------------------------------------------------------
(* Entries are posted before they are recorded *)

\* The requests whose depreciation is posted and not recorded yet.
Posted(a) ==
    {c \in Clerks : /\ request[c].op = "depreciate" /\ request[c].step = "posted"
                    /\ request[c].asset = a}

RequestAmounts == [c \in Clerks |-> request[c].amount]

\* Finitely many of them, for any number of clerks, and the ledger has them all.
PostedInv(a) ==
    /\ IsFiniteSet(Posted(a))
    /\ recorded[a] + SumFunctionOnSet(RequestAmounts, Posted(a)) <= depreciation[a]

LEMMA PostedFacts ==
    ASSUME AssetInv, NEW a \in Asset, PostedInv(a)
    PROVE  /\ \A c \in Clerks : RequestAmounts[c] = request[c].amount /\ RequestAmounts[c] \in Nat
           /\ \A S \in SUBSET Posted(a) :
                 IsFiniteSet(S) /\ SumFunctionOnSet(RequestAmounts, S) \in Nat
           /\ recorded[a] \in Nat /\ depreciation[a] \in Nat
<1> DEFINE f == RequestAmounts
           P == Posted(a)
<1>1. \A c \in Clerks : f[c] = request[c].amount /\ f[c] \in Nat
  BY Typed DEF RequestAmounts, Request
<1>2. IsFiniteSet(P) /\ P \subseteq Clerks
  BY DEF PostedInv, Posted
<1>3. recorded[a] \in Nat /\ depreciation[a] \in Nat
  BY Typed
<1> HIDE DEF f, P
<1>4. \A S \in SUBSET P : IsFiniteSet(S) /\ SumFunctionOnSet(f, S) \in Nat
  BY <1>1, <1>2, SumNatural, FS_Subset
<1> QED
  BY <1>1, <1>3, <1>4 DEF f, P

\* Requests that are no longer waiting to be recorded only make room.
LEMMA FewerPosted ==
    ASSUME AssetInv, AssetInv', NEW a \in Asset, PostedInv(a), Posted(a)' \subseteq Posted(a),
           \A c \in Posted(a)' : request'[c].amount = request[c].amount,
           recorded'[a] = recorded[a], depreciation'[a] = depreciation[a]
    PROVE  PostedInv(a)'
<1> DEFINE f == RequestAmounts
           g == RequestAmounts'
           P == Posted(a)
           Q == Posted(a)'
<1>1. IsFiniteSet(P) /\ IsFiniteSet(Q) /\ Q \in SUBSET P /\ Q \subseteq Clerks /\ P \subseteq Clerks
  BY FS_Subset DEF PostedInv, Posted
<1>2. \A c \in Clerks : f[c] \in Nat
  BY PostedFacts
<1>3. \A c \in Q : g[c] = f[c]
  BY <1>1 DEF RequestAmounts
<1>4. recorded[a] + SumFunctionOnSet(f, P) <= depreciation[a]
  BY DEF PostedInv
<1>5. recorded[a] \in Nat /\ depreciation[a] \in Nat
  BY Typed
<1> HIDE DEF f, g, P, Q
<1>6. SumFunctionOnSet(g, Q) = SumFunctionOnSet(f, Q)
  BY <1>1, <1>3, SumEqual
<1>7. SumFunctionOnSet(f, Q) <= SumFunctionOnSet(f, P)
  BY <1>1, <1>2, SumOfMore
<1>8. SumFunctionOnSet(f, Q) \in Nat /\ SumFunctionOnSet(f, P) \in Nat
  BY <1>1, <1>2, SumNatural
<1> DEFINE before == SumFunctionOnSet(f, P)
           after == SumFunctionOnSet(g, Q)
<1>9. after <= before /\ after \in Nat /\ before \in Nat /\ recorded[a] + before <= depreciation[a]
  BY <1>4, <1>6, <1>7, <1>8
<1> HIDE DEF after, before
<1>10. recorded[a] + after <= depreciation[a]
  BY <1>5, <1>9
<1>11. recorded'[a] + SumFunctionOnSet(g, Q) <= depreciation'[a]
  BY <1>10 DEF after
<1> QED
  BY <1>1, <1>11 DEF PostedInv, g, Q

LEMMA PostDepreciationPosts ==
    ASSUME AssetInv, AssetInv', NEW c \in Clerks, PostDepreciation(c), NEW a \in Asset, PostedInv(a)
    PROVE  PostedInv(a)'
<1> DEFINE new == [request[c] EXCEPT !.step = "posted"]
           n == request[c].amount
<1>1. /\ request[c].step = "read" /\ request[c].op = "depreciate"
      /\ request' = [request EXCEPT ![c] = new] /\ request'[c] = new
      /\ depreciation' = [depreciation EXCEPT ![request[c].asset] = @ + n] /\ recorded' = recorded
  BY Typed DEF PostDepreciation
<1>2. /\ request[c] \in Request /\ n \in Nat /\ request[c].asset \in Asset
  <2>1. request[c].step # "idle"
    BY <1>1
  <2> QED
    BY <2>1, AtWork DEF Request
<1>3. /\ new.step = "posted" /\ new.op = "depreciate" /\ new.asset = request[c].asset /\ new.amount = n
  BY <1>1, <1>2 DEF Request
<1>4. \A d \in Clerks \ {c} : request'[d] = request[d]
  BY <1>1, Typed
<1> HIDE DEF new
<1>5. CASE request[c].asset # a
  <2>1. Posted(a)' = Posted(a)
    BY <1>1, <1>3, <1>4, <1>5 DEF Posted
  <2>2. \A d \in Posted(a)' : request'[d].amount = request[d].amount
    BY <1>1, <1>3, <1>4, <1>5 DEF Posted
  <2>3. depreciation'[a] = depreciation[a] /\ recorded'[a] = recorded[a]
    BY <1>1, <1>2, <1>5, Typed
  <2> QED
    BY <2>1, <2>2, <2>3, FewerPosted
<1>6. CASE request[c].asset = a
  <2> DEFINE f == RequestAmounts
             g == RequestAmounts'
             P == Posted(a)
  <2>1. Posted(a)' = P \union {c} /\ c \notin P
    BY <1>1, <1>3, <1>4, <1>6 DEF Posted
  <2>2. IsFiniteSet(P) /\ P \subseteq Clerks /\ recorded[a] + SumFunctionOnSet(f, P) <= depreciation[a]
    BY DEF PostedInv, Posted
  <2>3. \A d \in Clerks : f[d] \in Nat /\ f[d] = request[d].amount
    BY PostedFacts
  <2>4. \A d \in Clerks : g[d] = request'[d].amount
    BY DEF RequestAmounts
  <2>5. \A d \in P \union {c} : g[d] = f[d] /\ g[d] \in Int
    BY <1>1, <1>3, <1>4, <2>2, <2>3, <2>4
  <2>6. g[c] = n
    BY <1>1, <1>3, <2>4
  <2>7. depreciation'[a] = depreciation[a] + n /\ recorded'[a] = recorded[a]
    BY <1>1, <1>6, Typed
  <2>8. recorded[a] \in Nat /\ depreciation[a] \in Nat
    BY Typed
  <2> HIDE DEF f, g, P, n
  <2>9. SumFunctionOnSet(g, P \union {c}) = SumFunctionOnSet(g, P) + g[c] /\ SumFunctionOnSet(g, P) \in Int
    BY <2>1, <2>2, <2>5, SumWith
  <2>10. SumFunctionOnSet(g, P) = SumFunctionOnSet(f, P)
    BY <2>2, <2>5, SumEqual
  <2> DEFINE before == SumFunctionOnSet(f, P)
             after == SumFunctionOnSet(g, P \union {c})
  <2>11. after = before + n /\ before \in Int /\ recorded[a] + before <= depreciation[a]
    BY <2>2, <2>6, <2>9, <2>10
  <2> HIDE DEF before, after
  <2>12. recorded[a] + after <= depreciation[a] + n
    BY <1>2, <2>8, <2>11
  <2>13. recorded'[a] + SumFunctionOnSet(g, P \union {c}) <= depreciation'[a]
    BY <2>7, <2>12 DEF after
  <2>14. IsFiniteSet(P \union {c})
    BY <2>2, FS_AddElement
  <2>15. recorded'[a] + SumFunctionOnSet(g, Posted(a)') <= depreciation'[a] /\ IsFiniteSet(Posted(a)')
    BY <2>1, <2>13, <2>14
  <2> QED
    BY <2>15 DEF PostedInv, g
<1> QED
  BY <1>5, <1>6

LEMMA EntryRecordsPosted ==
    ASSUME AssetInv, AssetInv', NEW c \in Clerks, CreateDepreciationEntry(c), NEW a \in Asset, PostedInv(a)
    PROVE  PostedInv(a)'
<1> DEFINE new == [request[c] EXCEPT !.step = "entered"]
           n == request[c].amount
<1>1. /\ request[c].step = "posted" /\ request[c].op = "depreciate"
      /\ request' = [request EXCEPT ![c] = new] /\ request'[c] = new
      /\ recorded' = [recorded EXCEPT ![request[c].asset] = @ + n] /\ depreciation' = depreciation
  BY Typed DEF CreateDepreciationEntry, EntryAmount, ledger
<1>2. /\ request[c] \in Request /\ n \in Nat /\ request[c].asset \in Asset
  <2>1. request[c].step # "idle"
    BY <1>1
  <2> QED
    BY <2>1, AtWork DEF Request
<1>3. new.step = "entered"
  BY <1>2 DEF Request
<1>4. \A d \in Clerks \ {c} : request'[d] = request[d]
  BY <1>1, Typed
<1> HIDE DEF new
<1>5. CASE request[c].asset # a
  <2>1. Posted(a)' = Posted(a)
    BY <1>1, <1>3, <1>4, <1>5 DEF Posted
  <2>2. \A d \in Posted(a)' : request'[d].amount = request[d].amount
    BY <1>1, <1>3, <1>4, <1>5 DEF Posted
  <2>3. depreciation'[a] = depreciation[a] /\ recorded'[a] = recorded[a]
    BY <1>1, <1>2, <1>5, Typed
  <2> QED
    BY <2>1, <2>2, <2>3, FewerPosted
<1>6. CASE request[c].asset = a
  <2> DEFINE f == RequestAmounts
             g == RequestAmounts'
             P == Posted(a)
  <2>1. Posted(a)' = P \ {c} /\ c \in P
    BY <1>1, <1>3, <1>4, <1>6 DEF Posted
  <2>2. /\ IsFiniteSet(P) /\ IsFiniteSet(P \ {c}) /\ P \subseteq Clerks
        /\ recorded[a] + SumFunctionOnSet(f, P) <= depreciation[a]
    BY FS_Subset DEF PostedInv, Posted
  <2>3. \A d \in Clerks : f[d] \in Nat /\ f[d] = request[d].amount
    BY PostedFacts
  <2>4. \A d \in P \ {c} : g[d] = f[d]
    BY <1>4, <2>2, <2>3 DEF RequestAmounts
  <2>5. recorded'[a] = recorded[a] + n /\ depreciation'[a] = depreciation[a]
    BY <1>1, <1>6, Typed
  <2>6. recorded[a] \in Nat /\ depreciation[a] \in Nat
    BY Typed
  <2>7. f[c] = n
    BY <2>3
  <2> HIDE DEF f, g, P, n
  <2>8. SumFunctionOnSet(f, P) = f[c] + SumFunctionOnSet(f, P \ {c})
    BY <2>1, <2>2, <2>3, SumWithout
  <2>9. SumFunctionOnSet(f, P \ {c}) \in Nat
    BY <2>2, <2>3, SumNatural
  <2>10. SumFunctionOnSet(g, P \ {c}) = SumFunctionOnSet(f, P \ {c})
    BY <2>2, <2>4, SumEqual
  <2> DEFINE before == SumFunctionOnSet(f, P)
             after == SumFunctionOnSet(g, P \ {c})
  <2>11. before = n + after /\ after \in Nat /\ recorded[a] + before <= depreciation[a]
    BY <2>2, <2>7, <2>8, <2>9, <2>10
  <2> HIDE DEF before, after
  <2>12. (recorded[a] + n) + after <= depreciation[a]
    BY <1>2, <2>6, <2>11
  <2>13. recorded'[a] + SumFunctionOnSet(g, P \ {c}) <= depreciation'[a]
    BY <2>5, <2>12 DEF after
  <2>14. recorded'[a] + SumFunctionOnSet(g, Posted(a)') <= depreciation'[a] /\ IsFiniteSet(Posted(a)')
    BY <2>1, <2>2, <2>13
  <2> QED
    BY <2>14 DEF PostedInv, g
<1> QED
  BY <1>5, <1>6

LEMMA PostedStep ==
    ASSUME AssetInv, AssetInv', Next, NEW a \in Asset, PostedInv(a)
    PROVE  PostedInv(a)'
<1>0. request \in [Clerks -> Request]
  BY Typed
<1>1. ASSUME recorded' = recorded, depreciation' = depreciation,
             \A c \in Clerks : request'[c] = request[c] \/ request'[c].step # "posted" \/ request'[c].op # "depreciate"
      PROVE  PostedInv(a)'
  BY <1>1, FewerPosted DEF Posted
<1>2. CASE RegisterStep
  <2>1. recorded' = recorded /\ depreciation' = depreciation /\ request' = request
    BY <1>2 DEF RegisterStep, DeleteAsset, UpdateAsset, CreateAsset, ImportAsset, Add, ledger
  <2> QED
    BY <1>1, <2>1
<1>3. ASSUME NEW c \in Clerks, ReadStep(c) PROVE PostedInv(a)'
  <2>1. PICK new : /\ request' = [request EXCEPT ![c] = new] /\ new.step = "read"
                   /\ recorded' = recorded /\ depreciation' = depreciation
    BY <1>3 DEF ReadStep, ReadDraft, ReadForDepreciation, ReadForDisposal, Reads, NoRequest, ledger
  <2> QED
    BY <1>0, <1>1, <2>1
<1>4. ASSUME NEW c \in Clerks, Activate(c) \/ Fail(c) \/ UpdateAssetDepreciation(c) \/ UpdateDisposal(c)
      PROVE  PostedInv(a)'
  <2>1. Done(c) /\ recorded' = recorded /\ depreciation' = depreciation
    BY <1>4 DEF Activate, Fail, UpdateAssetDepreciation, UpdateDisposal, ledger
  <2> QED
    BY <1>0, <1>1, <2>1, NoRequestFacts DEF Done
<1>5. ASSUME NEW c \in Clerks, PostDisposal(c) PROVE PostedInv(a)'
  <2>1. /\ request[c].op = "dispose" /\ recorded' = recorded /\ depreciation' = depreciation
        /\ request' = [request EXCEPT ![c].step = "posted", ![c].disposal = Len(disposals[request[c].asset]) + 1]
    BY <1>5 DEF PostDisposal
  <2>2. request'[c].op = "dispose" /\ \A d \in Clerks \ {c} : request'[d] = request[d]
    BY <1>0, <2>1 DEF Request
  <2> QED
    BY <1>1, <2>1, <2>2
<1> QED
  BY <1>2, <1>3, <1>4, <1>5, PostDepreciationPosts, EntryRecordsPosted DEF Next

\* However requests interleave, and wherever they stop, the register claims no
\* more depreciation than there are entries for, and no entry was recorded that
\* is not posted (assets/service.go:441-458).
THEOREM RegisterBacked == Spec => []Backed
<1> DEFINE PInv == \A a \in Asset : PostedInv(a)
<1>1. Init => PInv
  <2> SUFFICES ASSUME Init, NEW a \in Asset PROVE PostedInv(a)
    OBVIOUS
  <2>1. Posted(a) = {} /\ recorded[a] = 0 /\ depreciation[a] = 0
    BY NoRequestFacts DEF Init, Posted
  <2> QED
    BY <2>1, SumOfNone, FS_EmptySet DEF PostedInv
<1>2. AssetInv /\ PInv /\ [Next]_vars => PInv'
  <2> SUFFICES ASSUME AssetInv, PInv, [Next]_vars, NEW a \in Asset PROVE PostedInv(a)'
    OBVIOUS
  <2>1. AssetInv'
    BY AssetKeeps
  <2>2. CASE UNCHANGED vars
    <3>1. Posted(a)' = Posted(a) /\ RequestAmounts' = RequestAmounts /\ UNCHANGED <<recorded, depreciation>>
      BY <2>2 DEF vars, ledger, Posted, RequestAmounts
    <3> QED
      BY <3>1 DEF PostedInv
  <2> QED
    BY <2>1, <2>2, PostedStep
<1>3. AssetInv /\ PInv => Backed
  <2> SUFFICES ASSUME AssetInv, PInv, NEW a \in Asset
               PROVE  asset[a].acc <= opening[a] + recorded[a] /\ recorded[a] <= depreciation[a]
    BY DEF Backed
  <2> DEFINE sum == SumFunctionOnSet(RequestAmounts, Posted(a))
  <2>1. recorded[a] + sum <= depreciation[a] /\ sum \in Nat /\ recorded[a] \in Nat /\ depreciation[a] \in Nat
    BY PostedFacts DEF PostedInv
  <2> HIDE DEF sum
  <2>2. recorded[a] <= depreciation[a]
    BY <2>1
  <2> QED
    BY <2>2 DEF AssetInv, RowInv
<1> HIDE DEF PInv
<1> QED
  BY <1>1, <1>2, <1>3, AssetInvariant, PTL DEF Spec

-----------------------------------------------------------------------------
(* One request at a time: ledger and register *)

\* What a request about an asset has read still stands, and its posted disposal
\* clears what the register has.
UpToDate(c, a) ==
    /\ request[c].op # "activate" => request[c].acc = asset[a].acc
    /\ request[c].op = "dispose" /\ request[c].step = "posted" =>
          disposals[a][request[c].disposal] = asset[a].acc

InBooks(a)     == opening[a] + depreciation[a]
InRegister(a)  == asset[a].acc + halfway[a]

\* Of an asset that never had two requests at once.
AloneInv(a) ==
    ~overlapped[a] =>
        /\ \A c, d \in Busy(a) : c = d
        /\ \A c \in Busy(a) : UpToDate(c, a)
        /\ asset[a].disposal # 0 =>
              /\ Busy(a) = {} /\ Disposed(a)
              /\ disposals[a][asset[a].disposal] = asset[a].acc
        /\ Underway(a) = {} => InBooks(a) = InRegister(a)
        /\ \A c \in Underway(a) : InBooks(a) = InRegister(a) + request[c].amount

LEMMA Amounts ==
    ASSUME AssetInv, NEW a \in Asset
    PROVE  /\ asset[a] \in AssetRows /\ asset[a].acc \in Nat /\ asset[a].disposal \in Nat
           /\ opening[a] \in Nat /\ depreciation[a] \in Nat /\ halfway[a] \in Nat
           /\ disposals[a] \in Seq(Nat) /\ overlapped[a] \in BOOLEAN
           /\ \A c \in Clerks : request[c] \in Request /\ request[c].amount \in Nat /\ request[c].acc \in Nat
BY Typed DEF AssetRows, Request

\* Who is busy with an asset has named it.
LEMMA BusyNames ==
    ASSUME AssetInv, NEW a \in Asset
    PROVE  Busy(a) = {c \in Clerks : request[c].asset = a}
<1>1. a # None
  BY CostAssumption
<1> QED
  BY <1>1, Typed DEF Busy

\* What happens elsewhere.
LEMMA Elsewhere ==
    ASSUME AssetInv, AssetInv', NEW a \in Asset, AloneInv(a),
           asset'[a] = asset[a], opening'[a] = opening[a], depreciation'[a] = depreciation[a],
           disposals'[a] = disposals[a], halfway'[a] = halfway[a], overlapped'[a] = overlapped[a],
           \A c \in Clerks : request'[c] = request[c] \/ (request[c].asset # a /\ request'[c].asset # a)
    PROVE  AloneInv(a)'
<1>1. Busy(a)' = Busy(a)
  <2>1. Busy(a)' = {c \in Clerks : request'[c].asset = a}
    <3>1. /\ a # None
          /\ \A c \in Clerks : request'[c].step # "idle" <=> request'[c].asset # None
      BY CostAssumption DEF AssetInv, AssetTypeOK
    <3> QED
      BY <3>1 DEF Busy
  <2> QED
    BY <2>1, BusyNames
<1>2. \A c \in Busy(a) : request'[c] = request[c]
  BY BusyNames
<1>3. Underway(a)' = Underway(a) /\ Underway(a) \subseteq Busy(a)
  BY <1>1, <1>2 DEF Underway
<1>4. \A c \in Busy(a) : UpToDate(c, a)' <=> UpToDate(c, a)
  BY <1>2 DEF UpToDate
<1>5. InBooks(a)' = InBooks(a) /\ InRegister(a)' = InRegister(a) /\ (Disposed(a)' <=> Disposed(a))
  BY DEF InBooks, InRegister, Disposed
<1> QED
  BY <1>1, <1>2, <1>3, <1>4, <1>5 DEF AloneInv

\* The only request about an asset.
LEMMA OnlyRequest ==
    ASSUME AssetInv, NEW c \in Clerks, request[c].step # "idle", NEW a \in Asset, request[c].asset = a,
           AloneInv(a), ~overlapped[a]
    PROVE  /\ Busy(a) = {c} /\ UpToDate(c, a) /\ asset[a].disposal = 0
           /\ Underway(a) = {} \/ Underway(a) = {c}
           /\ c \in Underway(a) => InBooks(a) = InRegister(a) + request[c].amount
           /\ c \notin Underway(a) => InBooks(a) = InRegister(a)
<1>1. c \in Busy(a)
  BY DEF Busy
<1>2. Busy(a) = {c} /\ UpToDate(c, a) /\ asset[a].disposal = 0
  BY <1>1 DEF AloneInv
<1>3. Underway(a) \subseteq {c}
  BY <1>2 DEF Underway
<1> QED
  BY <1>2, <1>3 DEF AloneInv

LEMMA RegisterAlone ==
    ASSUME AssetInv, AssetInv', RegisterStep, NEW a \in Asset, AloneInv(a)
    PROVE  AloneInv(a)'
<1>1. UNCHANGED <<recorded, depreciation, disposals, request, halfway, overlapped>>
  BY DEF RegisterStep, DeleteAsset, UpdateAsset, CreateAsset, ImportAsset, Add, ledger, history
<1>2. asset \in [Asset -> AssetRows] /\ opening \in [Asset -> Nat]
  BY Typed
<1>3. \/ asset'[a] = asset[a] /\ opening'[a] = opening[a]
      \/ /\ asset[a].status \in {"DRAFT", "ACTIVE"} /\ opening'[a] = opening[a]
         /\ asset'[a].acc = asset[a].acc /\ asset'[a].disposal = asset[a].disposal
      \/ /\ asset[a].status = "absent" /\ asset'[a].disposal = 0
         /\ asset'[a].acc = opening'[a]
  <2>1. ASSUME NEW b \in Asset, DeleteAsset(b) PROVE <1>3
    BY <1>2, <2>1 DEF DeleteAsset, AssetRows, history
  <2>2. ASSUME NEW b \in Asset, NEW p \in Plans, UpdateAsset(b, p) PROVE <1>3
    BY <1>2, <2>2 DEF UpdateAsset, AssetRows, history
  <2>3. ASSUME NEW b \in Asset, NEW p \in Plans, CreateAsset(b, p) PROVE <1>3
    <3>1. RowInv(b)
      BY DEF AssetInv
    <3> QED
      BY <1>2, <2>3, <3>1 DEF CreateAsset, Add, AssetRow, RowInv
  <2>4. ASSUME NEW b \in Asset, NEW p \in Plans, NEW s \in {"DRAFT", "ACTIVE", "SOLD", "DISPOSED"},
               NEW o \in Openings, ImportAsset(b, p, s, o) PROVE <1>3
    BY <1>2, <2>4 DEF ImportAsset, Add, AssetRow
  <2> QED
    BY <2>1, <2>2, <2>3, <2>4 DEF RegisterStep
<1>4. CASE asset'[a] = asset[a] /\ opening'[a] = opening[a]
  BY <1>1, <1>4, Elsewhere
<1>5. Busy(a)' = Busy(a) /\ Underway(a)' = Underway(a)
  BY <1>1 DEF Busy, Underway
<1>6. CASE /\ asset[a].status \in {"DRAFT", "ACTIVE"} /\ opening'[a] = opening[a]
           /\ asset'[a].acc = asset[a].acc /\ asset'[a].disposal = asset[a].disposal
  <2>1. \A c \in Busy(a) : UpToDate(c, a)' <=> UpToDate(c, a)
    BY <1>1, <1>6 DEF UpToDate
  <2>2. InBooks(a)' = InBooks(a) /\ InRegister(a)' = InRegister(a)
    BY <1>1, <1>6 DEF InBooks, InRegister
  <2>3. ~Disposed(a)
    BY <1>6 DEF Disposed
  <2> QED
    BY <1>1, <1>5, <1>6, <2>1, <2>2, <2>3 DEF AloneInv
<1>7. CASE asset[a].status = "absent" /\ asset'[a].disposal = 0 /\ asset'[a].acc = opening'[a]
  <2>1. Busy(a) = {}
    BY <1>7 DEF AssetInv, InHand, Busy
  <2>2. Underway(a) = {}
    BY <2>1 DEF Underway
  <2>3. asset[a].acc = 0 /\ opening[a] = 0
    BY <1>7 DEF AssetInv, RowInv
  <2>4. opening[a] \in Nat /\ opening'[a] \in Nat /\ depreciation[a] \in Nat /\ halfway[a] \in Nat
    BY Amounts DEF AssetInv, AssetTypeOK
  <2>5. ~overlapped[a] => InBooks(a)' = InRegister(a)'
    BY <1>1, <1>7, <2>2, <2>3, <2>4 DEF AloneInv, InBooks, InRegister
  <2> QED
    BY <1>1, <1>5, <1>7, <2>1, <2>2, <2>5 DEF AloneInv
<1> QED
  BY <1>3, <1>4, <1>6, <1>7

LEMMA ReadsAlone ==
    ASSUME AssetInv, AssetInv', NEW c \in Clerks, ReadStep(c), NEW a \in Asset, AloneInv(a)
    PROVE  AloneInv(a)'
<1>1. PICK b, new :
         /\ b \in Asset
         /\ request[c].step = "idle" /\ new.step = "read" /\ new.asset = b
         /\ new.op # "activate" => new.acc = asset[b].acc
         /\ asset[b].status \in {"DRAFT", "ACTIVE"}
         /\ request' = [request EXCEPT ![c] = new]
         /\ overlapped' = [overlapped EXCEPT ![b] = @ \/ Busy(b) # {}]
         /\ UNCHANGED <<asset, depreciation, disposals, opening, halfway>>
  BY ZenonT(60) DEF ReadStep, ReadDraft, ReadForDepreciation, ReadForDisposal, Reads, NoRequest, ledger
<1>2. request'[c] = new /\ \A d \in Clerks \ {c} : request'[d] = request[d]
  BY <1>1, Typed
<1>3. CASE a # b
  <2>1. request[c].asset # a /\ request'[c].asset # a
    BY <1>1, <1>2, <1>3, Typed, CostAssumption
  <2>2. overlapped'[a] = overlapped[a]
    BY <1>1, <1>3, Typed
  <2> QED
    BY <1>1, <1>2, <2>1, <2>2, Elsewhere
<1>4. CASE a = b
  <2>1. SUFFICES ASSUME ~overlapped'[a] PROVE AloneInv(a)'
    BY DEF AloneInv
  <2>2. ~overlapped[a] /\ Busy(a) = {}
    BY <1>1, <1>4, <2>1, Typed
  <2>3. Busy(a)' = {c}
    BY <1>1, <1>2, <1>4, <2>2 DEF Busy
  <2>4. Underway(a)' = {} /\ Underway(a) = {}
    BY <1>1, <1>2, <2>2, <2>3 DEF Underway
  <2>5. UpToDate(c, a)'
    BY <1>1, <1>2, <1>4 DEF UpToDate
  <2>6. ~Disposed(a) /\ asset'[a] = asset[a]
    BY <1>1, <1>4 DEF Disposed
  <2>7. asset[a].disposal = 0
    BY <2>2, <2>6 DEF AloneInv
  <2>8. InBooks(a)' = InBooks(a) /\ InRegister(a)' = InRegister(a)
    BY <1>1 DEF InBooks, InRegister
  <2> QED
    BY <2>2, <2>3, <2>4, <2>5, <2>6, <2>7, <2>8 DEF AloneInv
<1> QED
  BY <1>3, <1>4

\* A request that ends leaves ledger and register in agreement.
LEMMA EndsAlone ==
    ASSUME AssetInv, AssetInv', NEW c \in Clerks,
           Activate(c) \/ Fail(c) \/ UpdateAssetDepreciation(c) \/ UpdateDisposal(c),
           NEW a \in Asset, AloneInv(a)
    PROVE  AloneInv(a)'
<1>1. /\ request[c].step # "idle" /\ Done(c)
      /\ UNCHANGED <<depreciation, disposals, opening, overlapped>>
  BY DEF Activate, Fail, UpdateAssetDepreciation, UpdateDisposal, ledger, history
<1>2. PICK b \in Asset : b = request[c].asset
  BY <1>1, AtWork
<1>3. request'[c] = NoRequest /\ \A d \in Clerks \ {c} : request'[d] = request[d]
  BY <1>1, Typed DEF Done
<1>4. request'[c].asset = None /\ a # None
  BY <1>3, NoRequestFacts, CostAssumption
<1>5. CASE a # b
  <2>1. asset'[a] = asset[a] /\ halfway'[a] = halfway[a]
    BY <1>2, <1>5, Typed DEF Activate, Fail, UpdateAssetDepreciation, UpdateDisposal, history
  <2> QED
    BY <1>1, <1>2, <1>3, <1>4, <1>5, <2>1, Elsewhere
<1>6. CASE a = b /\ ~overlapped[a]
  <2> DEFINE n == request[c].amount
  <2>1. /\ Busy(a) = {c} /\ UpToDate(c, a) /\ asset[a].disposal = 0
        /\ c \in Underway(a) => InBooks(a) = InRegister(a) + n
        /\ c \notin Underway(a) => InBooks(a) = InRegister(a)
    BY <1>1, <1>2, <1>6, OnlyRequest
  <2>2. /\ asset[a] \in AssetRows /\ asset[a].acc \in Nat /\ n \in Nat /\ halfway[a] \in Nat
        /\ opening[a] \in Nat /\ depreciation[a] \in Nat /\ InBooks(a)' = InBooks(a)
        /\ request[c].acc \in Nat /\ InHand(c) /\ request[c] \in Request
    BY <1>1, Amounts DEF InBooks, AssetInv
  <2>3. Busy(a)' = {} /\ Underway(a)' = {}
    BY <1>3, <1>4, <2>1, NoRequestFacts DEF Busy, Underway
  <2>4. c \in Underway(a) <=> request[c].op = "depreciate" /\ request[c].step \in {"posted", "entered"}
    BY <2>1 DEF Underway
  <2>5. /\ Activate(c) \/ UpdateDisposal(c) => asset'[a].acc = asset[a].acc
        /\ Activate(c) \/ UpdateAssetDepreciation(c) \/ Fail(c) => asset'[a].disposal = asset[a].disposal
    <3>0. asset \in [Asset -> AssetRows] /\ request[c].asset = a
      BY <1>2, <1>6, Typed
    <3>1. CASE Activate(c)
      BY <2>2, <3>0, <3>1 DEF Activate, AssetRows, UpdateDisposal, UpdateAssetDepreciation, Fail
    <3>2. CASE UpdateDisposal(c)
      BY <2>2, <3>0, <3>2 DEF Activate, AssetRows, UpdateDisposal, UpdateAssetDepreciation, Fail
    <3>3. CASE UpdateAssetDepreciation(c)
      BY <2>2, <3>0, <3>3 DEF Activate, AssetRows, UpdateDisposal, UpdateAssetDepreciation, Fail
    <3>4. CASE Fail(c)
      BY <2>2, <3>0, <3>4 DEF Activate, AssetRows, UpdateDisposal, UpdateAssetDepreciation, Fail
    <3> QED
      BY <3>1, <3>2, <3>3, <3>4
  <2>6. InBooks(a) = InRegister(a)'
    <3>1. CASE Activate(c) \/ UpdateDisposal(c)
      <4>1. request[c].op # "depreciate" /\ halfway' = halfway
        BY <3>1 DEF Activate, UpdateDisposal, history
      <4>2. asset'[a].acc = asset[a].acc
        BY <2>5, <3>1
      <4> QED
        BY <2>1, <2>4, <4>1, <4>2 DEF InRegister
    <3>2. CASE UpdateAssetDepreciation(c)
      <4>1. request[c].step = "entered" /\ request[c].op = "depreciate" /\ request[c].acc = asset[a].acc
        BY <2>1, <2>2, <3>2 DEF UpdateAssetDepreciation, InHand, UpToDate
      <4>2. asset'[a].acc = request[c].acc + n /\ halfway' = halfway
        BY <1>2, <1>6, <2>2, <3>2, Typed DEF UpdateAssetDepreciation, NewAccumulated, history, AssetRows
      <4>3. InBooks(a) = (asset[a].acc + halfway[a]) + n
        BY <2>1, <2>4, <4>1 DEF InRegister
      <4> HIDE DEF n
      <4> QED
        BY <2>2, <4>1, <4>2, <4>3 DEF InRegister
    <3>3. CASE Fail(c)
      <4>1. asset'[a] = asset[a]
        BY <3>3 DEF Fail
      <4>2. CASE c \in Underway(a)
        <5>1. halfway'[a] = halfway[a] + n
          BY <1>2, <1>6, <2>4, <3>3, <4>2, Typed DEF Fail
        <5>2. InBooks(a) = (asset[a].acc + halfway[a]) + n
          BY <2>1, <4>2 DEF InRegister
        <5> HIDE DEF n
        <5> QED
          BY <2>2, <4>1, <5>1, <5>2 DEF InRegister
      <4>3. CASE c \notin Underway(a)
        <5>1. ~(request[c].op = "depreciate" /\ request[c].step # "read")
          BY <1>1, <2>2, <2>4, <4>3 DEF Request
        <5>2. halfway' = halfway
          BY <3>3, <5>1 DEF Fail
        <5> QED
          BY <2>1, <4>1, <4>3, <5>2 DEF InRegister
      <4> QED
        BY <4>2, <4>3
    <3> QED
      BY <3>1, <3>2, <3>3
  <2>7. asset'[a].disposal # 0 => Disposed(a)' /\ disposals'[a][asset'[a].disposal] = asset'[a].acc
    <3>1. CASE Activate(c) \/ UpdateAssetDepreciation(c) \/ Fail(c)
      BY <2>1, <2>5, <3>1
    <3>2. CASE UpdateDisposal(c) /\ ~StillActive(a)
      <4>1. asset'[a].disposal = asset[a].disposal
        BY <1>2, <1>6, <3>2 DEF UpdateDisposal
      <4> QED
        BY <2>1, <4>1
    <3>3. CASE UpdateDisposal(c) /\ StillActive(a)
      <4>1. /\ asset'[a].status = request[c].status /\ asset'[a].acc = asset[a].acc
            /\ asset'[a].disposal = request[c].disposal
            /\ request[c].op = "dispose" /\ request[c].step = "posted"
        BY <1>2, <1>6, <2>2, <3>3, Typed DEF UpdateDisposal, AssetRows
      <4>2. request[c].status \in {"SOLD", "DISPOSED"}
        BY <2>2, <4>1 DEF InHand, Request
      <4> QED
        BY <1>1, <2>1, <4>1, <4>2 DEF Disposed, UpToDate
    <3> QED
      BY <3>1, <3>2, <3>3
  <2> QED
    BY <2>2, <2>3, <2>6, <2>7 DEF AloneInv
<1>7. CASE overlapped[a]
  BY <1>1, <1>7 DEF AloneInv
<1> QED
  BY <1>5, <1>6, <1>7

LEMMA PostsAlone ==
    ASSUME AssetInv, AssetInv', NEW c \in Clerks,
           PostDepreciation(c) \/ CreateDepreciationEntry(c) \/ PostDisposal(c),
           NEW a \in Asset, AloneInv(a)
    PROVE  AloneInv(a)'
<1>1. /\ request[c].step # "idle" /\ UNCHANGED <<asset, opening, halfway, overlapped>>
  BY DEF PostDepreciation, CreateDepreciationEntry, PostDisposal, ledger, history
<1>2. PICK b \in Asset : b = request[c].asset
  BY <1>1, AtWork
<1> DEFINE n == request[c].amount
<1>3. request[c] \in Request /\ n \in Nat /\ request[c].acc \in Nat /\ request \in [Clerks -> Request]
  BY Typed, Amounts
<1>4. \A d \in Clerks \ {c} : request'[d] = request[d]
  BY <1>3 DEF PostDepreciation, CreateDepreciationEntry, PostDisposal
<1>5. /\ request'[c].asset = b /\ request'[c].amount = n /\ request'[c].acc = request[c].acc
      /\ request'[c].op = request[c].op /\ request'[c].step # "idle"
  BY <1>2, <1>3 DEF PostDepreciation, CreateDepreciationEntry, PostDisposal, Request
<1>6. CASE a # b
  <2>1. depreciation'[a] = depreciation[a] /\ disposals'[a] = disposals[a]
    BY <1>2, <1>6, Typed DEF PostDepreciation, CreateDepreciationEntry, PostDisposal, ledger
  <2> QED
    BY <1>1, <1>2, <1>4, <1>5, <1>6, <2>1, Elsewhere
<1>7. CASE a = b /\ ~overlapped[a]
  <2>1. /\ Busy(a) = {c} /\ UpToDate(c, a) /\ asset[a].disposal = 0
        /\ c \in Underway(a) => InBooks(a) = InRegister(a) + n
        /\ c \notin Underway(a) => InBooks(a) = InRegister(a)
    BY <1>1, <1>2, <1>7, OnlyRequest
  <2>2. Busy(a)' = {c}
    BY <1>1, <1>4, <1>5, <1>7, <2>1 DEF Busy
  <2>3. /\ Underway(a) = IF request[c].op = "depreciate" /\ request[c].step \in {"posted", "entered"} THEN {c} ELSE {}
        /\ Underway(a)' = IF request'[c].op = "depreciate" /\ request'[c].step \in {"posted", "entered"} THEN {c} ELSE {}
    BY <2>1, <2>2 DEF Underway
  <2>4. /\ asset[a].acc \in Nat /\ opening[a] \in Nat /\ depreciation[a] \in Nat /\ halfway[a] \in Nat
        /\ disposals[a] \in Seq(Nat) /\ InRegister(a)' = InRegister(a) /\ InRegister(a) \in Nat
    BY <1>1, Amounts DEF InRegister
  <2>5. CASE PostDepreciation(c)
    <3>1. /\ request[c].step = "read" /\ request[c].op = "depreciate" /\ request'[c].step = "posted"
          /\ depreciation'[a] = depreciation[a] + n
      BY <1>2, <1>3, <1>7, <2>5, Typed DEF PostDepreciation, Request
    <3>2. opening[a] + depreciation[a] = InRegister(a)
      BY <2>1, <2>3, <3>1 DEF InBooks
    <3> HIDE DEF n
    <3>3. InBooks(a)' = InRegister(a) + n
      BY <1>1, <1>3, <2>4, <3>1, <3>2 DEF InBooks
    <3>4. UpToDate(c, a)'
      BY <1>1, <1>5, <2>1, <3>1 DEF UpToDate
    <3>5. Underway(a)' = {c}
      BY <1>5, <2>3, <3>1
    <3> QED
      BY <1>1, <1>5, <2>1, <2>2, <2>4, <3>3, <3>4, <3>5 DEF AloneInv
  <2>6. CASE CreateDepreciationEntry(c)
    <3>1. /\ request[c].step = "posted" /\ request[c].op = "depreciate" /\ request'[c].step = "entered"
          /\ depreciation' = depreciation
      BY <1>3, <2>6 DEF CreateDepreciationEntry, Request, ledger
    <3>2. Underway(a)' = {c} /\ c \in Underway(a)
      BY <1>5, <2>3, <3>1
    <3>3. InBooks(a)' = InRegister(a) + n
      BY <1>1, <2>1, <3>1, <3>2 DEF InBooks
    <3>4. UpToDate(c, a)'
      BY <1>1, <1>5, <2>1, <3>1 DEF UpToDate
    <3> QED
      BY <1>1, <1>5, <2>1, <2>2, <2>4, <3>2, <3>3, <3>4 DEF AloneInv
  <2>7. CASE PostDisposal(c)
    <3>1. /\ request[c].step = "read" /\ request[c].op = "dispose" /\ depreciation' = depreciation
          /\ disposals'[a] = Append(disposals[a], request[c].acc)
          /\ request'[c].disposal = Len(disposals[a]) + 1
      BY <1>2, <1>3, <1>7, <2>7, Typed DEF PostDisposal, Request
    <3>2. Append(disposals[a], request[c].acc)[Len(disposals[a]) + 1] = request[c].acc
      BY <1>3, <2>4
    <3>3. request[c].acc = asset[a].acc
      BY <2>1, <3>1 DEF UpToDate
    <3>4. UpToDate(c, a)'
      BY <1>1, <1>5, <3>1, <3>2, <3>3 DEF UpToDate
    <3>5. Underway(a)' = {} /\ c \notin Underway(a)
      BY <1>5, <2>3, <3>1
    <3>6. InBooks(a)' = InRegister(a)
      BY <1>1, <2>1, <3>1, <3>5 DEF InBooks
    <3> QED
      BY <1>1, <2>1, <2>2, <2>4, <3>4, <3>5, <3>6 DEF AloneInv
  <2> QED
    BY <2>5, <2>6, <2>7
<1>8. CASE overlapped[a]
  BY <1>1, <1>8 DEF AloneInv
<1>9. overlapped[a] \in BOOLEAN
  BY Amounts
<1> QED
  BY <1>6, <1>7, <1>8, <1>9

\* As long as one request at a time is about an asset, ledger and register
\* differ by what a failure left half-way only, and the entry of its disposal
\* clears what the register has accumulated (docs/API.md:2388).
THEOREM BooksInAgreement == Spec => []BooksAgree
<1> DEFINE Alone == \A a \in Asset : AloneInv(a)
<1>1. Init => Alone
  <2> SUFFICES ASSUME Init, NEW a \in Asset PROVE AloneInv(a)
    OBVIOUS
  <2>1. Busy(a) = {} /\ Underway(a) = {}
    BY NoRequestFacts DEF Init, Busy, Underway
  <2>2. /\ asset[a].disposal = 0 /\ asset[a].acc = 0 /\ opening[a] = 0 /\ depreciation[a] = 0
        /\ halfway[a] = 0
    BY DEF Init, AssetRow
  <2>3. InBooks(a) = InRegister(a)
    BY <2>2 DEF InBooks, InRegister
  <2> QED
    BY <2>1, <2>2, <2>3 DEF AloneInv
<1>2. AssetInv /\ Alone /\ [Next]_vars => Alone'
  <2> SUFFICES ASSUME AssetInv, Alone, [Next]_vars, NEW a \in Asset PROVE AloneInv(a)'
    OBVIOUS
  <2>1. AssetInv' /\ AloneInv(a)
    BY AssetKeeps
  <2>2. CASE UNCHANGED vars
    BY <2>1, <2>2, Elsewhere DEF vars, ledger, history
  <2>3. CASE Next
    BY <2>1, <2>3, RegisterAlone, ReadsAlone, EndsAlone, PostsAlone DEF Next
  <2> QED
    BY <2>2, <2>3
<1>3. AssetInv /\ Alone => BooksAgree
  <2> SUFFICES ASSUME AssetInv, Alone, NEW a \in Asset, ~overlapped[a]
               PROVE  /\ \/ Underway(a) = {} /\ opening[a] + depreciation[a] = asset[a].acc + halfway[a]
                         \/ \E c \in Clerks :
                               /\ Underway(a) = {c}
                               /\ opening[a] + depreciation[a] = asset[a].acc + halfway[a] + request[c].amount
                      /\ asset[a].disposal # 0 => disposals[a][asset[a].disposal] = asset[a].acc
    BY DEF BooksAgree
  <2>1. AloneInv(a)
    OBVIOUS
  <2>2. CASE Underway(a) = {}
    BY <2>1, <2>2 DEF AloneInv, InBooks, InRegister
  <2>3. ASSUME NEW c \in Underway(a) PROVE c \in Clerks /\ Underway(a) = {c}
    BY <2>1, <2>3 DEF AloneInv, Underway, Busy
  <2>4. CASE Underway(a) # {}
    BY <2>1, <2>3, <2>4 DEF AloneInv, InBooks, InRegister
  <2> QED
    BY <2>2, <2>4
<1> HIDE DEF Alone
<1> QED
  BY <1>1, <1>2, <1>3, AssetInvariant, PTL DEF Spec
=============================================================================
