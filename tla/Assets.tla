------------------------------- MODULE Assets -------------------------------
(***************************************************************************)
(* internal/assets: the register of fixed assets, their depreciation and   *)
(* their disposal.                                                         *)
(*                                                                         *)
(* Recording depreciation reads the asset, posts a journal entry, records  *)
(* a depreciation entry and writes the new values to the asset, each in a  *)
(* transaction of its own.  Disposing of an asset posts a journal entry    *)
(* before it marks the asset.  Amounts are cents.                          *)
(***************************************************************************)
EXTENDS Integers, Sequences

CONSTANTS
    Asset,
    Clerks,      \* requests that may be under way at once
    Cost,        \* purchase cost of every asset
    Plans,       \* depreciation settings: method, useful life, residual value
    Openings,    \* accumulated depreciation of imported assets
    MaxRequests, \* bound: requests that take more than one transaction
    None

ASSUME CostAssumption == Cost \in Nat \ {0} /\ MaxRequests \in Nat /\ None \notin Asset
\* Validate
ASSUME PlansAssumption ==
    /\ Plans # {}
    /\ Plans \subseteq [method : {"STRAIGHT_LINE", "DECLINING_BALANCE"}, life : Nat \ {0}, residual : 0..Cost]
ASSUME OpeningsAssumption == Openings \subseteq Nat

VARIABLES
    asset,        \* fixed_assets
    recorded,     \* sum of the depreciation_entries of an asset
    depreciation, \* posted to accumulated depreciation for an asset
    disposals,    \* posted disposals of an asset: the accumulated depreciation they clear
    request,      \* what each clerk's request has read
    opening,      \* history: accumulated depreciation that was imported
    halfway,      \* history: posted, and never added to the asset
    overlapped,   \* history: assets with two requests at once
    requests

history == <<opening, halfway, overlapped>>
ledger  == <<depreciation, disposals>>
vars    == <<asset, recorded, ledger, request, history, requests>>

-----------------------------------------------------------------------------
(* The register *)

Status == {"absent", "DRAFT", "ACTIVE", "SOLD", "DISPOSED", "deleted"}

AssetRow(status, plan, acc) ==
    [status |-> status, plan |-> plan, acc |-> acc, book |-> Cost - acc, disposal |-> 0]

Request ==
    [step : {"idle", "read", "posted", "entered"}, op : {"none", "depreciate", "dispose", "activate"},
     asset : Asset \union {None}, acc : Nat, amount : Nat, disposal : Nat,
     status : {"none", "SOLD", "DISPOSED"}]

NoRequest == [step |-> "idle", op |-> "none", asset |-> None, acc |-> 0, amount |-> 0,
              disposal |-> 0, status |-> "none"]

Init ==
    /\ asset = [a \in Asset |-> AssetRow("absent", CHOOSE p \in Plans : TRUE, 0)]
    /\ recorded = [a \in Asset |-> 0] /\ depreciation = recorded /\ halfway = recorded
    /\ opening = recorded
    /\ disposals = [a \in Asset |-> <<>>]
    /\ overlapped = [a \in Asset |-> FALSE]
    /\ request = [c \in Clerks |-> NoRequest]
    /\ requests = 0

Add(a, row) ==
    /\ asset[a].status = "absent"
    /\ asset' = [asset EXCEPT ![a] = row]
    /\ UNCHANGED <<recorded, ledger, request, halfway, overlapped, requests>>

CreateAsset(a, plan) == Add(a, AssetRow("DRAFT", plan, 0)) /\ UNCHANGED opening

\* An import may bring any status, and never a disposal entry.
ImportAsset(a, plan, status, acc) ==
    /\ acc <= Cost - plan.residual
    /\ Add(a, AssetRow(status, plan, acc))
    /\ opening' = [opening EXCEPT ![a] = acc]

\* The row is written where it is still a draft or active.
UpdateAsset(a, plan) ==
    /\ asset[a].status \in {"DRAFT", "ACTIVE"}
    /\ asset' = [asset EXCEPT ![a].plan = plan]
    /\ UNCHANGED <<recorded, ledger, request, history, requests>>

DeleteAsset(a) ==
    /\ asset[a].status = "DRAFT"
    /\ asset' = [asset EXCEPT ![a].status = "deleted"]
    /\ UNCHANGED <<recorded, ledger, request, history, requests>>

-----------------------------------------------------------------------------
(* Requests *)

Busy(a) == {c \in Clerks : request[c].step # "idle" /\ request[c].asset = a}

Reads(c, a, status, read) ==
    /\ request[c].step = "idle" /\ requests < MaxRequests
    /\ asset[a].status = status
    /\ request' = [request EXCEPT ![c] = read]
    /\ requests' = requests + 1
    /\ overlapped' = [overlapped EXCEPT ![a] = @ \/ Busy(a) # {}]
    /\ UNCHANGED <<asset, recorded, ledger, opening, halfway>>

\* Mutant: the clerk still holds the asset of the request before.
DoneHolding(c) == request' = [request EXCEPT ![c].step = "idle"]

Done(c) == request' = [request EXCEPT ![c] = NoRequest]

\* A statement fails or the server stops.
Fail(c) ==
    LET a == request[c].asset
    IN  /\ request[c].step # "idle" /\ Done(c)
        /\ halfway' = IF request[c].op = "depreciate" /\ request[c].step # "read"
                      THEN [halfway EXCEPT ![a] = @ + request[c].amount] ELSE halfway
        /\ UNCHANGED <<asset, recorded, ledger, opening, overlapped, requests>>

(* Activate *)

ReadDraft(c, a) ==
    Reads(c, a, "DRAFT", [NoRequest EXCEPT !.step = "read", !.op = "activate", !.asset = a])

\* UpdateStatus writes whatever the status is by now; a deleted row is not found.
Activate(c) ==
    LET a == request[c].asset
    IN  /\ request[c].step = "read" /\ request[c].op = "activate" /\ Done(c)
        /\ asset' = IF asset[a].status = "deleted" THEN asset ELSE [asset EXCEPT ![a].status = "ACTIVE"]
        /\ UNCHANGED <<recorded, ledger, history, requests>>

(* RecordDepreciation *)

\* Round(2): half a cent and more is rounded up.
Rounded(n, m) == (2 * n + m) \div (2 * m)

\* A declining balance over less than a year divides by zero, and the request panics.
CanCalculate(plan) == plan.method = "DECLINING_BALANCE" => plan.life >= 12

CalculateMonthlyDepreciation(row) ==
    IF row.plan.method = "DECLINING_BALANCE"
    THEN Rounded(2 * row.book, 12 * (row.plan.life \div 12))
    ELSE Rounded(Cost - row.plan.residual, row.plan.life)

\* Mutant: the last month's amount is not cut.
Uncut(row) == CalculateMonthlyDepreciation(row)

DepreciationAmount(row) ==
    LET most == Cost - row.plan.residual - row.acc
    IN  IF CalculateMonthlyDepreciation(row) > most THEN most ELSE CalculateMonthlyDepreciation(row)

ReadForDepreciation(c, a) ==
    /\ asset[a].plan.residual < Cost /\ CanCalculate(asset[a].plan) /\ DepreciationAmount(asset[a]) > 0
    /\ Reads(c, a, "ACTIVE", [NoRequest EXCEPT !.step = "read", !.op = "depreciate", !.asset = a,
                                               !.acc = asset[a].acc,
                                               !.amount = DepreciationAmount(asset[a])])

\* CreateJournalEntry and PostJournalEntry: a draft changes no balance.
PostDepreciation(c) ==
    LET a == request[c].asset
    IN  /\ request[c].step = "read" /\ request[c].op = "depreciate"
        /\ depreciation' = [depreciation EXCEPT ![a] = @ + request[c].amount]
        /\ request' = [request EXCEPT ![c].step = "posted"]
        /\ UNCHANGED <<asset, recorded, disposals, history, requests>>

\* Mutant: the entry has the accumulated total, not the amount.
EntryTotal(c) == request[c].acc + request[c].amount

EntryAmount(c) == request[c].amount

CreateDepreciationEntry(c) ==
    LET a == request[c].asset
    IN  /\ request[c].step = "posted" /\ request[c].op = "depreciate"
        /\ recorded' = [recorded EXCEPT ![a] = @ + EntryAmount(c)]
        /\ request' = [request EXCEPT ![c].step = "entered"]
        /\ UNCHANGED <<asset, ledger, history, requests>>

\* Mutant: the month's amount replaces the accumulated one.
AmountOnly(c) == request[c].amount

NewAccumulated(c) == request[c].acc + request[c].amount

\* Writes the values worked out from what was read, whatever the asset is by now.
UpdateAssetDepreciation(c) ==
    LET a == request[c].asset
    IN  /\ request[c].step = "entered" /\ Done(c)
        /\ asset' = [asset EXCEPT ![a].acc = NewAccumulated(c), ![a].book = Cost - NewAccumulated(c)]
        /\ UNCHANGED <<recorded, ledger, history, requests>>

(* Dispose *)

ReadForDisposal(c, a, status) ==
    Reads(c, a, "ACTIVE", [NoRequest EXCEPT !.step = "read", !.op = "dispose", !.asset = a,
                                            !.acc = asset[a].acc, !.status = status])

PostDisposal(c) ==
    LET a == request[c].asset
    IN  /\ request[c].step = "read" /\ request[c].op = "dispose"
        /\ disposals' = [disposals EXCEPT ![a] = Append(@, request[c].acc)]
        /\ request' = [request EXCEPT ![c].step = "posted", ![c].disposal = Len(disposals[a]) + 1]
        /\ UNCHANGED <<asset, recorded, depreciation, history, requests>>

\* Mutant: the UPDATE does not name the status.
AnyRow(a) == asset[a].status # "absent"

StillActive(a) == asset[a].status = "ACTIVE"

\* Of an asset no longer active no row is updated: an error, after the entry.
UpdateDisposal(c) ==
    LET a == request[c].asset
    IN  /\ request[c].step = "posted" /\ request[c].op = "dispose" /\ Done(c)
        /\ asset' = IF StillActive(a)
                    THEN [asset EXCEPT ![a].status = request[c].status,
                                       ![a].disposal = request[c].disposal]
                    ELSE asset
        /\ UNCHANGED <<recorded, ledger, history, requests>>

-----------------------------------------------------------------------------

RegisterStep ==
    \E a \in Asset :
        \/ DeleteAsset(a)
        \/ \E p \in Plans :
              \/ CreateAsset(a, p) \/ UpdateAsset(a, p)
              \/ \E s \in {"DRAFT", "ACTIVE", "SOLD", "DISPOSED"}, o \in Openings : ImportAsset(a, p, s, o)

ReadStep(c) ==
    \E a \in Asset :
        \/ ReadDraft(c, a) \/ ReadForDepreciation(c, a)
        \/ \E s \in {"SOLD", "DISPOSED"} : ReadForDisposal(c, a, s)

Next ==
    \/ RegisterStep
    \/ \E c \in Clerks :
          \/ ReadStep(c) \/ Activate(c) \/ Fail(c)
          \/ PostDepreciation(c) \/ CreateDepreciationEntry(c) \/ UpdateAssetDepreciation(c)
          \/ PostDisposal(c) \/ UpdateDisposal(c)

Spec == Init /\ [][Next]_vars

-----------------------------------------------------------------------------
(* Properties *)

AssetTypeOK ==
    /\ asset \in [Asset -> [status : Status, plan : Plans, acc : Nat, book : Int, disposal : Nat]]
    /\ recorded \in [Asset -> Nat] /\ depreciation \in [Asset -> Nat]
    /\ disposals \in [Asset -> Seq(Nat)]
    /\ request \in [Clerks -> Request]
    /\ opening \in [Asset -> Nat] /\ halfway \in [Asset -> Nat] /\ overlapped \in [Asset -> BOOLEAN]
    /\ requests \in 0..MaxRequests
    /\ \A c \in Clerks : request[c].step # "idle" <=> request[c].asset # None

\* However requests interleave and settings change meanwhile, an asset is not
\* written down below zero, and its book value is its cost less what is
\* accumulated (assets/service.go:416-424).
ValueAddsUp ==
    \A a \in Asset : asset[a].acc <= Cost /\ asset[a].book = Cost - asset[a].acc

\* However requests interleave, and wherever they stop, the register claims no
\* more depreciation than there are entries for, and no entry was recorded that
\* is not posted (assets/service.go:441-458).
Backed ==
    \A a \in Asset :
        asset[a].acc <= opening[a] + recorded[a] /\ recorded[a] <= depreciation[a]

\* As long as one request at a time is about an asset, ledger and register
\* differ by what a failure left half-way only, and the entry of its disposal
\* clears what the register has accumulated (docs/API.md:2388, "clears cost and
\* accumulated depreciation").
Underway(a) == {c \in Busy(a) : request[c].op = "depreciate" /\ request[c].step \in {"posted", "entered"}}

BooksAgree ==
    \A a \in Asset : ~overlapped[a] =>
        /\ \/ Underway(a) = {} /\ opening[a] + depreciation[a] = asset[a].acc + halfway[a]
           \/ \E c \in Clerks :
                 /\ Underway(a) = {c}
                 /\ opening[a] + depreciation[a] = asset[a].acc + halfway[a] + request[c].amount
        /\ asset[a].disposal # 0 => disposals[a][asset[a].disposal] = asset[a].acc

\* A disposal stands: no second disposal replaces it, and only an activation
\* that had found a draft brings the asset back (assets/repository.go:304).
Disposed(a) == asset[a].status \in {"SOLD", "DISPOSED"}

DisposalStands ==
    [][\A a \in Asset : Disposed(a) =>
          /\ asset'[a].disposal = asset[a].disposal
          /\ \/ asset'[a].status = asset[a].status
             \/ \E c \in Clerks : request[c].asset = a /\ Activate(c)]_vars
=============================================================================
