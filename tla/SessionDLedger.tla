--------------------------- MODULE SessionDLedger ---------------------------
(***************************************************************************)
(* The Session D draft over the ledger, src/session-d.mjs: holds,          *)
(* reversals and suspense parking.  Every operation checks its own state,  *)
(* posts through the ledger and records what it did only if the posting    *)
(* returned, which it also does for a command the ledger replays.          *)
(*                                                                         *)
(* Commands covers what callers send, retries and refused calls included.  *)
(* The plain post() takes every journal type; Direct names the types       *)
(* callers hand to it, because hold, reversal and suspense journals have   *)
(* an operation of their own.  Commands move one asset: the operations on  *)
(* suspense bind the first suspense leg of a journal only.                 *)
(***************************************************************************)
EXTENDS Ledger

CONSTANTS
  Commands,   \* the commands callers send
  Direct,     \* the journal types they post without an operation
  Null

VARIABLES
  holds,                \* the holds, by reservation id
  breaks,               \* the parked reconciliation breaks, by reference
  reversedJournalIds    \* the journals reverseJournal corrected

vars == <<journals, postedEntryIds, idempotency, holds, breaks,
          reversedJournalIds>>

DraftInit ==
  /\ LedgerInit
  /\ holds = << >>
  /\ breaks = << >>
  /\ reversedJournalIds = {}

ReversalOf == [SYNTHETIC_PROVIDER_POSITION |-> "SYNTHETIC_PROVIDER_POSITION_REVERSAL"]

Reversals == {ReversalOf[type] : type \in DOMAIN ReversalOf}

(* The one leg on a control account each posting rule of the draft has,    *)
(* if it has any.                                                          *)
ControlLegOf ==
  [SYNTHETIC_HOLD_CREATE        |-> <<"CUSTOMER_HELD_LIABILITY", "CREDIT">>,
   SYNTHETIC_HOLD_RELEASE       |-> <<"CUSTOMER_HELD_LIABILITY", "DEBIT">>,
   SYNTHETIC_SUSPENSE_PARK_IN   |-> <<"SUSPENSE_ASSET", "DEBIT">>,
   SYNTHETIC_SUSPENSE_PARK_OUT  |-> <<"SUSPENSE_LIABILITY", "CREDIT">>,
   SYNTHETIC_SUSPENSE_CLEAR_IN  |-> <<"SUSPENSE_ASSET", "CREDIT">>,
   SYNTHETIC_SUSPENSE_CLEAR_OUT |-> <<"SUSPENSE_LIABILITY", "DEBIT">>]

Parks == {"SYNTHETIC_SUSPENSE_PARK_IN", "SYNTHETIC_SUSPENSE_PARK_OUT"}

Clears == {"SYNTHETIC_SUSPENSE_CLEAR_IN", "SYNTHETIC_SUSPENSE_CLEAR_OUT"}

Control == {"CUSTOMER_HELD_LIABILITY", "SUSPENSE_ASSET", "SUSPENSE_LIABILITY"}

(* The draft's chart and posting rules, and what callers send.             *)
ASSUME DraftConstants ==
  /\ Control \cap CreditNormal = Control \ {"SUSPENSE_ASSET"}
  /\ \A type \in DOMAIN Rules :
       {leg \in Rules[type].entry_pattern : leg[1] \in Control} =
         IF type \in DOMAIN ControlLegOf THEN {ControlLegOf[type]} ELSE {}
  /\ Direct \cap (DOMAIN ControlLegOf \cup Reversals) = {}
  /\ \A c \in Commands :
       /\ IsFiniteSet(c.entries)
       /\ \A e \in c.entries : e.amount \in Nat /\ e.side \in Sides
       /\ c.journal_type \in Parks \cup Clears =>
            \A e, f \in c.entries : e.asset_code = f.asset_code

AccountsDefined(code) ==
  {a \in Accounts : AccountOf[a].definition_code = code}

HeldAccounts == AccountsDefined("CUSTOMER_HELD_LIABILITY")

SettledAccounts == AccountsDefined("CUSTOMER_SETTLED_LIABILITY")

Opposite(side) == IF side = "DEBIT" THEN "CREDIT" ELSE "DEBIT"

On(c, accounts) == {e \in c.entries : e.account_id \in accounts}

(* A hold journal has one held leg on the given side and one settled leg   *)
(* on the other.                                                           *)
HoldShaped(c, heldSide) ==
  /\ Cardinality(c.entries) = 2
  /\ Cardinality(On(c, HeldAccounts)) = 1
  /\ Cardinality(On(c, SettledAccounts)) = 1
  /\ \A e \in On(c, HeldAccounts) : e.side = heldSide
  /\ \A e \in On(c, SettledAccounts) : e.side = Opposite(heldSide)

HeldLeg(c) == CHOOSE e \in On(c, HeldAccounts) : TRUE

SettledLeg(c) == CHOOSE e \in On(c, SettledAccounts) : TRUE

(* post() of a command that has no operation of its own.                   *)
PostDirectly(c) ==
  /\ c.journal_type \in Direct
  /\ Post(c)
  /\ UNCHANGED <<holds, breaks, reversedJournalIds>>

CreateHold(c) ==
  /\ c.journal_type = "SYNTHETIC_HOLD_CREATE"
  /\ HoldShaped(c, "CREDIT")
  /\ HeldLeg(c).asset_code = SettledLeg(c).asset_code
  /\ HeldLeg(c).amount = SettledLeg(c).amount
  /\ c.reference \notin DOMAIN holds
  /\ Post(c)
  /\ holds' = Put(holds, c.reference,
       [create_journal_id |-> c.journal_id,
        held_account_id |-> HeldLeg(c).account_id,
        settled_account_id |-> SettledLeg(c).account_id,
        asset_code |-> HeldLeg(c).asset_code,
        amount |-> HeldLeg(c).amount,
        state |-> "open"])
  /\ UNCHANGED <<breaks, reversedJournalIds>>

MirrorsHoldAccounts(c, hold) ==
  /\ HeldLeg(c).account_id = hold.held_account_id
  /\ SettledLeg(c).account_id = hold.settled_account_id
  /\ HeldLeg(c).asset_code = hold.asset_code

MirrorsHold(c, hold) ==
  /\ HeldLeg(c).account_id = hold.held_account_id
  /\ SettledLeg(c).account_id = hold.settled_account_id
  /\ HeldLeg(c).asset_code = hold.asset_code
  /\ HeldLeg(c).amount = hold.amount
  /\ SettledLeg(c).amount = hold.amount

ReleaseHold(c) ==
  /\ c.journal_type = "SYNTHETIC_HOLD_RELEASE"
  /\ c.reference \in DOMAIN holds
  /\ holds[c.reference].state = "open"
  /\ c.causation_id = holds[c.reference].create_journal_id
  /\ HoldShaped(c, "DEBIT")
  /\ MirrorsHold(c, holds[c.reference])
  /\ Post(c)
  /\ holds' = [holds EXCEPT ![c.reference].state = "released"]
  /\ UNCHANGED <<breaks, reversedJournalIds>>

Leg(e, side) ==
  [account_id |-> e.account_id, asset_code |-> e.asset_code,
   amount |-> e.amount, side |-> side]

Mirrors(c, original) ==
  /\ Cardinality(c.entries) = Cardinality(original.entries)
  /\ {Leg(e, e.side) : e \in c.entries} =
       {Leg(e, Opposite(e.side)) : e \in original.entries}

ReverseJournal(c) ==
  /\ \E j \in journals :
       /\ j.command.journal_id = c.causation_id
       /\ j.command.journal_type \in DOMAIN ReversalOf
       /\ c.journal_type = ReversalOf[j.command.journal_type]
       /\ c.causation_id \notin reversedJournalIds
       /\ c.source_type = "journal_reversal"
       /\ c.reference = c.causation_id
       /\ Mirrors(c, j.command)
  /\ Post(c)
  /\ reversedJournalIds' = reversedJournalIds \cup {c.causation_id}
  /\ UNCHANGED <<holds, breaks>>

Direction(c) ==
  IF c.journal_type \in {"SYNTHETIC_SUSPENSE_PARK_IN", "SYNTHETIC_SUSPENSE_CLEAR_IN"}
  THEN "IN" ELSE "OUT"

SuspenseAccounts(direction) ==
  AccountsDefined(IF direction = "IN" THEN "SUSPENSE_ASSET" ELSE "SUSPENSE_LIABILITY")

ParkSuspense(c) ==
  /\ c.journal_type \in Parks
  /\ c.source_type = "reconciliation_break"
  /\ c.reference \notin DOMAIN breaks
  /\ Post(c)
  /\ breaks' = Put(breaks, c.reference,
       [park_journal_id |-> c.journal_id, direction |-> Direction(c),
        state |-> "open"])
  /\ UNCHANGED <<holds, reversedJournalIds>>

(* The suspense leg of the clear names the account, asset and amount the   *)
(* park booked.                                                            *)
ReusesPark(c, park) ==
  \E e \in On(c, SuspenseAccounts(Direction(park))),
     f \in On(park, SuspenseAccounts(Direction(park))) :
    Leg(e, "DEBIT") = Leg(f, "DEBIT")

ClearSuspense(c) ==
  /\ c.journal_type \in Clears
  /\ \E ref \in DOMAIN breaks, j \in journals :
       /\ breaks[ref].park_journal_id = c.causation_id
       /\ breaks[ref].state = "open"
       /\ Direction(c) = breaks[ref].direction
       /\ j.command.journal_id = c.causation_id
       /\ ReusesPark(c, j.command)
       /\ breaks' = [breaks EXCEPT ![ref].state = "resolved"]
  /\ Post(c)
  /\ UNCHANGED <<holds, reversedJournalIds>>

DraftNext ==
  \E c \in Commands :
    \/ PostDirectly(c)
    \/ CreateHold(c)
    \/ ReleaseHold(c)
    \/ ReverseJournal(c)
    \/ ParkSuspense(c)
    \/ ClearSuspense(c)

DraftSpec == DraftInit /\ [][DraftNext]_vars
-----------------------------------------------------------------------------
(* Every index of post() tells the same story: a journal is found under    *)
(* its key with what it was accepted with, every entry id is taken by      *)
(* exactly one journal and the trial balance of each entity and asset is   *)
(* zero.                                                                   *)
IndexesAgree ==
  /\ {idempotency[k] : k \in DOMAIN idempotency} = journals
  /\ \A k \in DOMAIN idempotency : Identity(idempotency[k].command) = k
  /\ postedEntryIds = {e.entry_id : e \in Entries}
  /\ \A j, k \in journals :
       (\/ j.command.journal_id = k.command.journal_id
        \/ EntryIds(j.command) \cap EntryIds(k.command) # {}) => j = k
  /\ \A a \in Accounts :
       LET row == {e \in Entries :
                     /\ AccountOf[e.account_id].legal_entity_id = AccountOf[a].legal_entity_id
                     /\ e.asset_code = AccountOf[a].asset_code}
       IN  Total(row, "DEBIT") = Total(row, "CREDIT")

OpenOn(hs, a) == {r \in DOMAIN hs : hs[r].held_account_id = a /\ hs[r].state = "open"}

Reserved(hs, ids) == MapThenSumSet(LAMBDA r : hs[r].amount, ids)

(* What a held account owes is what the open holds on it reserve, whatever *)
(* was retried, replayed or refused on the way.                            *)
HeldIsOpenHolds ==
  \A a \in HeldAccounts : NormalBalance(a) = Reserved(holds, OpenOn(holds, a))

OpenParks ==
  {breaks[r].park_journal_id : r \in {b \in DOMAIN breaks : breaks[b].state = "open"}}

Parked(a) ==
  UNION {On(j.command, {a}) : j \in {k \in journals : k.command.journal_id \in OpenParks}}

(* A suspense account carries what the open breaks parked on it: nothing   *)
(* is left behind by a resolved break, nothing is cleared twice.           *)
SuspenseIsOpenBreaks ==
  \A a \in SuspenseAccounts("IN") \cup SuspenseAccounts("OUT") :
    NormalBalance(a) = Amounts(Parked(a))

(* A journal is corrected once, by one accepted reversal that cancels it   *)
(* on every account it touched.                                            *)
ReversedOnce ==
  \A id \in reversedJournalIds :
    LET original == {j \in journals : j.command.journal_id = id}
        reversal == {j \in journals : j.command.journal_type \in Reversals
                                      /\ j.command.causation_id = id}
    IN  /\ Cardinality(original) = 1 /\ Cardinality(reversal) = 1
        /\ \A j \in original, k \in reversal : Mirrors(k.command, j.command)

(* The control accounts reconcile with the draft's own records - open      *)
(* holds, open breaks, reversals that cancelled their journal once - over  *)
(* journals whose indexes agree.                                           *)
ControlAccountsReconcile ==
  IndexesAgree /\ HeldIsOpenHolds /\ SuspenseIsOpenBreaks /\ ReversedOnce
=============================================================================
