-------------------------- MODULE FlaggedRegistry --------------------------
(***************************************************************************)
(* contracts/flagged_accounts: the on-chain registry of flagged accounts.  *)
(*                                                                         *)
(* The ledger runs one invocation after the other.  An invocation carries  *)
(* the signatures of the addresses that authorised it; one that returns an *)
(* error, or lacks a signature that require_auth demands, is rolled back.  *)
(***************************************************************************)
EXTENDS Naturals, Sequences

CONSTANTS
    Address,    \* accounts and keys on the network
    ReasonCode, \* why an account is flagged
    MaxTime,    \* bound: the last ledger timestamp
    MaxCalls    \* bound: invocations that succeed

ASSUME BoundsAssumption == MaxTime \in Nat /\ MaxCalls \in Nat

NoAddress == "no_address"
NoFlag == [reason |-> "none"]

ASSUME NoAddressAssumption == NoAddress \notin Address

FlagRecord == [reason : ReasonCode, flagged_at_ledger_timestamp : 0..MaxTime]

VARIABLES
    admin,     \* instance storage: DataKey::Admin
    flags,     \* persistent storage: DataKey::Flag(account)
    timestamp, \* env.ledger().timestamp()
    journal    \* history: the invocations that succeeded

vars == <<admin, flags, timestamp, journal>>

\* What the journal says of an invocation: the address it is about, who had
\* signed it, and, for flag, the record it wrote.
Invocation ==
    [op : {"initialize", "set_admin", "flag", "unflag"}, about : Address,
     signers : SUBSET Address, record : FlagRecord \cup {NoFlag}]

TypeOK ==
    /\ admin \in Address \cup {NoAddress}
    /\ flags \in [Address -> FlagRecord \cup {NoFlag}]
    /\ timestamp \in 0..MaxTime
    /\ journal \in Seq(Invocation)

Init ==
    /\ admin = NoAddress
    /\ flags = [a \in Address |-> NoFlag]
    /\ timestamp = 0
    /\ journal = << >>

Succeeds(op, about, signers, record) ==
    /\ Len(journal) < MaxCalls
    /\ journal' = Append(journal, [op |-> op, about |-> about,
                                   signers |-> signers, record |-> record])
    /\ UNCHANGED timestamp

\* The admin is set (NotInitialized otherwise) and has signed.
AdminSigned(signers) == admin # NoAddress /\ admin \in signers

-----------------------------------------------------------------------------
(* The contract.  initialize asks for no signature, not even the one of the *)
(* address it makes admin.                                                  *)

\* Mutant: initialize does not ask whether there is an admin already.
initialize_again(new_admin, signers) ==
    /\ admin' = new_admin
    /\ UNCHANGED flags
    /\ Succeeds("initialize", new_admin, signers, NoFlag)

initialize(new_admin, signers) ==
    /\ admin = NoAddress
    /\ admin' = new_admin
    /\ UNCHANGED flags
    /\ Succeeds("initialize", new_admin, signers, NoFlag)

set_admin(new_admin, signers) ==
    /\ AdminSigned(signers)
    /\ admin' = new_admin
    /\ UNCHANGED flags
    /\ Succeeds("set_admin", new_admin, signers, NoFlag)

\* Mutant: an account that is flagged keeps its first record.
flag_once(account, reason, signers) ==
    LET record == [reason |-> reason, flagged_at_ledger_timestamp |-> timestamp]
    IN  /\ AdminSigned(signers)
        /\ flags' = [flags EXCEPT ![account] = IF @ = NoFlag THEN record ELSE @]
        /\ UNCHANGED admin
        /\ Succeeds("flag", account, signers, record)

\* Flagging a flagged account replaces its record.
flag(account, reason, signers) ==
    LET record == [reason |-> reason, flagged_at_ledger_timestamp |-> timestamp]
    IN  /\ AdminSigned(signers)
        /\ flags' = [flags EXCEPT ![account] = record]
        /\ UNCHANGED admin
        /\ Succeeds("flag", account, signers, record)

\* An account that is not flagged is an error (NotFlagged).
unflag(account, signers) ==
    /\ AdminSigned(signers)
    /\ flags[account] # NoFlag
    /\ flags' = [flags EXCEPT ![account] = NoFlag]
    /\ UNCHANGED admin
    /\ Succeeds("unflag", account, signers, NoFlag)

is_flagged(account) == flags[account] # NoFlag

\* A ledger closes.
CloseLedger ==
    /\ timestamp < MaxTime
    /\ timestamp' = timestamp + 1
    /\ UNCHANGED <<admin, flags, journal>>

Next ==
    \/ \E a \in Address, signers \in SUBSET Address :
         \/ initialize(a, signers)
         \/ set_admin(a, signers)
         \/ \E reason \in ReasonCode : flag(a, reason, signers)
         \/ unflag(a, signers)
    \/ CloseLedger

Spec == Init /\ [][Next]_vars

-----------------------------------------------------------------------------
(* Properties *)

Appointments == {i \in DOMAIN journal :
                    journal[i].op \in {"initialize", "set_admin"}}

\* The invocation that made its subject admin, as seen by invocation i.
AppointedBefore(i, j) ==
    /\ j \in Appointments
    /\ j < i
    /\ \A k \in Appointments : k < i => k <= j

\* Nothing but the first invocation is accepted without the signature of the
\* address that the latest appointment before it named: the right to write
\* passes on only by the will of who has it, and who handed it over has it no
\* more.
AuthorityHandedOn ==
    \A i \in DOMAIN journal :
      /\ journal[i].op = "initialize" <=> i = 1
      /\ i > 1 => \E j \in Appointments :
                    AppointedBefore(i, j) /\ journal[j].about \in journal[i].signers

\* The last accepted word on an account: a flag with this record, and
\* nothing about the account after it.
LastFlagged(account, record) ==
    \E i \in DOMAIN journal :
      /\ journal[i].op = "flag"
      /\ journal[i].about = account
      /\ journal[i].record = record
      /\ \A j \in DOMAIN journal :
           j > i /\ journal[j].about = account
             => journal[j].op \notin {"flag", "unflag"}

\* What the contract answers for an account is the last accepted word on it:
\* is_flagged holds exactly when that is a flag, and get_flag gives the reason
\* and the time of that flag, whoever was admin then, however often the
\* account was flagged and cleared.
FlagsExplained ==
    \A a \in Address :
      /\ is_flagged(a) => LastFlagged(a, flags[a])
      /\ \A record \in FlagRecord : LastFlagged(a, record) => flags[a] = record

=============================================================================
