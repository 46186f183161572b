----------------------- MODULE FlaggedRegistry_proofs -----------------------
(***************************************************************************)
(* What the registry promises, for any addresses, reason codes and number  *)
(* of invocations.                                                         *)
(***************************************************************************)
EXTENDS FlaggedRegistry, TLAPS

-----------------------------------------------------------------------------
(* Steps and types *)

\* The five ways to change something, with what the journal gains.
LEMMA StepKinds ==
    ASSUME TypeOK, Next
    PROVE  \/ UNCHANGED <<admin, flags, journal>> /\ timestamp' \in 0..MaxTime
           \/ /\ timestamp' = timestamp
              /\ \E e \in Invocation :
                   /\ journal' = Append(journal, e)
                   /\ \/ /\ e.op = "initialize"
                         /\ admin = NoAddress
                         /\ admin' = e.about
                         /\ flags' = flags
                      \/ /\ e.op = "set_admin"
                         /\ AdminSigned(e.signers)
                         /\ admin' = e.about
                         /\ flags' = flags
                      \/ /\ e.op = "flag"
                         /\ AdminSigned(e.signers)
                         /\ admin' = admin
                         /\ e.record \in FlagRecord
                         /\ flags' = [flags EXCEPT ![e.about] = e.record]
                      \/ /\ e.op = "unflag"
                         /\ AdminSigned(e.signers)
                         /\ admin' = admin
                         /\ flags' = [flags EXCEPT ![e.about] = NoFlag]
<1>1. CASE CloseLedger
  BY <1>1, BoundsAssumption DEF CloseLedger, TypeOK
<1>2. ASSUME NEW a \in Address, NEW signers \in SUBSET Address,
             initialize(a, signers)
      PROVE  \E e \in Invocation :
               /\ journal' = Append(journal, e) /\ timestamp' = timestamp
               /\ e.op = "initialize" /\ admin = NoAddress
               /\ admin' = e.about /\ flags' = flags
  <2>. DEFINE e == [op |-> "initialize", about |-> a, signers |-> signers,
                    record |-> NoFlag]
  <2>1. e \in Invocation
    BY DEF Invocation
  <2>. QED BY <1>2, <2>1 DEF initialize, Succeeds
<1>3. ASSUME NEW a \in Address, NEW signers \in SUBSET Address,
             set_admin(a, signers)
      PROVE  \E e \in Invocation :
               /\ journal' = Append(journal, e) /\ timestamp' = timestamp
               /\ e.op = "set_admin" /\ AdminSigned(e.signers)
               /\ admin' = e.about /\ flags' = flags
  <2>. DEFINE e == [op |-> "set_admin", about |-> a, signers |-> signers,
                    record |-> NoFlag]
  <2>1. e \in Invocation
    BY DEF Invocation
  <2>. QED BY <1>3, <2>1 DEF set_admin, Succeeds
<1>4. ASSUME NEW a \in Address, NEW signers \in SUBSET Address,
             NEW reason \in ReasonCode, flag(a, reason, signers)
      PROVE  \E e \in Invocation :
               /\ journal' = Append(journal, e) /\ timestamp' = timestamp
               /\ e.op = "flag" /\ AdminSigned(e.signers)
               /\ admin' = admin /\ e.record \in FlagRecord
               /\ flags' = [flags EXCEPT ![e.about] = e.record]
  <2>. DEFINE record == [reason |-> reason,
                         flagged_at_ledger_timestamp |-> timestamp]
              e == [op |-> "flag", about |-> a, signers |-> signers,
                    record |-> record]
  <2>1. record \in FlagRecord
    BY DEF FlagRecord, TypeOK
  <2>2. e \in Invocation
    BY <2>1 DEF Invocation
  <2>. QED BY <1>4, <2>1, <2>2 DEF flag, Succeeds
<1>5. ASSUME NEW a \in Address, NEW signers \in SUBSET Address,
             unflag(a, signers)
      PROVE  \E e \in Invocation :
               /\ journal' = Append(journal, e) /\ timestamp' = timestamp
               /\ e.op = "unflag" /\ AdminSigned(e.signers)
               /\ admin' = admin
               /\ flags' = [flags EXCEPT ![e.about] = NoFlag]
  <2>. DEFINE e == [op |-> "unflag", about |-> a, signers |-> signers,
                    record |-> NoFlag]
  <2>1. e \in Invocation
    BY DEF Invocation
  <2>. QED BY <1>5, <2>1 DEF unflag, Succeeds
<1>. QED BY <1>1, <1>2, <1>3, <1>4, <1>5 DEF Next

\* The storage of the contract and the journal keep their types.
THEOREM RegistryTypeCorrect == Spec => []TypeOK
<1>1. Init => TypeOK
  BY BoundsAssumption DEF Init, TypeOK
<1>2. TypeOK /\ [Next]_vars => TypeOK'
  <2> SUFFICES ASSUME TypeOK, [Next]_vars PROVE TypeOK'
    OBVIOUS
  <2>1. CASE UNCHANGED vars
    BY <2>1 DEF vars, TypeOK
  <2>2. ASSUME NEW e \in Invocation, journal' = Append(journal, e),
               timestamp' = timestamp, admin' \in {admin, e.about},
               \E record \in FlagRecord \cup {NoFlag} :
                 flags' \in {flags, [flags EXCEPT ![e.about] = record]}
        PROVE  TypeOK'
    <3>1. e.about \in Address
      BY DEF Invocation
    <3>. QED BY <2>2, <3>1 DEF TypeOK
  <2>3. CASE UNCHANGED <<admin, flags, journal>> /\ timestamp' \in 0..MaxTime
    BY <2>3 DEF TypeOK
  <2>4. CASE Next
    BY <2>2, <2>3, <2>4, StepKinds
  <2>. QED BY <2>1, <2>4
<1>. QED BY <1>1, <1>2, PTL DEF Spec

-----------------------------------------------------------------------------
(* Authority *)

\* The latest appointment is the admin, and there is one as soon as anything
\* was accepted.
AdminIsAppointed ==
    /\ admin = NoAddress <=> journal = << >>
    /\ journal # << >> =>
         \E j \in Appointments :
           journal[j].about = admin /\ \A k \in Appointments : k <= j

\* What an appended invocation does to the appointments.
LEMMA AppointmentsGrow ==
    ASSUME TypeOK, NEW e \in Invocation, journal' = Append(journal, e)
    PROVE  /\ Len(journal) \in Nat /\ Len(journal') = Len(journal) + 1
           /\ DOMAIN journal = 1..Len(journal)
           /\ DOMAIN journal' = 1..(Len(journal) + 1)
           /\ \A i \in DOMAIN journal :
                i \in DOMAIN journal' /\ journal'[i] = journal[i]
                /\ journal[i] \in Invocation
           /\ journal'[Len(journal) + 1] = e
           /\ Appointments' =
                IF e.op \in {"initialize", "set_admin"}
                THEN Appointments \cup {Len(journal) + 1} ELSE Appointments
<1>1. /\ Len(journal) \in Nat /\ Len(journal') = Len(journal) + 1
      /\ DOMAIN journal = 1..Len(journal)
      /\ DOMAIN journal' = 1..(Len(journal) + 1)
      /\ \A i \in DOMAIN journal :
           i \in DOMAIN journal' /\ journal'[i] = journal[i]
           /\ journal[i] \in Invocation
      /\ journal'[Len(journal) + 1] = e
  BY DEF TypeOK
<1>2. \A i : i \in DOMAIN journal' <=>
               i \in DOMAIN journal \/ i = Len(journal) + 1
  BY <1>1
<1>3. \A i : i \in Appointments' <=>
               \/ i \in Appointments
               \/ i = Len(journal) + 1 /\ e.op \in {"initialize", "set_admin"}
  BY <1>1, <1>2 DEF Appointments
<1>. QED BY <1>1, <1>3

\* AuthorityHandedOn is inductive together with AdminIsAppointed.
LEMMA AuthorityStep ==
    ASSUME TypeOK, AdminIsAppointed, AuthorityHandedOn, Next
    PROVE  AdminIsAppointed' /\ AuthorityHandedOn'
<1>1. CASE UNCHANGED <<admin, flags, journal>>
  BY <1>1 DEF AdminIsAppointed, AuthorityHandedOn, AppointedBefore, Appointments
<1>2. ASSUME NEW e \in Invocation, journal' = Append(journal, e),
             \/ /\ e.op = "initialize" /\ admin = NoAddress
                /\ admin' = e.about
             \/ /\ e.op = "set_admin" /\ AdminSigned(e.signers)
                /\ admin' = e.about
             \/ /\ e.op \in {"flag", "unflag"} /\ AdminSigned(e.signers)
                /\ admin' = admin
      PROVE  AdminIsAppointed' /\ AuthorityHandedOn'
  <2>. PICK n \in Nat : n = Len(journal) + 1
    BY DEF TypeOK
  <2>1. /\ Len(journal) \in Nat /\ DOMAIN journal = 1..Len(journal)
        /\ DOMAIN journal' = 1..n /\ journal'[n] = e
        /\ \A i \in DOMAIN journal :
             i \in DOMAIN journal' /\ journal'[i] = journal[i]
        /\ Appointments' = IF e.op \in {"initialize", "set_admin"}
                           THEN Appointments \cup {n} ELSE Appointments
    BY <1>2, AppointmentsGrow
  <2>2. Appointments \subseteq DOMAIN journal
    BY DEF Appointments
  <2>3. journal = << >> <=> n = 1
    BY <2>1 DEF TypeOK
  <2>4. journal' # << >>
    BY <2>1
  <2>5. admin' # NoAddress
    BY <1>2, NoAddressAssumption DEF Invocation, AdminSigned
  <2>6. AdminIsAppointed'
    <3>1. CASE e.op \in {"initialize", "set_admin"}
      <4>1. n \in Appointments' /\ journal'[n].about = admin'
        BY <1>2, <2>1, <3>1
      <4>2. \A k \in Appointments' : k <= n
        BY <2>1, <2>2, <3>1
      <4>. QED BY <2>4, <2>5, <4>1, <4>2 DEF AdminIsAppointed
    <3>2. CASE e.op \in {"flag", "unflag"}
      <4>1. admin # NoAddress /\ admin' = admin /\ Appointments' = Appointments
        BY <1>2, <2>1, <3>2 DEF AdminSigned
      <4>2. PICK j \in Appointments :
              journal[j].about = admin /\ \A k \in Appointments : k <= j
        BY <4>1 DEF AdminIsAppointed
      <4>. QED BY <2>1, <2>2, <2>4, <2>5, <4>1, <4>2 DEF AdminIsAppointed
    <3>. QED BY <1>2, <3>1, <3>2
  <2>7. ASSUME NEW i \in DOMAIN journal
        PROVE  /\ journal'[i].op = "initialize" <=> i = 1
               /\ i > 1 => \E j \in Appointments' :
                      /\ AppointedBefore(i, j)'
                      /\ journal'[j].about \in journal'[i].signers
    <3>1. (journal'[i].op = "initialize") <=> i = 1
      BY <2>1 DEF AuthorityHandedOn
    <3>2. ASSUME i > 1
          PROVE  \E j \in Appointments' :
                     /\ AppointedBefore(i, j)'
                     /\ journal'[j].about \in journal'[i].signers
      <4>1. PICK j \in Appointments : AppointedBefore(i, j)
              /\ journal[j].about \in journal[i].signers
        BY <3>2 DEF AuthorityHandedOn
      <4>2. \A k \in Appointments' : k < i => k \in Appointments
        BY <2>1
      <4>3. j \in Appointments' /\ AppointedBefore(i, j)'
        BY <2>1, <4>1, <4>2 DEF AppointedBefore
      <4>. QED BY <2>1, <2>2, <4>1, <4>3
    <3>. QED BY <3>1, <3>2
  <2>8. (e.op = "initialize") <=> n = 1
    BY <1>2, <2>3 DEF AdminIsAppointed, AdminSigned
  <2>9. ASSUME n > 1
        PROVE  \E j \in Appointments' :
                 AppointedBefore(n, j)' /\ journal'[j].about \in e.signers
    <3>1. admin \in e.signers
      BY <1>2, <2>8, <2>9 DEF AdminSigned
    <3>2. PICK j \in Appointments :
            journal[j].about = admin /\ \A k \in Appointments : k <= j
      BY <2>3, <2>9 DEF AdminIsAppointed
    <3>3. j < n /\ j \in Appointments' /\ journal'[j] = journal[j]
      BY <2>1, <2>2
    <3>4. \A k \in Appointments' : k < n => k <= j
      BY <2>1, <3>2
    <3>. QED BY <3>1, <3>2, <3>3, <3>4 DEF AppointedBefore
  <2>. QED BY <2>1, <2>6, <2>7, <2>8, <2>9 DEF AuthorityHandedOn
<1>. QED BY <1>1, <1>2, StepKinds

\* Nothing is ever written without the signature of the address that the
\* latest appointment before it named, and the contract is initialised once.
THEOREM AuthorityIsHandedOn == Spec => []AuthorityHandedOn
<1>1. Init => AdminIsAppointed /\ AuthorityHandedOn
  BY DEF Init, AdminIsAppointed, AuthorityHandedOn
<1>2. TypeOK /\ AdminIsAppointed /\ AuthorityHandedOn /\ [Next]_vars
        => AdminIsAppointed' /\ AuthorityHandedOn'
  <2>1. ASSUME AdminIsAppointed, AuthorityHandedOn, UNCHANGED vars
        PROVE  AdminIsAppointed' /\ AuthorityHandedOn'
    BY <2>1 DEF vars, AdminIsAppointed, AuthorityHandedOn, AppointedBefore,
         Appointments
  <2>. QED BY <2>1, AuthorityStep
<1>. QED BY <1>1, <1>2, RegistryTypeCorrect, PTL DEF Spec

-----------------------------------------------------------------------------
(* Flags *)

\* How an accepted invocation changes the last word on an account.
LEMMA LastWord ==
    ASSUME TypeOK, NEW e \in Invocation, journal' = Append(journal, e),
           NEW a, NEW record
    PROVE  LastFlagged(a, record)' <=>
             IF e.about = a /\ e.op \in {"flag", "unflag"}
             THEN e.op = "flag" /\ e.record = record
             ELSE LastFlagged(a, record)
<1>. DEFINE n == Len(journal) + 1
<1>1. /\ Len(journal) \in Nat /\ DOMAIN journal = 1..Len(journal)
      /\ DOMAIN journal' = 1..n /\ journal'[n] = e
      /\ \A i \in DOMAIN journal :
           i \in DOMAIN journal' /\ journal'[i] = journal[i]
  BY AppointmentsGrow
<1>2. CASE e.about = a /\ e.op \in {"flag", "unflag"}
  <2>1. ASSUME LastFlagged(a, record)' PROVE e.op = "flag" /\ e.record = record
    <3>1. PICK i \in DOMAIN journal' :
            /\ journal'[i].op = "flag" /\ journal'[i].record = record
            /\ \A j \in DOMAIN journal' :
                 j > i /\ journal'[j].about = a
                   => journal'[j].op \notin {"flag", "unflag"}
      BY <2>1 DEF LastFlagged
    <3>2. i = n
      BY <1>1, <1>2, <3>1
    <3>. QED BY <1>1, <3>1, <3>2
  <2>2. ASSUME e.op = "flag", e.record = record PROVE LastFlagged(a, record)'
    BY <1>1, <1>2, <2>2 DEF LastFlagged
  <2>. QED BY <1>2, <2>1, <2>2
<1>3. CASE ~(e.about = a /\ e.op \in {"flag", "unflag"})
  <2>1. ASSUME LastFlagged(a, record)' PROVE LastFlagged(a, record)
    BY <1>1, <1>3, <2>1 DEF LastFlagged
  <2>2. ASSUME LastFlagged(a, record) PROVE LastFlagged(a, record)'
    BY <1>1, <1>3, <2>2 DEF LastFlagged
  <2>. QED BY <1>3, <2>1, <2>2
<1>. QED BY <1>2, <1>3

\* What is_flagged and get_flag answer is the last accepted word on the
\* account, after any sequence of invocations by any admins.
THEOREM FlagsAreExplained == Spec => []FlagsExplained
<1>1. Init => FlagsExplained
  <2> SUFFICES ASSUME Init PROVE FlagsExplained
    OBVIOUS
  <2>1. \A a \in Address : ~is_flagged(a)
    BY DEF Init, is_flagged
  <2>2. DOMAIN journal = {}
    BY DEF Init
  <2>3. \A a, record : ~LastFlagged(a, record)
    BY <2>2 DEF LastFlagged
  <2>. QED BY <2>1, <2>3 DEF FlagsExplained
<1>2. TypeOK /\ FlagsExplained /\ [Next]_vars => FlagsExplained'
  <2> SUFFICES ASSUME TypeOK, FlagsExplained, [Next]_vars
               PROVE  FlagsExplained'
    OBVIOUS
  <2>1. CASE UNCHANGED <<flags, journal>>
    BY <2>1 DEF FlagsExplained, LastFlagged, is_flagged
  <2>2. ASSUME NEW e \in Invocation, journal' = Append(journal, e),
               \/ e.op \notin {"flag", "unflag"} /\ flags' = flags
               \/ /\ e.op = "flag" /\ e.record \in FlagRecord
                  /\ flags' = [flags EXCEPT ![e.about] = e.record]
               \/ /\ e.op = "unflag"
                  /\ flags' = [flags EXCEPT ![e.about] = NoFlag]
        PROVE  FlagsExplained'
    <3> SUFFICES ASSUME NEW a \in Address, NEW f, f = flags'[a]
                 PROVE  /\ f # NoFlag => LastFlagged(a, f)'
                        /\ \A record \in FlagRecord :
                             LastFlagged(a, record)' => f = record
      BY DEF FlagsExplained, is_flagged
    <3>1. \A record : LastFlagged(a, record)' <=>
             IF e.about = a /\ e.op \in {"flag", "unflag"}
             THEN e.op = "flag" /\ e.record = record
             ELSE LastFlagged(a, record)
      BY <2>2, LastWord
    <3>2. flags \in [Address -> FlagRecord \cup {NoFlag}]
      BY DEF TypeOK
    <3>3. CASE e.about = a /\ e.op \in {"flag", "unflag"}
      BY <2>2, <3>1, <3>2, <3>3
    <3>4. CASE ~(e.about = a /\ e.op \in {"flag", "unflag"})
      <4>1. f = flags[a]
        BY <2>2, <3>2, <3>4
      <4>. QED BY <3>1, <3>4, <4>1 DEF FlagsExplained, is_flagged
    <3>. QED BY <3>3, <3>4
  <2>. QED BY <2>1, <2>2, StepKinds DEF vars
<1>. QED BY <1>1, <1>2, RegistryTypeCorrect, PTL DEF Spec

=============================================================================
