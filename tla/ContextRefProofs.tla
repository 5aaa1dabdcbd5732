--------------------------- MODULE ContextRefProofs ---------------------------
(***************************************************************************)
(* Which references read back, and as whose, for tenant ids of every       *)
(* length.                                                                 *)
(*                                                                         *)
(* Parse cuts the authority at the last "@" and its host at the last ":".  *)
(* That there is a last one is an induction over the positions, made here  *)
(* by taking the least distance from the end.                              *)
(***************************************************************************)
EXTENDS MCContextRef, SequenceTheorems, WellFoundedInduction, TLAPS

Items == [char : Chars, escaped : BOOLEAN]

-----------------------------------------------------------------------------
(* The last place of a character.                                          *)

(* A set of numbers that is not empty has a least one.                     *)
LEMMA LeastNumber ==
  ASSUME NEW T \in SUBSET Nat, T # {}
  PROVE  \E n \in T : \A m \in T : n <= m
<1>1. \E n \in T : \A m \in T : ~(<<m, n>> \in OpToRel(<, Nat))
  BY NatLessThanWellFounded, WFMin
<1>2. PICK n \in T : \A m \in T : ~(<<m, n>> \in OpToRel(<, Nat))
  BY <1>1
<1>3. \A m \in T : ~(m < n)
  BY <1>2 DEF OpToRel
<1> QED
  BY <1>3

(* LastIndex gives a place of the character after which there is none, or  *)
(* 0 when there is none at all: what strings.LastIndex returns.            *)
LEMMA LastIndexIsLast ==
  ASSUME NEW wire \in Seq(Items), NEW c
  PROVE  LET last == LastIndex(wire, c)
         IN  /\ last \in 0 .. Len(wire)
             /\ last > 0 => IsLiteral(wire[last], c)
             /\ \A j \in (last + 1) .. Len(wire) : ~IsLiteral(wire[j], c)
<1> DEFINE Last(i) == /\ i > 0 => IsLiteral(wire[i], c)
                      /\ \A j \in (i + 1) .. Len(wire) : ~IsLiteral(wire[j], c)
           Places == {i \in 1 .. Len(wire) : IsLiteral(wire[i], c)}
           FromEnd == {Len(wire) - i : i \in Places}
<1>0. Len(wire) \in Nat
  OBVIOUS
<1>1. \E i \in 0 .. Len(wire) : Last(i)
  <2>1. CASE Places = {}
    <3>1. 0 \in 0 .. Len(wire) /\ Last(0)
      BY <1>0, <2>1
    <3> QED
      BY <3>1
  <2>2. CASE Places # {}
    <3>1. FromEnd \in SUBSET Nat /\ FromEnd # {}
      BY <1>0, <2>2
    <3>2. PICK d \in FromEnd : \A e \in FromEnd : d <= e
      BY <3>1, LeastNumber
    <3>3. PICK i \in Places : d = Len(wire) - i
      BY <3>2
    <3>4. ASSUME NEW j \in Places PROVE j <= i
      <4>1. Len(wire) - j \in FromEnd
        OBVIOUS
      <4>2. d <= Len(wire) - j
        BY <3>2, <4>1
      <4> QED
        BY <1>0, <3>3, <4>2
    <3>5. i \in 0 .. Len(wire) /\ Last(i)
      BY <1>0, <3>3, <3>4
    <3> QED
      BY <3>5
  <2> QED
    BY <2>1, <2>2
<1>2. LastIndex(wire, c) = CHOOSE i \in 0 .. Len(wire) : Last(i)
  BY DEF LastIndex
<1> HIDE DEF Last
<1>3. LastIndex(wire, c) \in 0 .. Len(wire) /\ Last(LastIndex(wire, c))
  BY <1>1, <1>2
<1> QED
  BY <1>3 DEF Last

-----------------------------------------------------------------------------
(* The encoded id.                                                         *)

(* Encoding keeps every character in its place.                            *)
LEMMA EncodeKeeps ==
  ASSUME NEW id \in Seq(Chars)
  PROVE  /\ Encode(id) \in Seq(Items)
         /\ Len(Encode(id)) = Len(id) /\ Len(id) \in Nat
         /\ DOMAIN Encode(id) = 1 .. Len(id) /\ DOMAIN id = 1 .. Len(id)
         /\ \A i \in 1 .. Len(id) :
              /\ Encode(id)[i].char = id[i]
              /\ Encode(id)[i].escaped = (id[i] \in {"percent", "high", "reserved"})
<1> DEFINE wire == Encode(id)
<1>1. /\ Len(id) \in Nat /\ DOMAIN id = 1 .. Len(id)
      /\ \A i \in 1 .. Len(id) : id[i] \in Chars
  OBVIOUS
<1>2. wire = [i \in 1 .. Len(id) |-> PathEscape(id[i])]
  BY <1>1 DEF Encode
<1>3. \A c \in Chars : PathEscape(c) \in Items
  BY DEF PathEscape, Items
<1>4. wire \in [1 .. Len(id) -> Items]
  BY <1>1, <1>2, <1>3
<1>5. wire \in Seq(Items) /\ Len(wire) = Len(id)
  <2> HIDE DEF wire
  <2>1. wire \in UNION {[1 .. n -> Items] : n \in Nat}
    BY <1>1, <1>4
  <2>2. wire \in Seq(Items)
    BY <2>1, SeqDef, Zenon
  <2>3. 1 .. Len(wire) = 1 .. Len(id) /\ Len(wire) \in Nat
    BY <1>4, <2>2
  <2> QED
    BY <1>1, <2>2, <2>3
<1>6. \A i \in 1 .. Len(id) :
        /\ wire[i].char = id[i]
        /\ wire[i].escaped = (id[i] \in {"percent", "high", "reserved"})
  BY <1>2 DEF PathEscape
<1> QED
  BY <1>1, <1>4, <1>5, <1>6

(* Punctuation is written literally, and only where it is.                 *)
LEMMA PunctuationIsLiteral ==
  ASSUME NEW id \in Seq(Chars), NEW c \in {"at", "colon", "digit"}, NEW i \in 1 .. Len(id)
  PROVE  IsLiteral(Encode(id)[i], c) <=> id[i] = c
  BY EncodeKeeps DEF IsLiteral

(* The last place of punctuation in the authority is that in the id.       *)
LEMMA LastPlace ==
  ASSUME NEW id \in Seq(Chars), NEW c \in {"at", "colon"}
  PROVE  LET last == LastIndex(Encode(id), c)
         IN  /\ last \in 0 .. Len(id)
             /\ last > 0 => last \in 1 .. Len(id) /\ id[last] = c
             /\ \A j \in (last + 1) .. Len(id) : id[j] # c
             /\ last = 0 <=> ~Holds(id, c)
<1> DEFINE last == LastIndex(Encode(id), c)
<1>1. /\ last \in 0 .. Len(id)
      /\ last > 0 => IsLiteral(Encode(id)[last], c)
      /\ \A j \in (last + 1) .. Len(id) : ~IsLiteral(Encode(id)[j], c)
  BY EncodeKeeps, LastIndexIsLast
<1> HIDE DEF last
<1>2. Len(id) \in Nat /\ DOMAIN id = 1 .. Len(id)
  BY EncodeKeeps
<1>3. last > 0 => last \in 1 .. Len(id) /\ id[last] = c
  BY <1>1, <1>2, PunctuationIsLiteral
<1>4. \A j \in (last + 1) .. Len(id) : id[j] # c
  <2> SUFFICES ASSUME NEW j \in (last + 1) .. Len(id) PROVE id[j] # c
    OBVIOUS
  <2>1. j \in 1 .. Len(id)
    BY <1>1, <1>2
  <2> QED
    BY <1>1, <2>1, PunctuationIsLiteral
<1>5. last = 0 <=> ~Holds(id, c)
  BY <1>1, <1>2, <1>3, <1>4 DEF Holds
<1> QED
  BY <1>1, <1>3, <1>4, <1>5 DEF last

-----------------------------------------------------------------------------
(* What Parse makes of it.                                                 *)

(* The host is what follows the last "@".                                  *)
LEMMA HostIsSuffix ==
  ASSUME NEW id \in Seq(Chars), NEW at, at = LastIndex(Encode(id), "at")
  PROVE  LET host == HostPart(Encode(id))
         IN  /\ DOMAIN host = 1 .. (Len(id) - at)
             /\ [j \in DOMAIN host |-> host[j].char] = SubSeq(id, at + 1, Len(id))
<1> DEFINE wire == Encode(id)
           host == HostPart(wire)
<1>0. Len(id) \in Nat /\ at \in 0 .. Len(id)
  BY EncodeKeeps, LastPlace
<1>1. host = SubSeq(wire, at + 1, Len(id))
  BY EncodeKeeps DEF HostPart
<1>2. /\ DOMAIN host = 1 .. (Len(id) - at)
      /\ \A j \in 1 .. (Len(id) - at) : host[j] = wire[at + j]
  <2>1. wire \in Seq(Items) /\ Len(wire) = Len(id)
    BY EncodeKeeps
  <2> HIDE DEF wire, host
  <2> QED
    BY <1>0, <1>1, <2>1
<1>3. \A j \in 1 .. (Len(id) - at) : host[j].char = id[at + j]
  <2> SUFFICES ASSUME NEW j \in 1 .. (Len(id) - at) PROVE host[j].char = id[at + j]
    OBVIOUS
  <2>1. at + j \in 1 .. Len(id)
    BY <1>0
  <2> QED
    BY <1>2, <2>1, EncodeKeeps
<1>4. SubSeq(id, at + 1, Len(id)) = [j \in 1 .. (Len(id) - at) |-> id[at + j]]
  BY <1>0
<1> HIDE DEF host
<1> QED
  BY <1>2, <1>3, <1>4 DEF host

(* A reference reads as what follows the last "@" of the id, or not at all.*)
LEMMA ReadsSuffix ==
  ASSUME NEW id \in Seq(Chars)
  PROVE  LET at == LastIndex(Encode(id), "at")
         IN  RefTenant(id) \in {SubSeq(id, at + 1, Len(id)), NoHost}
  BY HostIsSuffix DEF RefTenant, Parse

(* Without "@" all of the id is the host; it is taken if its port is one   *)
(* and it has no escape that a host must not have.                         *)
LEMMA ReadsWithoutAt ==
  ASSUME NEW id \in TenantIds, ~Holds(id, "at")
  PROVE  /\ RefTenant(id) \in {id, NoHost}
         /\ RefTenant(id) = id
              <=> ~Holds(id, "reserved") /\ (Holds(id, "colon") => EndsInPort(id))
<1> DEFINE wire == Encode(id)
           colon == LastIndex(wire, "colon")
<1>0. id \in Seq(Chars) /\ id # NoHost /\ Len(id) \in Nat /\ DOMAIN id = 1 .. Len(id)
  BY DEF TenantIds, NoHost
<1>1. LastIndex(wire, "at") = 0
  BY <1>0, LastPlace
<1>2. HostPart(wire) = wire
  <2>1. wire \in Seq(Items)
    BY <1>0, EncodeKeeps
  <2> HIDE DEF wire
  <2> QED
    BY <1>1, <2>1 DEF HostPart
<1>3. [j \in DOMAIN wire |-> wire[j].char] = id
  BY <1>0, EncodeKeeps
<1>4. RefTenant(id) = IF ValidOptionalPort(wire) /\ DecodableHost(wire) THEN id ELSE NoHost
  BY <1>2, <1>3 DEF RefTenant, Parse
<1>5. DecodableHost(wire) <=> ~Holds(id, "reserved")
  <2>1. \A j \in 1 .. Len(id) :
          (wire[j].escaped => wire[j].char \in {"percent", "high"})
            <=> id[j] # "reserved"
    BY <1>0, EncodeKeeps
  <2>2. DOMAIN wire = 1 .. Len(id)
    BY <1>0, EncodeKeeps
  <2> QED
    BY <1>0, <2>1, <2>2 DEF DecodableHost, Holds
<1>6. ValidOptionalPort(wire) <=> (Holds(id, "colon") => EndsInPort(id))
  <2>1. /\ colon \in 0 .. Len(id)
        /\ colon > 0 => colon \in 1 .. Len(id) /\ id[colon] = "colon"
        /\ \A j \in (colon + 1) .. Len(id) : id[j] # "colon"
        /\ colon = 0 <=> ~Holds(id, "colon")
    BY <1>0, LastPlace
  <2>2. ValidOptionalPort(wire)
          <=> (colon > 0 => \A j \in (colon + 1) .. Len(id) : id[j] = "digit")
    <3>1. Len(wire) = Len(id)
      BY <1>0, EncodeKeeps
    <3>2. \A j \in (colon + 1) .. Len(id) : IsLiteral(wire[j], "digit") <=> id[j] = "digit"
      BY <1>0, <2>1, PunctuationIsLiteral
    <3> QED
      BY <3>1, <3>2 DEF ValidOptionalPort
  <2> HIDE DEF colon
  <2>3. colon > 0 =>
          (EndsInPort(id) <=> \A j \in (colon + 1) .. Len(id) : id[j] = "digit")
    <3> SUFFICES ASSUME colon > 0
                 PROVE  EndsInPort(id)
                          <=> \A j \in (colon + 1) .. Len(id) : id[j] = "digit"
      OBVIOUS
    <3>1. ASSUME NEW i \in 1 .. Len(id), id[i] = "colon",
                 \A j \in (i + 1) .. Len(id) : id[j] = "digit"
          PROVE  i = colon
      BY <1>0, <2>1, <3>1
    <3> QED
      BY <1>0, <2>1, <3>1 DEF EndsInPort
  <2> QED
    BY <2>1, <2>2, <2>3
<1> QED
  BY <1>0, <1>4, <1>5, <1>6

(* An id with "@" never reads back: what follows the "@" is shorter.       *)
LEMMA AtNeverResolves ==
  ASSUME NEW id \in TenantIds, Holds(id, "at")
  PROVE  LET at == LastIndex(Encode(id), "at")
         IN  /\ at \in DOMAIN id /\ id[at] = "at"
             /\ RefTenant(id) \in {SubSeq(id, at + 1, Len(id)), NoHost}
             /\ RefTenant(id) # id
<1> DEFINE at == LastIndex(Encode(id), "at")
<1>0. id \in Seq(Chars) /\ id # NoHost /\ Len(id) \in Nat /\ DOMAIN id = 1 .. Len(id)
  BY DEF TenantIds, NoHost
<1>1. at \in 1 .. Len(id) /\ id[at] = "at"
  BY <1>0, LastPlace
<1>2. RefTenant(id) \in {SubSeq(id, at + 1, Len(id)), NoHost}
  BY <1>0, ReadsSuffix
<1> HIDE DEF at
<1>3. DOMAIN SubSeq(id, at + 1, Len(id)) = 1 .. (Len(id) - at)
  BY <1>0, <1>1, SubSeqProperties
<1>4. SubSeq(id, at + 1, Len(id)) # id
  <2>1. Len(id) \in DOMAIN id /\ Len(id) \notin 1 .. (Len(id) - at)
    BY <1>0, <1>1
  <2> QED
    BY <1>3, <2>1
<1> QED
  BY <1>0, <1>1, <1>2, <1>4 DEF at

-----------------------------------------------------------------------------
(* The properties, for ids of every length.                                *)

WritesTenantId == tenant \in TenantIds

LEMMA AlwaysTenantId == Spec => []WritesTenantId
<1>1. Init => WritesTenantId
  <2> SUFFICES ASSUME NEW c \in Chars, tenant = <<c>> PROVE tenant \in TenantIds
    BY DEF Init, WritesTenantId
  <2>1. tenant \in Seq(Chars)
    OBVIOUS
  <2>2. tenant # << >>
    OBVIOUS
  <2> QED
    BY <2>1, <2>2 DEF TenantIds
<1>2. WritesTenantId /\ [Next]_tenant => WritesTenantId'
  BY DEF Next, Write, WritesTenantId, TenantIds
<1> QED
  BY <1>1, <1>2, PTL DEF Spec

(* Whatever the length of the tenant's id: its references read back        *)
(* exactly when it has no "@", no ASCII character other than "%" that is   *)
(* escaped, and digits only after its last ":" (contextref.go:9-22,        *)
(* service.go:233-239).                                                    *)
THEOREM CleanIdsResolve == Spec => []ResolvesExactlyWhenClean
<1>1. WritesTenantId => ResolvesExactlyWhenClean
  BY ReadsWithoutAt, AtNeverResolves DEF WritesTenantId, ResolvesExactlyWhenClean
<1> QED
  BY <1>1, AlwaysTenantId, PTL

(* Whatever the length of the tenant's id: only an "@" makes its           *)
(* references read as another tenant's, whose id then is what follows it   *)
(* (contextref.go:9-22, service.go:233-239).                               *)
THEOREM OnlyAtMisreads == Spec => []MisreadOnlyThroughAt
<1>1. WritesTenantId => MisreadOnlyThroughAt
  BY ReadsWithoutAt, AtNeverResolves DEF WritesTenantId, MisreadOnlyThroughAt
<1> QED
  BY <1>1, AlwaysTenantId, PTL

=============================================================================
