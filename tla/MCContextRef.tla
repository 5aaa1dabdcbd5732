----------------------------- MODULE MCContextRef -----------------------------
(***************************************************************************)
(* Every tenant id of at most MaxLength characters, written one character  *)
(* at a time, and what becomes of its references.                          *)
(***************************************************************************)
EXTENDS ContextRef

CONSTANT MaxLength      \* bound on the tenant ids tried

VARIABLE tenant

Init == tenant \in {<<c>> : c \in Chars}

Write(c) == Len(tenant) < MaxLength /\ tenant' = Append(tenant, c)

Next == \E c \in Chars : Write(c)

Spec == Init /\ [][Next]_tenant

Holds(id, c) == \E i \in DOMAIN id : id[i] = c

(* Some cut of the id leaves a suffix that is all digits after its ":".    *)
EndsInPort(id) ==
  \E i \in DOMAIN id :
    id[i] = "colon" /\ \A j \in (i + 1) .. Len(id) : id[j] = "digit"

(* contextref.Parse gives back the tenant contextref.Encode was given      *)
(* exactly for ids without "@", without an ASCII character that            *)
(* PathEscape escapes other than "%", and whose last ":" (if any) is       *)
(* followed by digits only: Retrieve (service.go:233-239) can serve the    *)
(* evidence of those tenants and of no other.                              *)
ResolvesExactlyWhenClean ==
  RefTenant(tenant) = tenant
    <=> /\ ~Holds(tenant, "at")
        /\ ~Holds(tenant, "reserved")
        /\ Holds(tenant, "colon") => EndsInPort(tenant)

(* A reference is read as another tenant's only through an "@", and then   *)
(* the other tenant's id is a proper suffix of its own: no other           *)
(* character makes Retrieve compare the caller with a foreign tenant.      *)
MisreadOnlyThroughAt ==
  RefTenant(tenant) \notin {tenant, NoHost} =>
    \E i \in DOMAIN tenant :
      tenant[i] = "at" /\ RefTenant(tenant) = SubSeq(tenant, i + 1, Len(tenant))

=============================================================================
