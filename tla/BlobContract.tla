---------------------------- MODULE BlobContract ----------------------------
(***************************************************************************)
(* What the content-addressed store promises its readers: a row refers to   *)
(* a payload, only a delivery brings it a new one, maintenance settles it   *)
(* on what is the row's own, whoever changes a reference stores the         *)
(* payload's blobs, and a collection leaves exactly the blobs rows reach.   *)
(* BlobStore implements it; ArchiveExport reads a store that keeps it.      *)
(*                                                                         *)
(* A payload stands for the set of blobs its manifest reaches, itself       *)
(* included; payloads share blobs, because a blob is named by its hash.     *)
(***************************************************************************)
EXTENDS Integers, FiniteSets

CONSTANTS Requests, Payloads, Blobs,
          Parts,       \* the blobs of a payload: its manifest and what it refers to
          Terminal     \* of a completed event stream its last event; else itself

NoPayload == "no payload"
Moved == "moved"       \* of a row without legacy columns

ASSUME PartsAssumption ==
    /\ Parts \in [Payloads -> SUBSET Blobs] 
    /\ NoPayload \notin Payloads /\ Moved \notin Payloads
    /\ Terminal \in [Payloads -> Payloads]
    /\ \A p \in Payloads : Terminal[Terminal[p]] = Terminal[p]

VARIABLES refs,       \* records: the payload that response_ref names, or NoPayload
          legacy,     \* records: the response in the row's legacy columns, NoPayload when
                      \* they hold an original request only, or Moved
          blobs,      \* the blobs table
          sent        \* history: the payload that the last ingest delivered for a row

contractVars == <<refs, legacy, blobs, sent>>

Refs == Payloads \cup {NoPayload}
Reachable == UNION {Parts[refs[r]] : r \in {q \in Requests : refs[q] # NoPayload}}
BlobsOf(p) == IF p = NoPayload THEN {} ELSE Parts[p]

\* CompactPayload keeps the last event of a completed stream; an empty payload
\* has no blob.
Stored(p) == IF p = NoPayload THEN NoPayload ELSE Terminal[p]

ContractInit ==
    /\ refs \in [Requests -> Refs]
    /\ legacy \in [Requests -> Refs \cup {Moved}]
    /\ sent = refs
    /\ blobs \subseteq Blobs
    /\ Reachable \subseteq blobs

\* A transaction gives a row a payload and stores what it consists of.
Rewrite(r, p) ==
    /\ refs' = [refs EXCEPT ![r] = Stored(p)]
    /\ blobs' = blobs \cup BlobsOf(Stored(p))

\* An ingest brings a payload, and never touches the legacy columns.
Deliver(r, p) ==
    /\ Rewrite(r, p)
    /\ sent' = [sent EXCEPT ![r] = p]
    /\ UNCHANGED legacy

\* Maintenance brings nothing new: it leaves a row the last event of what it
\* refers to now, or its own legacy copy, which leaves the row only into the
\* store, over what an ingest delivered before.
Settle(r) ==
    /\ \/ Rewrite(r, refs[r]) /\ UNCHANGED legacy
       \/ /\ legacy[r] # Moved /\ Rewrite(r, legacy[r])
          /\ legacy' = [legacy EXCEPT ![r] = Moved]
    /\ UNCHANGED sent

\* A collection is one transaction.
Collect ==
    /\ blobs' = Reachable
    /\ UNCHANGED <<refs, legacy, sent>>

ContractNext ==
    \/ \E r \in Requests, p \in Refs : Deliver(r, p)
    \/ \E r \in Requests : Settle(r)
    \/ Collect

ContractSpec == ContractInit /\ [][ContractNext]_contractVars

-----------------------------------------------------------------------------
\* Whatever writers reuse while the garbage collector decides, every blob that
\* a row's manifest reaches is in the table (putPayload ignores a blob that is
\* there, GC deletes it in the transaction that found it unreachable).
NoDanglingReference == Reachable \subseteq blobs
=============================================================================
