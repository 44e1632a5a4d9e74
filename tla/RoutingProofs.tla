---------------------------- MODULE RoutingProofs ----------------------------
(***************************************************************************)
(* Proofs about UploadRouting: the type invariant; no request of a client  *)
(* is accepted twice; a session stays in the store until its upload is     *)
(* over; the count of an epoch never exceeds what was accepted in it.      *)
(***************************************************************************)
EXTENDS UploadRouting, FiniteSetTheorems, TLAPS

USE HolderAssumption, MaxShardsAssumption, SeedAssumption, BoundsAssumption

\* Places at which the handler works for a session of the store.
InSession == {"u1_shard", "u1_delete", "u1_cache", "u2_session", "u2_epoch", "u2_shard",
              "u3_session", "u3_epoch", "u3_shard", "u3_delete", "u3_record"}

\* A call belongs to a request; a session has a uuid and a shard.
SessionsRouted ==
  \A k \in Clients :
    /\ client[k].at \in Handling => client[k].request >= 1
    /\ client[k].at \in InSession =>
         client[k].uuid \in Uuids /\ record[client[k].uuid].shard \in Shards

RoutingInv == TypeOK /\ SessionsRouted

-----------------------------------------------------------------------------
\* The initial state has the types.
LEMMA RoutingInit == Init => RoutingInv
  <1> SUFFICES ASSUME Init PROVE RoutingInv
    OBVIOUS
  <1> USE DEF Init
  <1>1. client \in [Clients -> ClientRecord]
    BY DEF ClientRecord, Errors, EpochIDs, Shards
  <1>2. SessionsRouted
    BY DEF SessionsRouted, Handling, InSession
  <1>3. /\ epoch \in [id : EpochIDs, state : {"NoActive", "Active", "Completed"}]
        /\ record \in [Uuids -> [epoch : EpochIDs, shard : 0 .. MaxShards]]
        /\ metrics \in [epoch : EpochIDs, count : Nat, on : BOOLEAN]
    BY DEF EpochIDs, NoRecord
  <1>4. shard \in [Shards -> [id : EpochIDs,
                              state : {"Standby", "NoActive", "Active", "Closing", "Completed"}]]
    BY DEF EpochIDs
  <1>5. /\ used \in Used
        /\ uuids \in 0 .. MaxUuid
    BY DEF Used
  <1>6. stored \subseteq Uuids /\ open \in [Shards -> SUBSET Uuids]
        /\ cache \in [Coordinators -> SUBSET Uuids] /\ accepted \subseteq AcceptedRecord
    OBVIOUS
  <1>7. stop \in BOOLEAN /\ failed \in BOOLEAN /\ count \in Shards /\ counts \subseteq Shards
    BY DEF Shards
  <1>8. clients \in [Coordinators -> SUBSET Shards]
    <2>1. 1 .. SeedShards \in SUBSET Shards
      BY DEF Shards
    <2> QED BY <2>1
  <1> QED BY <1>1, <1>2, <1>3, <1>4, <1>5, <1>6, <1>7, <1>8 DEF RoutingInv, TypeOK

\* The record of one client is replaced.
LEMMA ClientUpdated ==
  ASSUME client \in [Clients -> ClientRecord], NEW k \in Clients,
         NEW r \in ClientRecord, client' = [client EXCEPT ![k] = r]
  PROVE  /\ client' \in [Clients -> ClientRecord]
         /\ client'[k] = r
         /\ \A j \in Clients : j # k => client'[j] = client[j]
  OBVIOUS

\* A call that fails leaves the client typed and outside every session.
LEMMA FailsTyped ==
  ASSUME RoutingInv, NEW k \in Clients, NEW error \in Errors, Fails(k, error),
         client[k].at \in Handling
  PROVE  /\ client' \in [Clients -> ClientRecord]
         /\ stop' \in BOOLEAN
         /\ client'[k].request = client[k].request
         /\ client'[k].at \in {"u1_epoch", "failed"}
         /\ \A j \in Clients : j # k => client'[j] = client[j]
  <1>1. client \in [Clients -> ClientRecord] /\ stop \in BOOLEAN
    BY DEF RoutingInv, TypeOK
  <1>2. stop' \in BOOLEAN
    BY <1>1, Zenon DEF Fails
  <1>3. CASE Retryable(error)
    <2>1. PICK c \in Coordinators :
            client' = [client EXCEPT ![k] = Calling(c, client[k].row, client[k].request)]
      BY <1>3, Zenon DEF Fails
    <2> QED BY <1>1, <1>2, <2>1 DEF Calling, ClientRecord, Handling, Errors, EpochIDs
  <1>4. CASE ~Retryable(error)
    <2> DEFINE r == [client[k] EXCEPT !.at = "failed", !.error = error]
    <2>1. r \in ClientRecord /\ r.at = "failed" /\ r.request = client[k].request
      BY <1>1 DEF ClientRecord
    <2>2. client' = [client EXCEPT ![k].at = "failed", ![k].error = error]
      BY <1>4, Zenon DEF Fails
    <2>3. client' = [client EXCEPT ![k] = r]
      BY <1>1, <2>2
    <2> HIDE DEF r
    <2> QED BY <1>1, <1>2, <2>1, <2>3, ClientUpdated
  <1> QED BY <1>3, <1>4

\* A handler that moves on leaves all but its place alone.
LEMMA GotoTyped ==
  ASSUME RoutingInv, NEW k \in Clients,
         NEW place \in Handling \cup {"idle", "done", "failed"}, Goto(k, place)
  PROVE  /\ client' \in [Clients -> ClientRecord]
         /\ stop' \in BOOLEAN
         /\ client'[k] = [client[k] EXCEPT !.at = place]
         /\ \A j \in Clients : j # k => client'[j] = client[j]
  <1> DEFINE r == [client[k] EXCEPT !.at = place]
  <1>1. client \in [Clients -> ClientRecord] /\ stop \in BOOLEAN
    BY DEF RoutingInv, TypeOK
  <1>2. r \in ClientRecord
    BY <1>1 DEF ClientRecord
  <1>3. client' = [client EXCEPT ![k] = r] /\ stop' = stop
    BY DEF Goto
  <1> HIDE DEF r
  <1>4. /\ client' \in [Clients -> ClientRecord]
        /\ client'[k] = r
        /\ \A j \in Clients : j # k => client'[j] = client[j]
    BY <1>1, <1>2, <1>3, ClientUpdated
  <1> QED BY <1>1, <1>3, <1>4 DEF r

\* What was used of the bounds stays within them.
LEMMA FaultTyped ==
  ASSUME RoutingInv, Fault \/ NoFault \/ Misread
  PROVE  used' \in Used
  <1>1. used \in Used
    BY DEF RoutingInv, TypeOK
  <1>2. CASE Fault
    BY <1>1, <1>2 DEF Fault, Unspent, Used
  <1>3. CASE NoFault
    BY <1>1, <1>3 DEF NoFault
  <1>4. CASE Misread
    BY <1>1, <1>4 DEF Misread, Unspent, Used
  <1> QED BY <1>2, <1>3, <1>4

\* What a step of one client has to show for SessionsRouted.
LEMMA OneClientMoves ==
  ASSUME RoutingInv, NEW k \in Clients,
         \A j \in Clients : j # k => client'[j] = client[j],
         client'[k].at \in Handling => client'[k].request >= 1,
         client'[k].at \in InSession =>
           client'[k].uuid \in Uuids /\ record'[client'[k].uuid].shard \in Shards,
         \A u \in Uuids : record[u].shard \in Shards => record'[u].shard \in Shards
  PROVE  SessionsRouted'
  BY DEF RoutingInv, SessionsRouted

\* A failing call leaves no session behind.
LEMMA FailsRouted ==
  ASSUME RoutingInv, NEW k \in Clients, NEW error \in Errors, Fails(k, error),
         client[k].at \in Handling, UNCHANGED record
  PROVE  SessionsRouted'
  <1>1. /\ client'[k].request = client[k].request
        /\ client'[k].at \in {"u1_epoch", "failed"}
        /\ \A j \in Clients : j # k => client'[j] = client[j]
    BY FailsTyped
  <1>2. client[k].request >= 1
    BY DEF RoutingInv, SessionsRouted
  <1>3. client'[k].at \notin InSession
    BY <1>1 DEF InSession
  <1> QED BY <1>1, <1>2, <1>3, OneClientMoves

\* A handler that moves on inside a session keeps it.
LEMMA GotoRouted ==
  ASSUME RoutingInv, NEW k \in Clients,
         NEW place \in Handling \cup {"idle", "done", "failed"}, Goto(k, place),
         place \in Handling => client[k].at \in Handling,
         place \in InSession => client[k].at \in InSession,
         UNCHANGED record
  PROVE  SessionsRouted'
  <1>1. /\ client'[k] = [client[k] EXCEPT !.at = place]
        /\ \A j \in Clients : j # k => client'[j] = client[j]
    BY GotoTyped
  <1>2. client[k] \in ClientRecord
    BY DEF RoutingInv, TypeOK
  <1>3. client'[k].at = place /\ client'[k].request = client[k].request
        /\ client'[k].uuid = client[k].uuid
    BY <1>1, <1>2 DEF ClientRecord
  <1>4. /\ client[k].at \in Handling => client[k].request >= 1
        /\ client[k].at \in InSession =>
             client[k].uuid \in Uuids /\ record[client[k].uuid].shard \in Shards
    BY DEF RoutingInv, SessionsRouted
  <1> QED BY <1>1, <1>3, <1>4, OneClientMoves

-----------------------------------------------------------------------------
(***************************************************************************)
(* Steps of a client                                                       *)
(***************************************************************************)

\* NextRequest keeps the invariant.
LEMMA NextRequestInv ==
  ASSUME RoutingInv, NEW k \in Clients, NEW s \in Shards, NEW c \in Coordinators,
         NextRequest(k, s, c)
  PROVE  RoutingInv'
  <1> USE DEF NextRequest
  <1>1. client \in [Clients -> ClientRecord]
    BY DEF RoutingInv, TypeOK
  <1>2. /\ client' \in [Clients -> ClientRecord]
        /\ client'[k].at = "u1_epoch" /\ client'[k].request >= 1
        /\ \A j \in Clients : j # k => client'[j] = client[j]
    BY <1>1 DEF Calling, ClientRecord, Handling, Errors, EpochIDs
  <1>3. SessionsRouted'
    BY <1>2, OneClientMoves DEF InSession, storeVars
  <1>4. TypeOK'
    BY <1>2 DEF RoutingInv, TypeOK, storeVars, shardVars
  <1> QED BY <1>3, <1>4 DEF RoutingInv

\* ClientStops keeps the invariant.
LEMMA ClientStopsInv ==
  ASSUME RoutingInv, NEW k \in Clients, ClientStops(k)
  PROVE  RoutingInv'
  <1> USE DEF ClientStops
  <1>1. client' \in [Clients -> ClientRecord] /\ stop' \in BOOLEAN
    BY GotoTyped
  <1>2. SessionsRouted'
    BY GotoRouted DEF Handling, InSession, storeVars
  <1>3. TypeOK'
    BY <1>1 DEF RoutingInv, TypeOK, storeVars, shardVars
  <1> QED BY <1>2, <1>3 DEF RoutingInv

\* Upload1ReadsEpoch keeps the invariant.
LEMMA Upload1ReadsEpochInv ==
  ASSUME RoutingInv, NEW k \in Clients, Upload1ReadsEpoch(k)
  PROVE  RoutingInv'
  <1> USE DEF Upload1ReadsEpoch
  <1>1. client[k].at \in Handling /\ UNCHANGED record
    BY DEF At, Handling, storeVars
  <1>2. client' \in [Clients -> ClientRecord] /\ stop' \in BOOLEAN /\ SessionsRouted'
    <2>1. CASE Fails(k, "no_epoch")
      BY <1>1, <2>1, FailsTyped, FailsRouted DEF Errors
    <2>2. ASSUME NEW id \in 1 .. epoch.id, UNCHANGED stop,
                 client' = [client EXCEPT ![k].at = "u1_config", ![k].epoch = id]
          PROVE  client' \in [Clients -> ClientRecord] /\ stop' \in BOOLEAN /\ SessionsRouted'
      <3>1. client \in [Clients -> ClientRecord] /\ id \in EpochIDs /\ stop \in BOOLEAN
        BY DEF RoutingInv, TypeOK, EpochIDs
      <3>2. /\ client' \in [Clients -> ClientRecord]
            /\ client'[k].at = "u1_config" /\ client'[k].request = client[k].request
            /\ \A j \in Clients : j # k => client'[j] = client[j]
        <4> DEFINE r == [client[k] EXCEPT !.at = "u1_config", !.epoch = id]
        <4>1. r \in ClientRecord /\ r.at = "u1_config" /\ r.request = client[k].request
          BY <3>1 DEF ClientRecord, Handling
        <4>2. client' = [client EXCEPT ![k] = r]
          BY <2>2, <3>1
        <4> HIDE DEF r
        <4> QED BY <3>1, <4>1, <4>2, ClientUpdated
      <3>3. client[k].request >= 1
        BY <1>1 DEF RoutingInv, SessionsRouted
      <3>4. SessionsRouted'
        BY <1>1, <3>2, <3>3, OneClientMoves DEF InSession
      <3> QED BY <2>2, <3>1, <3>2, <3>4
    <2>3. \/ Fails(k, "no_epoch")
          \/ \E id \in 1 .. epoch.id :
               /\ UNCHANGED stop
               /\ client' = [client EXCEPT ![k].at = "u1_config", ![k].epoch = id]
      BY Zenon
    <2> QED BY <2>1, <2>2, <2>3
  <1>3. used' \in Used
    BY FaultTyped DEF Read
  <1>4. TypeOK'
    BY <1>2, <1>3 DEF RoutingInv, TypeOK, storeVars, shardVars
  <1> QED BY <1>2, <1>4 DEF RoutingInv

\* Upload1ReadsConfig keeps the invariant.
LEMMA Upload1ReadsConfigInv ==
  ASSUME RoutingInv, NEW k \in Clients, Upload1ReadsConfig(k)
  PROVE  RoutingInv'
  <1> USE DEF Upload1ReadsConfig
  <1>1. client[k].at \in Handling /\ UNCHANGED record
    BY DEF At, Handling, storeVars
  <1>2. client' \in [Clients -> ClientRecord] /\ stop' \in BOOLEAN /\ SessionsRouted'
    <2>1. CASE Fails(k, "other")
      BY <1>1, <2>1, FailsTyped, FailsRouted DEF Errors
    <2>2. CASE Goto(k, "u1_put")
      BY <1>1, <2>2, GotoTyped, GotoRouted DEF Handling, InSession
    <2>3. Fails(k, "other") \/ Goto(k, "u1_put")
      BY Zenon
    <2> QED BY <2>1, <2>2, <2>3
  <1>3. used' \in Used
    BY FaultTyped DEF Read
  <1>4. TypeOK'
    BY <1>2, <1>3 DEF RoutingInv, TypeOK, storeVars, shardVars
  <1> QED BY <1>2, <1>4 DEF RoutingInv

\* Upload1PutsSession keeps the invariant.
LEMMA Upload1PutsSessionInv ==
  ASSUME RoutingInv, NEW k \in Clients, Upload1PutsSession(k)
  PROVE  RoutingInv'
  <1> USE DEF Upload1PutsSession
  <1> DEFINE entry == [epoch |-> client[k].epoch, shard |-> client[k].row]
  <1>1. /\ client[k].at = "u1_put" /\ client[k].at \in Handling
        /\ client \in [Clients -> ClientRecord] /\ stop \in BOOLEAN
    BY DEF At, Handling, RoutingInv, TypeOK
  <1>2. uuids' \in Uuids /\ uuids' \in 0 .. MaxUuid
    BY DEF RoutingInv, TypeOK, Uuids
  <1>3. entry \in [epoch : EpochIDs, shard : 0 .. MaxShards] /\ entry.shard \in Shards
    BY <1>1 DEF ClientRecord, Shards
  <1>4. /\ stored \subseteq Uuids
        /\ record \in [Uuids -> [epoch : EpochIDs, shard : 0 .. MaxShards]]
    BY DEF RoutingInv, TypeOK
  <1>5. stored' \subseteq Uuids
    BY <1>2, <1>4
  <1>6. record' = [record EXCEPT ![uuids'] = entry] \/ record' = record
    BY Zenon
  <1> HIDE DEF entry
  <1>7. /\ record' \in [Uuids -> [epoch : EpochIDs, shard : 0 .. MaxShards]]
        /\ \A u \in Uuids : record[u].shard \in Shards => record'[u].shard \in Shards
    BY <1>2, <1>3, <1>4, <1>6
  <1>8. client' \in [Clients -> ClientRecord] /\ stop' \in BOOLEAN /\ SessionsRouted'
    <2>1. CASE Fails(k, "other")
      <3>1. /\ client' \in [Clients -> ClientRecord] /\ stop' \in BOOLEAN
            /\ client'[k].request = client[k].request
            /\ client'[k].at \in {"u1_epoch", "failed"}
            /\ \A j \in Clients : j # k => client'[j] = client[j]
        BY <1>1, <2>1, FailsTyped DEF Errors
      <3>2. client[k].request >= 1
        BY <1>1 DEF RoutingInv, SessionsRouted
      <3>3. client'[k].at \notin InSession
        BY <3>1 DEF InSession
      <3>4. SessionsRouted'
        BY <1>7, <3>1, <3>2, <3>3, OneClientMoves
      <3> QED BY <3>1, <3>4
    <2>2. CASE /\ record' = [record EXCEPT ![uuids'] = entry]
               /\ client' = [client EXCEPT ![k].at = "u1_shard", ![k].uuid = uuids']
               /\ UNCHANGED stop
      <3> HIDE DEF Upload1PutsSession
      <3>1. /\ client' \in [Clients -> ClientRecord]
            /\ client'[k].at = "u1_shard" /\ client'[k].request = client[k].request
            /\ client'[k].uuid = uuids'
            /\ \A j \in Clients : j # k => client'[j] = client[j]
        <4> DEFINE r == [client[k] EXCEPT !.at = "u1_shard", !.uuid = uuids']
        <4>1. /\ r \in ClientRecord /\ r.at = "u1_shard"
              /\ r.request = client[k].request /\ r.uuid = uuids'
          BY <1>1, <1>2 DEF ClientRecord, Handling
        <4>2. client' = [client EXCEPT ![k] = r]
          BY <1>1, <2>2
        <4> HIDE DEF r
        <4> QED BY <1>1, <4>1, <4>2, ClientUpdated
      <3>2. client[k].request >= 1
        BY <1>1 DEF RoutingInv, SessionsRouted
      <3>3. record'[uuids'].shard \in Shards
        BY <1>2, <1>3, <1>4, <2>2
      <3>4. SessionsRouted'
        BY <1>2, <1>7, <3>1, <3>2, <3>3, OneClientMoves
      <3> QED BY <1>1, <2>2, <3>1, <3>4
    <2> QED BY <2>1, <2>2 DEF entry
  <1>9. used' \in Used
    BY FaultTyped
  <1>10. TypeOK'
    BY <1>2, <1>5, <1>7, <1>8, <1>9 DEF RoutingInv, TypeOK, shardVars
  <1> QED BY <1>8, <1>10 DEF RoutingInv

\* Upload1AtShard keeps the invariant.
LEMMA Upload1AtShardInv ==
  ASSUME RoutingInv, NEW k \in Clients, Upload1AtShard(k)
  PROVE  RoutingInv'
  <1> USE DEF Upload1AtShard
  <1>1. /\ client[k].at = "u1_shard" /\ UNCHANGED record
        /\ client \in [Clients -> ClientRecord] /\ stop \in BOOLEAN
        /\ open \in [Shards -> SUBSET Uuids]
    BY DEF At, storeVars, RoutingInv, TypeOK
  <1>2. client[k].uuid \in Uuids /\ client[k].request >= 1
    BY <1>1 DEF RoutingInv, SessionsRouted, InSession, Handling
  <1>3. open' \in [Shards -> SUBSET Uuids]
    BY <1>1, <1>2
  <1>4. client' \in [Clients -> ClientRecord] /\ stop' \in BOOLEAN /\ SessionsRouted'
    <2>1. CASE Goto(k, "u1_cache")
      BY <1>1, <2>1, GotoTyped, GotoRouted DEF Handling, InSession
    <2>2. ASSUME NEW error \in Errors,
                 client' = [client EXCEPT ![k].at = "u1_delete", ![k].error = error],
                 UNCHANGED stop
          PROVE  client' \in [Clients -> ClientRecord] /\ stop' \in BOOLEAN /\ SessionsRouted'
      <3>1. /\ client' \in [Clients -> ClientRecord]
            /\ client'[k].at = "u1_delete" /\ client'[k].request = client[k].request
            /\ client'[k].uuid = client[k].uuid
            /\ \A j \in Clients : j # k => client'[j] = client[j]
        <4> DEFINE r == [client[k] EXCEPT !.at = "u1_delete", !.error = error]
        <4>1. /\ r \in ClientRecord /\ r.at = "u1_delete"
              /\ r.request = client[k].request /\ r.uuid = client[k].uuid
          BY <1>1 DEF ClientRecord, Handling
        <4>2. client' = [client EXCEPT ![k] = r]
          BY <1>1, <2>2
        <4> HIDE DEF r
        <4> QED BY <1>1, <4>1, <4>2, ClientUpdated
      <3>2. record[client[k].uuid].shard \in Shards
        BY <1>1 DEF RoutingInv, SessionsRouted, InSession
      <3>3. SessionsRouted'
        BY <1>1, <1>2, <3>1, <3>2, OneClientMoves
      <3> QED BY <1>1, <2>2, <3>1, <3>3
    <2>3. Refusal(client[k].row, "no_epoch") \in Errors /\ "other" \in Errors
      BY DEF Refusal, Errors
    <2>4. \/ Goto(k, "u1_cache")
          \/ \E error \in Errors :
               /\ client' = [client EXCEPT ![k].at = "u1_delete", ![k].error = error]
               /\ UNCHANGED stop
      BY <2>3, Zenon
    <2> QED BY <2>1, <2>2, <2>4
  <1>5. used' \in Used
    BY FaultTyped
  <1>6. TypeOK'
    BY <1>3, <1>4, <1>5 DEF RoutingInv, TypeOK, storeVars
  <1> QED BY <1>4, <1>6 DEF RoutingInv

\* Upload1DeletesSession keeps the invariant.
LEMMA Upload1DeletesSessionInv ==
  ASSUME RoutingInv, NEW k \in Clients, Upload1DeletesSession(k)
  PROVE  RoutingInv'
  <1> USE DEF Upload1DeletesSession
  <1>1. client[k].at \in Handling /\ UNCHANGED record
    BY DEF At, Handling
  <1>2. client[k].error \in Errors
    BY DEF RoutingInv, TypeOK, ClientRecord
  <1>3. client' \in [Clients -> ClientRecord] /\ stop' \in BOOLEAN /\ SessionsRouted'
    BY <1>1, <1>2, FailsTyped, FailsRouted
  <1>4. stored' \subseteq Uuids
    BY DEF RoutingInv, TypeOK
  <1>5. used' \in Used
    BY FaultTyped
  <1>6. TypeOK'
    BY <1>3, <1>4, <1>5 DEF RoutingInv, TypeOK, shardVars
  <1> QED BY <1>3, <1>6 DEF RoutingInv

\* Upload1Answers keeps the invariant.
LEMMA Upload1AnswersInv ==
  ASSUME RoutingInv, NEW k \in Clients, Upload1Answers(k)
  PROVE  RoutingInv'
  <1> USE DEF Upload1Answers
  <1>1. /\ client[k].at = "u1_cache" /\ UNCHANGED record
        /\ client \in [Clients -> ClientRecord]
        /\ cache \in [Coordinators -> SUBSET Uuids]
    BY DEF At, storeVars, RoutingInv, TypeOK
  <1>2. /\ client[k].uuid \in Uuids /\ client[k].request >= 1
        /\ record[client[k].uuid].shard \in Shards
    BY <1>1 DEF RoutingInv, SessionsRouted, InSession, Handling
  <1>3. cache' \in [Coordinators -> SUBSET Uuids]
    BY <1>1, <1>2 DEF ClientRecord
  <1>4. PICK c \in Coordinators : client' = [client EXCEPT ![k].at = "u2_session", ![k].via = c]
    BY Zenon
  <1> HIDE DEF Upload1Answers
  <1>5. /\ client' \in [Clients -> ClientRecord]
        /\ client'[k].request = client[k].request /\ client'[k].uuid = client[k].uuid
        /\ \A j \in Clients : j # k => client'[j] = client[j]
    <2> DEFINE r == [client[k] EXCEPT !.at = "u2_session", !.via = c]
    <2>1. r \in ClientRecord /\ r.request = client[k].request /\ r.uuid = client[k].uuid
      BY <1>1 DEF ClientRecord, Handling
    <2>2. client' = [client EXCEPT ![k] = r]
      BY <1>1, <1>4
    <2> HIDE DEF r
    <2> QED BY <1>1, <2>1, <2>2, ClientUpdated
  <1>6. SessionsRouted'
    BY <1>1, <1>2, <1>5, OneClientMoves
  <1>7. TypeOK'
    BY <1>3, <1>5 DEF Upload1Answers, RoutingInv, TypeOK, storeVars, shardVars
  <1> QED BY <1>6, <1>7 DEF RoutingInv

\* Upload2 and Upload3 use it with the places of their own sessions.
LEMMA FindsSessionInv ==
  ASSUME RoutingInv, NEW k \in Clients, NEW from \in InSession, NEW to \in InSession,
         FindsSession(k, from, to)
  PROVE  RoutingInv'
  <1> USE DEF FindsSession
  <1>1. /\ client[k].at \in Handling /\ client[k].at \in InSession /\ UNCHANGED record
        /\ to \in Handling
        /\ client[k].via \in Coordinators
        /\ cache \in [Coordinators -> SUBSET Uuids]
    BY DEF At, Handling, InSession, storeVars, RoutingInv, TypeOK, ClientRecord
  <1>2. client[k].uuid \in Uuids
    BY <1>1 DEF RoutingInv, SessionsRouted
  <1>3. cache' \in [Coordinators -> SUBSET Uuids]
    BY <1>1, <1>2
  <1>4. client' \in [Clients -> ClientRecord] /\ stop' \in BOOLEAN /\ SessionsRouted'
    <2>1. CASE Fails(k, "bogus")
      BY <1>1, <2>1, FailsTyped, FailsRouted DEF Errors
    <2>2. CASE Goto(k, to)
      BY <1>1, <2>2, GotoTyped, GotoRouted
    <2> QED BY <2>1, <2>2
  <1>5. used' \in Used
    BY FaultTyped
  <1>6. TypeOK'
    BY <1>3, <1>4, <1>5 DEF RoutingInv, TypeOK, storeVars, shardVars
  <1> QED BY <1>4, <1>6 DEF RoutingInv

\* RequiresSessionEpoch keeps the invariant.
LEMMA RequiresSessionEpochInv ==
  ASSUME RoutingInv, NEW k \in Clients, NEW from \in InSession, NEW to \in InSession,
         RequiresSessionEpoch(k, from, to)
  PROVE  RoutingInv'
  <1> USE DEF RequiresSessionEpoch
  <1>1. /\ client[k].at \in Handling /\ client[k].at \in InSession /\ UNCHANGED record
        /\ to \in Handling
    BY DEF At, Handling, InSession, storeVars
  <1>2. client' \in [Clients -> ClientRecord] /\ stop' \in BOOLEAN /\ SessionsRouted'
    <2>1. CASE Fails(k, "no_epoch")
      BY <1>1, <2>1, FailsTyped, FailsRouted DEF Errors
    <2>2. CASE Goto(k, to)
      BY <1>1, <2>2, GotoTyped, GotoRouted
    <2>3. CASE Fails(k, "other")
      BY <1>1, <2>3, FailsTyped, FailsRouted DEF Errors
    <2>4. Fails(k, "no_epoch") \/ Fails(k, "other") \/ Goto(k, to)
      BY Zenon
    <2> QED BY <2>1, <2>2, <2>3, <2>4
  <1>3. used' \in Used
    BY FaultTyped DEF Read
  <1>4. TypeOK'
    BY <1>2, <1>3 DEF RoutingInv, TypeOK, storeVars, shardVars
  <1> QED BY <1>2, <1>4 DEF RoutingInv

\* Upload2AtShard keeps the invariant.
LEMMA Upload2AtShardInv ==
  ASSUME RoutingInv, NEW k \in Clients, Upload2AtShard(k)
  PROVE  RoutingInv'
  <1>1. /\ client[k].at = "u2_shard" /\ client[k].at \in Handling /\ UNCHANGED record
        /\ client \in [Clients -> ClientRecord] /\ stop \in BOOLEAN
    BY DEF Upload2AtShard, At, Handling, storeVars, RoutingInv, TypeOK
  <1>2. \/ \E error \in Errors : Fails(k, error)
        \/ /\ \E c \in Coordinators : client' = [client EXCEPT ![k].at = "u3_session", ![k].via = c]
           /\ UNCHANGED stop
    <2>1. Refusal(record[client[k].uuid].shard, "lost") \in Errors /\ "other" \in Errors
      BY DEF Refusal, Errors
    <2> QED BY <2>1, Zenon DEF Upload2AtShard
  <1>3. client' \in [Clients -> ClientRecord] /\ stop' \in BOOLEAN /\ SessionsRouted'
    <2>1. ASSUME NEW error \in Errors, Fails(k, error)
          PROVE  client' \in [Clients -> ClientRecord] /\ stop' \in BOOLEAN /\ SessionsRouted'
      BY <1>1, <2>1, FailsTyped, FailsRouted
    <2>2. ASSUME NEW c \in Coordinators, UNCHANGED stop,
                 client' = [client EXCEPT ![k].at = "u3_session", ![k].via = c]
          PROVE  client' \in [Clients -> ClientRecord] /\ stop' \in BOOLEAN /\ SessionsRouted'
      <3>1. /\ client' \in [Clients -> ClientRecord]
            /\ client'[k].request = client[k].request /\ client'[k].uuid = client[k].uuid
            /\ \A j \in Clients : j # k => client'[j] = client[j]
        <4> DEFINE r == [client[k] EXCEPT !.at = "u3_session", !.via = c]
        <4>1. /\ r \in ClientRecord
              /\ r.request = client[k].request /\ r.uuid = client[k].uuid
          BY <1>1 DEF ClientRecord, Handling
        <4>2. client' = [client EXCEPT ![k] = r]
          BY <1>1, <2>2
        <4> HIDE DEF r
        <4> QED BY <1>1, <4>1, <4>2, ClientUpdated
      <3>2. /\ client[k].uuid \in Uuids /\ client[k].request >= 1
            /\ record[client[k].uuid].shard \in Shards
        BY <1>1 DEF RoutingInv, SessionsRouted, InSession
      <3>3. SessionsRouted'
        BY <1>1, <3>1, <3>2, OneClientMoves
      <3> QED BY <1>1, <2>2, <3>1, <3>3
    <2> QED BY <1>2, <2>1, <2>2
  <1>4. /\ Fault \/ NoFault
        /\ UNCHANGED <<storeVars, shardVars, cache, clients, metrics, uuids, accepted>>
    BY Zenon DEF Upload2AtShard
  <1>5. used' \in Used
    BY <1>4, FaultTyped
  <1>6. TypeOK'
    BY <1>3, <1>4, <1>5 DEF RoutingInv, TypeOK, storeVars, shardVars
  <1> QED BY <1>3, <1>6 DEF RoutingInv

\* What Upload3AtShard may add to the history.
Enqueued(k) ==
  [client |-> k, request |-> client[k].request, uuid |-> client[k].uuid,
   session |-> record[client[k].uuid].epoch,
   epoch |-> shard[record[client[k].uuid].shard].id]

\* Upload3AtShard keeps the invariant.
LEMMA Upload3AtShardInv ==
  ASSUME RoutingInv, NEW k \in Clients, Upload3AtShard(k)
  PROVE  RoutingInv'
  <1>0. /\ At(k, "u3_shard") /\ (Fault \/ NoFault)
        /\ UNCHANGED <<storeVars, shard, failed, cache, clients, metrics, uuids>>
    BY Zenon DEF Upload3AtShard
  <1>1. /\ client[k].at = "u3_shard" /\ client[k].at \in Handling /\ UNCHANGED record
        /\ client[k] \in ClientRecord /\ open \in [Shards -> SUBSET Uuids]
        /\ record \in [Uuids -> [epoch : EpochIDs, shard : 0 .. MaxShards]]
        /\ shard \in [Shards -> [id : EpochIDs,
                                 state : {"Standby", "NoActive", "Active", "Closing", "Completed"}]]
    BY <1>0 DEF At, Handling, storeVars, RoutingInv, TypeOK
  <1>2. /\ client[k].uuid \in Uuids /\ client[k].request >= 1
        /\ record[client[k].uuid].shard \in Shards
    BY <1>1 DEF RoutingInv, SessionsRouted, InSession
  <1>3. open' \in [Shards -> SUBSET Uuids]
    <2>1. \/ UNCHANGED open
          \/ open' = [open EXCEPT ![record[client[k].uuid].shard] = @ \ {client[k].uuid}]
      BY Zenon DEF Upload3AtShard
    <2> QED BY <1>1, <1>2, <2>1
  <1>4. Enqueued(k) \in AcceptedRecord
    BY <1>1, <1>2 DEF Enqueued, AcceptedRecord, ClientRecord
  <1>5. accepted' \in {accepted, accepted \cup {Enqueued(k)}}
    BY Zenon DEF Upload3AtShard, Enqueued
  <1>6. accepted' \subseteq AcceptedRecord
    BY <1>4, <1>5 DEF RoutingInv, TypeOK
  <1>7. Goto(k, "u3_delete") \/ \E error \in Errors : Fails(k, error)
    <2>1. Refusal(record[client[k].uuid].shard, "lost") \in Errors /\ "other" \in Errors
      BY DEF Refusal, Errors
    <2> QED BY <2>1, Zenon DEF Upload3AtShard
  <1>8. client' \in [Clients -> ClientRecord] /\ stop' \in BOOLEAN /\ SessionsRouted'
    <2>1. ASSUME NEW error \in Errors, Fails(k, error)
          PROVE  client' \in [Clients -> ClientRecord] /\ stop' \in BOOLEAN /\ SessionsRouted'
      BY <1>1, <2>1, FailsTyped, FailsRouted
    <2>2. CASE Goto(k, "u3_delete")
      BY <1>1, <2>2, GotoTyped, GotoRouted DEF Handling, InSession
    <2> QED BY <1>7, <2>1, <2>2
  <1>9. used' \in Used
    BY <1>0, FaultTyped
  <1>10. TypeOK'
    BY <1>0, <1>3, <1>6, <1>8, <1>9 DEF RoutingInv, TypeOK, storeVars
  <1> QED BY <1>8, <1>10 DEF RoutingInv

\* Upload3DeletesSession keeps the invariant.
LEMMA Upload3DeletesSessionInv ==
  ASSUME RoutingInv, NEW k \in Clients, Upload3DeletesSession(k)
  PROVE  RoutingInv'
  <1> USE DEF Upload3DeletesSession
  <1>1. client[k].at \in Handling /\ client[k].at \in InSession /\ UNCHANGED record
    BY DEF At, Handling, InSession
  <1>2. client' \in [Clients -> ClientRecord] /\ stop' \in BOOLEAN /\ SessionsRouted'
    <2>1. CASE Fails(k, "other")
      BY <1>1, <2>1, FailsTyped, FailsRouted DEF Errors
    <2>2. CASE Goto(k, "u3_record")
      BY <1>1, <2>2, GotoTyped, GotoRouted DEF Handling
    <2> QED BY <2>1, <2>2
  <1>3. stored' \subseteq Uuids
    BY DEF RoutingInv, TypeOK
  <1>4. used' \in Used
    BY FaultTyped
  <1>5. TypeOK'
    BY <1>2, <1>3, <1>4 DEF RoutingInv, TypeOK, shardVars
  <1> QED BY <1>2, <1>5 DEF RoutingInv

\* RecordUpload3Success keeps the invariant.
LEMMA RecordUpload3SuccessInv ==
  ASSUME RoutingInv, NEW k \in Clients, RecordUpload3Success(k)
  PROVE  RoutingInv'
  <1> USE DEF RecordUpload3Success
  <1>1. UNCHANGED record /\ client[k].via \in Coordinators
        /\ cache \in [Coordinators -> SUBSET Uuids]
        /\ metrics \in [epoch : EpochIDs, count : Nat, on : BOOLEAN]
    BY DEF storeVars, RoutingInv, TypeOK, ClientRecord
  <1>2. client' \in [Clients -> ClientRecord] /\ stop' \in BOOLEAN /\ SessionsRouted'
    BY <1>1, GotoTyped, GotoRouted DEF Handling, InSession
  <1>3. cache' \in [Coordinators -> SUBSET Uuids]
    BY <1>1
  <1>4. metrics' \in [epoch : EpochIDs, count : Nat, on : BOOLEAN]
    BY <1>1
  <1>5. TypeOK'
    BY <1>2, <1>3, <1>4 DEF RoutingInv, TypeOK, storeVars, shardVars
  <1> QED BY <1>2, <1>5 DEF RoutingInv

-----------------------------------------------------------------------------
(***************************************************************************)
(* Epochs, configurations, crashes                                         *)
(***************************************************************************)

\* Clients and sessions are left alone.
LEMMA EpochStepsInv ==
  ASSUME RoutingInv, EpochSteps
  PROVE  RoutingInv'
  <1>1. UNCHANGED <<client, record>>
    BY DEF EpochSteps, StoreStarts, StartFails, CountStarts, CountEnds, StoreCompletes,
           ShardStarts, ShardAborts, ShardCloses, storeVars
  <1>2. SessionsRouted'
    BY <1>1 DEF RoutingInv, SessionsRouted
  <1>3. CASE StoreStarts
    <2>1. epoch' \in [id : EpochIDs, state : {"NoActive", "Active", "Completed"}]
      BY <1>3 DEF StoreStarts, RoutingInv, TypeOK, EpochIDs
    <2> QED BY <1>2, <1>3, <2>1 DEF StoreStarts, RoutingInv, TypeOK
  <1>4. CASE CountStarts
    BY <1>2, <1>4 DEF CountStarts, RoutingInv, TypeOK, storeVars, shardVars
  <1>5. CASE CountEnds
    BY <1>2, <1>5 DEF CountEnds, RoutingInv, TypeOK, storeVars, shardVars
  <1>6. CASE StoreCompletes
    BY <1>2, <1>6 DEF StoreCompletes, RoutingInv, TypeOK, shardVars
  <1>7. ASSUME NEW s \in Shards, ShardStarts(s) PROVE RoutingInv'
    BY <1>2, <1>7 DEF ShardStarts, RoutingInv, TypeOK, EpochIDs, storeVars
  <1>8. ASSUME NEW s \in Shards, ShardAborts(s) PROVE RoutingInv'
    <2>1. shard' \in [Shards -> [id : EpochIDs,
                                 state : {"Standby", "NoActive", "Active", "Closing", "Completed"}]]
      BY <1>8 DEF ShardAborts, RoutingInv, TypeOK, EpochIDs
    <2>2. used' \in Used
      BY <1>8, FaultTyped DEF ShardAborts
    <2> QED BY <1>2, <1>8, <2>1, <2>2 DEF ShardAborts, RoutingInv, TypeOK, storeVars
  <1>9. ASSUME NEW s \in Shards, ShardCloses(s) PROVE RoutingInv'
    BY <1>2, <1>9 DEF ShardCloses, RoutingInv, TypeOK, storeVars
  <1>10. CASE StartFails
    <2>1. used' \in Used
      BY <1>10, FaultTyped DEF StartFails
    <2> QED BY <1>2, <1>10, <2>1 DEF StartFails, RoutingInv, TypeOK, storeVars
  <1> QED BY <1>3, <1>4, <1>5, <1>6, <1>7, <1>8, <1>9, <1>10 DEF EpochSteps

\* Rescale keeps the invariant.
LEMMA RescaleInv ==
  ASSUME RoutingInv, NEW n \in Shards, Rescale(n)
  PROVE  RoutingInv'
  <1>1. SessionsRouted'
    BY DEF Rescale, RoutingInv, SessionsRouted
  <1>2. clients' \in [Coordinators -> SUBSET Shards]
    BY DEF Rescale, RoutingInv, TypeOK, Shards
  <1> QED BY <1>1, <1>2 DEF Rescale, RoutingInv, TypeOK, shardVars

\* ShardReplaced keeps the invariant.
LEMMA ShardReplacedInv ==
  ASSUME RoutingInv, NEW s \in Shards, NEW state \in {"Standby", "NoActive"},
         ShardReplaced(s, state)
  PROVE  RoutingInv'
  <1>1. SessionsRouted'
    BY DEF ShardReplaced, RoutingInv, SessionsRouted, storeVars
  <1>2. /\ used' \in Used
        /\ open' \in [Shards -> SUBSET Uuids]
    BY DEF ShardReplaced, RoutingInv, TypeOK, Unspent, Used
  <1>3. shard' \in [Shards -> [id : EpochIDs,
                               state : {"Standby", "NoActive", "Active", "Closing", "Completed"}]]
    BY DEF ShardReplaced, RoutingInv, TypeOK, EpochIDs
  <1> QED BY <1>1, <1>2, <1>3 DEF ShardReplaced, RoutingInv, TypeOK, storeVars

\* What a crash makes of a client it served.
Broken(k) == [client[k] EXCEPT !.at = "failed", !.error = "other"]

\* What a crash of a coordinator does to the clients that were calling it.
LEMMA CrashClients ==
  ASSUME RoutingInv, NEW c \in Coordinators, Crash(c)
  PROVE  /\ client' \in [Clients -> ClientRecord]
         /\ \A k \in Clients :
              \/ client'[k] = client[k]
              \/ client'[k].at = "failed" /\ client'[k].request = client[k].request
  <1>1. client \in [Clients -> ClientRecord]
    BY DEF RoutingInv, TypeOK
  <1>2. /\ client' = [k \in Clients |-> client'[k]]
        /\ \A k \in Clients : client'[k] \in {client[k], Broken(k)}
    BY DEF Crash, Broken
  <1>3. \A k \in Clients : /\ Broken(k) \in ClientRecord
                           /\ Broken(k).at = "failed" /\ Broken(k).request = client[k].request
    <2> SUFFICES ASSUME NEW r \in ClientRecord
                 PROVE  LET b == [r EXCEPT !.at = "failed", !.error = "other"]
                        IN  b \in ClientRecord /\ b.at = "failed" /\ b.request = r.request
      BY <1>1, Zenon DEF Broken
    <2> QED BY DEF ClientRecord, Errors
  <1> QED BY <1>1, <1>2, <1>3

\* Crash keeps the invariant.
LEMMA CrashInv ==
  ASSUME RoutingInv, NEW c \in Coordinators, Crash(c)
  PROVE  RoutingInv'
  <1>1. client' \in [Clients -> ClientRecord]
    BY CrashClients
  <1>2. UNCHANGED record
    BY DEF Crash, storeVars
  <1>3. SessionsRouted'
    BY <1>2, CrashClients DEF RoutingInv, SessionsRouted, Handling, InSession
  <1>4. /\ used' \in Used
        /\ cache' \in [Coordinators -> SUBSET Uuids]
        /\ clients' \in [Coordinators -> SUBSET Shards]
    <2>1. /\ Unspent /\ used' = [used EXCEPT !.crashes = @ + 1]
          /\ cache' = [cache EXCEPT ![c] = {}]
          /\ clients' = [clients EXCEPT ![c] = 1 .. count]
      BY DEF Crash
    <2>2. /\ used \in Used
          /\ cache \in [Coordinators -> SUBSET Uuids]
          /\ clients \in [Coordinators -> SUBSET Shards]
          /\ 1 .. count \subseteq Shards
      BY DEF RoutingInv, TypeOK, Shards
    <2>3. used' \in Used
      BY <2>1, <2>2 DEF Unspent, Used
    <2> QED BY <2>1, <2>2, <2>3
  <1>5. metrics' \in [epoch : EpochIDs, count : Nat, on : BOOLEAN]
    BY DEF Crash, RoutingInv, TypeOK
  <1> QED BY <1>1, <1>3, <1>4, <1>5 DEF Crash, RoutingInv, TypeOK, storeVars, shardVars

\* Every step keeps the types and the sessions routed.
LEMMA RoutingStep == RoutingInv /\ [Next]_vars => RoutingInv'
  <1> SUFFICES ASSUME RoutingInv, [Next]_vars PROVE RoutingInv'
    OBVIOUS
  <1>1. CASE UNCHANGED vars
    BY <1>1 DEF vars, storeVars, shardVars, RoutingInv, TypeOK, SessionsRouted
  <1>2. CASE EpochSteps
    BY <1>2, EpochStepsInv
  <1>3. ASSUME NEW n \in Shards, Rescale(n) PROVE RoutingInv'
    BY <1>3, RescaleInv
  <1>4. ASSUME NEW c \in Coordinators, Crash(c) PROVE RoutingInv'
    BY <1>4, CrashInv
  <1>5. ASSUME NEW s \in Shards, NEW state \in {"Standby", "NoActive"}, ShardReplaced(s, state)
        PROVE  RoutingInv'
    BY <1>5, ShardReplacedInv
  <1>6. ASSUME NEW k \in Clients, NEW s \in Shards, NEW c \in Coordinators, NextRequest(k, s, c)
        PROVE  RoutingInv'
    BY <1>6, NextRequestInv
  <1>7. ASSUME NEW k \in Clients, ClientStops(k) PROVE RoutingInv'
    BY <1>7, ClientStopsInv
  <1>8. ASSUME NEW k \in Clients, Upload1(k) PROVE RoutingInv'
    BY <1>8, Upload1ReadsEpochInv, Upload1ReadsConfigInv, Upload1PutsSessionInv,
       Upload1AtShardInv, Upload1DeletesSessionInv, Upload1AnswersInv DEF Upload1
  <1>9. ASSUME NEW k \in Clients, Upload2(k) PROVE RoutingInv'
    BY <1>9, FindsSessionInv, RequiresSessionEpochInv, Upload2AtShardInv DEF Upload2, InSession
  <1>10. ASSUME NEW k \in Clients, Upload3(k) PROVE RoutingInv'
    BY <1>10, FindsSessionInv, RequiresSessionEpochInv, Upload3AtShardInv,
       Upload3DeletesSessionInv, RecordUpload3SuccessInv DEF Upload3, InSession
  <1> QED BY <1>1, <1>2, <1>3, <1>4, <1>5, <1>6, <1>7, <1>8, <1>9, <1>10 DEF Next

\* The variables of UploadRouting have their types in every reachable state;
\* with them, a handler past PutSession works for a uuid whose shard is known.
THEOREM RoutingTypeCorrect == Spec => []TypeOK
  <1>1. Spec => []RoutingInv
    BY RoutingInit, RoutingStep, PTL DEF Spec
  <1>2. RoutingInv => TypeOK
    BY DEF RoutingInv
  <1> QED BY <1>1, <1>2, PTL

-----------------------------------------------------------------------------
(***************************************************************************)
(* No request is accepted twice                                            *)
(***************************************************************************)

\* Places of a client whose request no longer reaches a shard.
Over == {"u3_delete", "u3_record", "idle", "done", "failed"}

\* AcceptedOnce is not inductive: a shard that has an upload must know that
\* its client will not begin the same request anew.
OnceInv ==
  /\ AcceptedOnce
  /\ \A a \in accepted :
       /\ a.request <= client[a.client].request
       /\ a.request = client[a.client].request => client[a.client].at \in Over

\* A step takes a client to a later request, or keeps a finished one finished.
Progress(k) ==
  \/ client'[k].request > client[k].request
  \/ /\ client'[k].request = client[k].request
     /\ client[k].at \in Over => client'[k].at \in Over

\* Steps that accept nothing and let clients progress keep the invariant.
LEMMA OnceKept ==
  ASSUME RoutingInv, RoutingInv', OnceInv, UNCHANGED accepted, \A k \in Clients : Progress(k)
  PROVE  OnceInv'
  <1>1. \A k \in Clients : client[k].request \in Nat /\ client'[k].request \in Nat
    BY DEF RoutingInv, TypeOK, ClientRecord
  <1>2. \A a \in accepted : a.client \in Clients /\ a.request \in Nat
    BY DEF RoutingInv, TypeOK, AcceptedRecord
  <1>3. AcceptedOnce'
    BY DEF OnceInv, AcceptedOnce
  <1> QED BY <1>1, <1>2, <1>3 DEF OnceInv, Progress

\* A call that fails before its upload was accepted.
LEMMA FailsProgress ==
  ASSUME RoutingInv, NEW k \in Clients, NEW error \in Errors, Fails(k, error),
         client[k].at \in Handling, client[k].at \notin Over
  PROVE  \A j \in Clients : Progress(j)
  BY FailsTyped DEF Progress

\* A call that fails after its upload was accepted must not be retryable.
LEMMA FailsForGood ==
  ASSUME RoutingInv, NEW k \in Clients, Fails(k, "other")
  PROVE  client'[k].at = "failed" /\ client'[k].request = client[k].request
         /\ \A j \in Clients : j # k => client'[j] = client[j]
  <1>1. client' = [client EXCEPT ![k].at = "failed", ![k].error = "other"]
    BY DEF Fails, Retryable
  <1> QED BY <1>1 DEF RoutingInv, TypeOK, ClientRecord

\* Moving between steps of a call that answer nothing leaves OnceInv alone.
LEMMA GotoProgress ==
  ASSUME RoutingInv, NEW k \in Clients,
         NEW place \in Handling \cup {"idle", "done", "failed"}, Goto(k, place),
         client[k].at \in Over => place \in Over
  PROVE  \A j \in Clients : Progress(j)
  <1>1. client[k] \in ClientRecord
    BY DEF RoutingInv, TypeOK
  <1>2. /\ client'[k] = [client[k] EXCEPT !.at = place]
        /\ \A j \in Clients : j # k => client'[j] = client[j]
    BY GotoTyped
  <1>3. client'[k].at = place /\ client'[k].request = client[k].request
    BY <1>1, <1>2 DEF ClientRecord
  <1> QED BY <1>2, <1>3 DEF Progress

\* The steps of Upload1 and Upload2.
LEMMA EarlyStepsProgress ==
  ASSUME RoutingInv, NEW k \in Clients, Upload1(k) \/ Upload2(k)
  PROVE  (\A j \in Clients : Progress(j)) /\ UNCHANGED accepted
  <1>1. client \in [Clients -> ClientRecord] /\ epoch.id \in EpochIDs
    BY DEF RoutingInv, TypeOK
  <1>2. client[k].at \in Handling /\ client[k].at \notin Over /\ UNCHANGED accepted
    BY DEF Upload1, Upload1ReadsEpoch, Upload1ReadsConfig, Upload1PutsSession, Upload1AtShard,
           Upload1DeletesSession, Upload1Answers, Upload2, FindsSession, RequiresSessionEpoch,
           Upload2AtShard, At, Handling, Over
  <1>3. \/ \E error \in Errors : Fails(k, error)
        \/ \E place \in Handling : Goto(k, place)
        \/ \E id \in 1 .. epoch.id :
             client' = [client EXCEPT ![k].at = "u1_config", ![k].epoch = id]
        \/ client' = [client EXCEPT ![k].at = "u1_shard", ![k].uuid = uuids']
        \/ \E error \in Errors : client' = [client EXCEPT ![k].at = "u1_delete", ![k].error = error]
        \/ \E c \in Coordinators, place \in Handling :
             client' = [client EXCEPT ![k].at = place, ![k].via = c]
    <2>1. /\ "no_epoch" \in Errors /\ "other" \in Errors /\ "bogus" \in Errors
          /\ \A s : Refusal(s, "lost") \in Errors /\ Refusal(s, "no_epoch") \in Errors
          /\ client[k].error \in Errors
      BY <1>1 DEF Refusal, Errors, ClientRecord
    <2>2. /\ "u1_put" \in Handling /\ "u1_cache" \in Handling /\ "u2_epoch" \in Handling
          /\ "u2_shard" \in Handling /\ "u2_session" \in Handling /\ "u3_session" \in Handling
      BY DEF Handling
    <2>3. CASE Upload1ReadsEpoch(k)
      BY <2>1, <2>3, Zenon DEF Upload1ReadsEpoch
    <2>4. CASE Upload1ReadsConfig(k)
      BY <2>1, <2>2, <2>4, Zenon DEF Upload1ReadsConfig
    <2>5. CASE Upload1PutsSession(k)
      BY <2>1, <2>5, Zenon DEF Upload1PutsSession
    <2>6. CASE Upload1AtShard(k)
      BY <2>1, <2>2, <2>6, Zenon DEF Upload1AtShard
    <2>7. CASE Upload1DeletesSession(k)
      BY <2>1, <2>7, Zenon DEF Upload1DeletesSession
    <2>8. CASE Upload1Answers(k)
      BY <2>2, <2>8, Zenon DEF Upload1Answers
    <2>9. CASE FindsSession(k, "u2_session", "u2_epoch")
      BY <2>1, <2>2, <2>9, Zenon DEF FindsSession
    <2>10. CASE RequiresSessionEpoch(k, "u2_epoch", "u2_shard")
      BY <2>1, <2>2, <2>10, Zenon DEF RequiresSessionEpoch
    <2>11. CASE Upload2AtShard(k)
      BY <2>1, <2>2, <2>11, Zenon DEF Upload2AtShard
    <2> QED BY <2>3, <2>4, <2>5, <2>6, <2>7, <2>8, <2>9, <2>10, <2>11 DEF Upload1, Upload2
  <1>4. ASSUME NEW error \in Errors, Fails(k, error) PROVE \A j \in Clients : Progress(j)
    BY <1>2, <1>4, FailsProgress
  <1>5. ASSUME NEW place \in Handling, Goto(k, place) PROVE \A j \in Clients : Progress(j)
    BY <1>2, <1>5, GotoProgress
  <1>6. ASSUME NEW id, client' = [client EXCEPT ![k].at = "u1_config", ![k].epoch = id]
        PROVE  \A j \in Clients : Progress(j)
    BY <1>1, <1>2, <1>6 DEF Progress, ClientRecord
  <1>7. ASSUME client' = [client EXCEPT ![k].at = "u1_shard", ![k].uuid = uuids']
        PROVE  \A j \in Clients : Progress(j)
    BY <1>1, <1>2, <1>7 DEF Progress, ClientRecord
  <1>8. ASSUME NEW error, client' = [client EXCEPT ![k].at = "u1_delete", ![k].error = error]
        PROVE  \A j \in Clients : Progress(j)
    BY <1>1, <1>2, <1>8 DEF Progress, ClientRecord
  <1>9. ASSUME NEW c, NEW place, client' = [client EXCEPT ![k].at = place, ![k].via = c]
        PROVE  \A j \in Clients : Progress(j)
    BY <1>1, <1>2, <1>9 DEF Progress, ClientRecord
  <1> QED BY <1>2, <1>3, <1>4, <1>5, <1>6, <1>7, <1>8, <1>9

\* The step that accepts an upload: nothing of the request was accepted
\* before, and the client does not come back with it.
LEMMA Upload3AtShardOnce ==
  ASSUME RoutingInv, RoutingInv', OnceInv, NEW k \in Clients, Upload3AtShard(k)
  PROVE  OnceInv'
  <1>1. client[k].at = "u3_shard" /\ client[k].at \in Handling /\ client[k].at \notin Over
    <2>1. At(k, "u3_shard")
      BY Zenon DEF Upload3AtShard
    <2> QED BY <2>1 DEF At, Handling, Over
  <1>2. \/ UNCHANGED accepted /\ \E error \in Errors : Fails(k, error)
        \/ /\ accepted' \in {accepted, accepted \cup {Enqueued(k)}}
           /\ Goto(k, "u3_delete") \/ Fails(k, "other")
    <2>1. Refusal(record[client[k].uuid].shard, "lost") \in Errors
      BY DEF Refusal, Errors
    <2> QED BY <2>1, Zenon DEF Upload3AtShard, Enqueued
  <1>3. ASSUME NEW error \in Errors, Fails(k, error), UNCHANGED accepted PROVE OnceInv'
    BY <1>1, <1>3, FailsProgress, OnceKept
  <1>4. CASE /\ accepted' \in {accepted, accepted \cup {Enqueued(k)}}
             /\ Goto(k, "u3_delete") \/ Fails(k, "other")
    <2>1. /\ client'[k].at \in Over /\ client'[k].request = client[k].request
          /\ \A j \in Clients : j # k => client'[j] = client[j]
      <3>1. CASE Goto(k, "u3_delete")
        <4>1. client[k] \in ClientRecord
          BY DEF RoutingInv, TypeOK
        <4>2. /\ client'[k] = [client[k] EXCEPT !.at = "u3_delete"]
              /\ \A j \in Clients : j # k => client'[j] = client[j]
          BY <3>1, GotoTyped DEF Handling
        <4> QED BY <4>1, <4>2 DEF ClientRecord, Over
      <3>2. CASE Fails(k, "other")
        BY <3>2, FailsForGood DEF Over
      <3> QED BY <1>4, <3>1, <3>2
    <2>2. \A j \in Clients : client[j].request \in Nat
      BY DEF RoutingInv, TypeOK, ClientRecord
    <2>3. \A a \in accepted : a.client \in Clients /\ a.request \in Nat
      BY DEF RoutingInv, TypeOK, AcceptedRecord
    <2>4. Enqueued(k).client = k /\ Enqueued(k).request = client[k].request
      BY DEF Enqueued
    <2>5. \A a \in accepted : a.client = k => a.request # client[k].request
      BY <1>1 DEF OnceInv
    <2>6. AcceptedOnce'
      <3>1. AcceptedOnce
        BY DEF OnceInv
      <3>2. ASSUME NEW a \in accepted', NEW b \in accepted',
                   a.client = b.client, a.request = b.request
            PROVE  a = b
        <4>1. CASE a \in accepted /\ b \in accepted
          BY <3>1, <3>2, <4>1 DEF AcceptedOnce
        <4>2. CASE a = Enqueued(k) /\ b = Enqueued(k)
          BY <4>2
        <4>3. CASE a \in accepted /\ b = Enqueued(k)
          BY <2>4, <2>5, <3>2, <4>3
        <4>4. CASE a = Enqueued(k) /\ b \in accepted
          BY <2>4, <2>5, <3>2, <4>4
        <4> QED BY <1>4, <4>1, <4>2, <4>3, <4>4
      <3> QED BY <3>2, Zenon DEF AcceptedOnce
    <2>7. ASSUME NEW a \in accepted'
          PROVE  /\ a.request <= client'[a.client].request
                 /\ a.request = client'[a.client].request => client'[a.client].at \in Over
      <3>1. CASE a = Enqueued(k)
        BY <2>1, <2>2, <2>4, <3>1
      <3>2. CASE a \in accepted
        BY <2>1, <2>2, <2>3, <2>5, <3>2 DEF OnceInv
      <3> QED BY <1>4, <3>1, <3>2
    <2> QED BY <2>6, <2>7 DEF OnceInv
  <1> QED BY <1>2, <1>3, <1>4

\* The other steps of Upload3.
LEMMA LateStepsProgress ==
  ASSUME RoutingInv, NEW k \in Clients, Upload3(k), ~Upload3AtShard(k)
  PROVE  (\A j \in Clients : Progress(j)) /\ UNCHANGED accepted
  <1>1. CASE FindsSession(k, "u3_session", "u3_epoch")
    <2>1. client[k].at \in Handling /\ client[k].at \notin Over
      BY <1>1 DEF FindsSession, At, Handling, Over
    <2>2. (Fails(k, "bogus") \/ Goto(k, "u3_epoch")) /\ UNCHANGED accepted
      BY <1>1, Zenon DEF FindsSession
    <2> QED BY <2>1, <2>2, FailsProgress, GotoProgress DEF Errors, Handling
  <1>2. CASE RequiresSessionEpoch(k, "u3_epoch", "u3_shard")
    <2>1. client[k].at \in Handling /\ client[k].at \notin Over
      BY <1>2 DEF RequiresSessionEpoch, At, Handling, Over
    <2>2. /\ Fails(k, "no_epoch") \/ Fails(k, "other") \/ Goto(k, "u3_shard")
          /\ UNCHANGED accepted
      BY <1>2, Zenon DEF RequiresSessionEpoch
    <2> QED BY <2>1, <2>2, FailsProgress, GotoProgress DEF Errors, Handling
  <1>3. CASE Upload3DeletesSession(k)
    <2>1. (Fails(k, "other") \/ Goto(k, "u3_record")) /\ UNCHANGED accepted
      BY <1>3, Zenon DEF Upload3DeletesSession
    <2>2. CASE Fails(k, "other")
      BY <2>1, <2>2, FailsForGood DEF Progress, Over
    <2>3. CASE Goto(k, "u3_record")
      BY <2>1, <2>3, GotoProgress DEF Over, Handling
    <2> QED BY <2>1, <2>2, <2>3
  <1>4. CASE RecordUpload3Success(k)
    BY <1>4, GotoProgress DEF RecordUpload3Success, Over
  <1> QED BY <1>1, <1>2, <1>3, <1>4 DEF Upload3

\* No step accepts a request a second time.
LEMMA OnceStep == RoutingInv /\ OnceInv /\ [Next]_vars => OnceInv'
  <1> SUFFICES ASSUME RoutingInv, OnceInv, [Next]_vars PROVE OnceInv'
    OBVIOUS
  <1>0. RoutingInv'
    BY RoutingStep
  <1>1. CASE UNCHANGED <<client, accepted>>
    BY <1>1 DEF OnceInv, AcceptedOnce
  <1>2. CASE EpochSteps
    BY <1>1, <1>2 DEF EpochSteps, StoreStarts, StartFails, CountStarts, CountEnds,
                      StoreCompletes, ShardStarts, ShardAborts, ShardCloses
  <1>3. ASSUME NEW n \in Shards, Rescale(n) PROVE OnceInv'
    BY <1>1, <1>3 DEF Rescale
  <1>4. ASSUME NEW c \in Coordinators, Crash(c) PROVE OnceInv'
    <2>1. UNCHANGED accepted
      BY <1>4 DEF Crash
    <2>2. \A k \in Clients : Progress(k)
      BY <1>4, CrashClients DEF Progress, Over
    <2> QED BY <1>0, <2>1, <2>2, OnceKept
  <1>5. ASSUME NEW s \in Shards, NEW state \in {"Standby", "NoActive"}, ShardReplaced(s, state)
        PROVE  OnceInv'
    BY <1>1, <1>5 DEF ShardReplaced
  <1>6. ASSUME NEW k \in Clients, NEW s \in Shards, NEW c \in Coordinators, NextRequest(k, s, c)
        PROVE  OnceInv'
    <2>1. client' = [client EXCEPT ![k] = Calling(c, s, client[k].request + 1)]
          /\ UNCHANGED accepted
      BY <1>6 DEF NextRequest
    <2>2. client \in [Clients -> ClientRecord] /\ client[k].request \in Nat
      BY DEF RoutingInv, TypeOK, ClientRecord
    <2>3. \A j \in Clients : Progress(j)
      BY <2>1, <2>2 DEF Progress, Calling
    <2> QED BY <1>0, <2>1, <2>3, OnceKept
  <1>7. ASSUME NEW k \in Clients, ClientStops(k) PROVE OnceInv'
    <2>1. Goto(k, "done") /\ UNCHANGED accepted
      BY <1>7 DEF ClientStops
    <2> QED BY <1>0, <2>1, GotoProgress, OnceKept DEF Over
  <1>8. ASSUME NEW k \in Clients, Upload1(k) \/ Upload2(k) PROVE OnceInv'
    BY <1>0, <1>8, EarlyStepsProgress, OnceKept
  <1>9. ASSUME NEW k \in Clients, Upload3(k) PROVE OnceInv'
    BY <1>0, <1>9, LateStepsProgress, Upload3AtShardOnce, OnceKept
  <1>10. CASE UNCHANGED vars
    BY <1>1, <1>10 DEF vars
  <1> QED BY <1>2, <1>3, <1>4, <1>5, <1>6, <1>7, <1>8, <1>9, <1>10 DEF Next

\* For any number of clients, coordinators, shards, faults, old reads, crashes
\* and promotions, the retries of uploadWithCoordinatorRetry never bring a
\* request into the shards' queues twice.
THEOREM RequestsAcceptedOnce == Spec => []AcceptedOnce
  <1>1. Init => OnceInv
    BY DEF Init, OnceInv, AcceptedOnce
  <1>2. Spec => [](RoutingInv /\ OnceInv)
    BY <1>1, RoutingInit, RoutingStep, OnceStep, PTL DEF Spec
  <1>3. OnceInv => AcceptedOnce
    BY DEF OnceInv
  <1> QED BY <1>2, <1>3, PTL

-----------------------------------------------------------------------------
(***************************************************************************)
(* A session stays in the store until its upload is over                   *)
(***************************************************************************)

\* Places at which the session has not been deleted by its own handler.
Kept == InSession \ {"u3_record"}

\* No call failed and no read was old.
Clean == used.faults = 0 /\ ExactReads

\* The sessions of two clients are two, so no handler deletes the session of
\* another one.
SessionInv ==
  /\ \A k \in Clients : client[k].at \in InSession => client[k].uuid <= uuids
  /\ \A j, k \in Clients :
       client[j].at \in InSession /\ client[k].at \in InSession /\ j # k =>
         client[j].uuid # client[k].uuid
  /\ Clean =>
       \A k \in Clients :
         /\ client[k].error # "bogus"
         /\ client[k].at \in Kept => client[k].uuid \in stored

\* What was used of the bounds tells whether a call failed or misread.
LEMMA FaultCounts ==
  ASSUME RoutingInv
  PROVE  /\ Fault \/ Misread => ~Clean'
         /\ NoFault => (Clean' => Clean)
         /\ used' = used => (Clean' => Clean)
         /\ Fault \/ NoFault \/ Misread => (Clean' => Clean)
  <1>1. used \in Used
    BY DEF RoutingInv, TypeOK
  <1>2. Fault => ~Clean'
    BY <1>1 DEF Fault, Clean, ExactReads, Used
  <1>3. Misread => ~Clean'
    BY <1>1 DEF Misread, Clean, ExactReads, Used
  <1>4. used' = used => (Clean' => Clean)
    BY DEF Clean, ExactReads
  <1> QED BY <1>2, <1>3, <1>4 DEF NoFault

\* What a step of one client has to show.
LEMMA SessionMoves ==
  ASSUME RoutingInv, SessionInv, NEW k \in Clients, uuids' \in {uuids, uuids + 1},
         \A j \in Clients : j # k => client'[j] = client[j],
         Clean' => Clean,
         client'[k].at \in InSession =>
           /\ client'[k].uuid <= uuids'
           /\ \A j \in Clients : client[j].at \in InSession /\ j # k =>
                client[j].uuid # client'[k].uuid,
         Clean' =>
           /\ client'[k].error # "bogus"
           /\ client'[k].at \in Kept => client'[k].uuid \in stored'
           /\ \A j \in Clients : j # k /\ client[j].at \in Kept => client[j].uuid \in stored'
  PROVE  SessionInv'
  <1>1. uuids \in Nat /\ \A j \in Clients : client[j].uuid \in Nat
    BY DEF RoutingInv, TypeOK, ClientRecord
  <1>2. ASSUME NEW j \in Clients, client'[j].at \in InSession PROVE client'[j].uuid <= uuids'
    BY <1>1, <1>2 DEF SessionInv
  <1>3. ASSUME NEW i \in Clients, NEW j \in Clients, i # j,
               client'[i].at \in InSession, client'[j].at \in InSession
        PROVE  client'[i].uuid # client'[j].uuid
    BY <1>3 DEF SessionInv
  <1>4. ASSUME Clean', NEW j \in Clients
        PROVE  /\ client'[j].error # "bogus"
               /\ client'[j].at \in Kept => client'[j].uuid \in stored'
    BY <1>4 DEF SessionInv
  <1> QED BY <1>2, <1>3, <1>4 DEF SessionInv

\* A client that leaves its session, after an error or at the end.
LEMMA SessionLeaves ==
  ASSUME RoutingInv, SessionInv, NEW k \in Clients, uuids' \in {uuids, uuids + 1},
         \A j \in Clients : j # k => client'[j] = client[j],
         client'[k].at \notin InSession,
         Clean' => Clean /\ client'[k].error # "bogus",
         stored \subseteq stored' \/
           (client[k].at \in InSession /\ stored \ {client[k].uuid} \subseteq stored')
  PROVE  SessionInv'
  <1>1. ASSUME Clean', NEW j \in Clients, j # k, client[j].at \in Kept
        PROVE  client[j].uuid \in stored'
    BY <1>1 DEF SessionInv, Kept
  <1> QED BY <1>1, SessionMoves DEF Kept

\* A client that moves on within its session.
LEMMA SessionStays ==
  ASSUME RoutingInv, SessionInv, NEW k \in Clients, UNCHANGED <<uuids, stored>>,
         \A j \in Clients : j # k => client'[j] = client[j],
         client[k].at \in Kept, client'[k].uuid = client[k].uuid,
         Clean' => Clean /\ client'[k].error # "bogus"
  PROVE  SessionInv'
  <1>1. \A j \in Clients : client[j].at \in InSession /\ j # k => client[j].uuid # client[k].uuid
    BY DEF SessionInv, Kept
  <1>2. client[k].uuid <= uuids
    BY DEF SessionInv, Kept
  <1>3. Clean' => \A j \in Clients : client[j].at \in Kept => client[j].uuid \in stored'
    BY DEF SessionInv
  <1> QED BY <1>1, <1>2, <1>3, SessionMoves

\* What an error leaves in the client.
LEMMA FailsError ==
  ASSUME RoutingInv, NEW k \in Clients, NEW error \in Errors, Fails(k, error),
         client[k].at \in Handling
  PROVE  client'[k].error \in {"none", error}
  <1>1. client \in [Clients -> ClientRecord]
    BY DEF RoutingInv, TypeOK
  <1>2. CASE Retryable(error)
    <2>1. PICK c \in Coordinators :
            client' = [client EXCEPT ![k] = Calling(c, client[k].row, client[k].request)]
      BY <1>2, Zenon DEF Fails
    <2> QED BY <1>1, <2>1 DEF Calling
  <1>3. CASE ~Retryable(error)
    <2>1. client' = [client EXCEPT ![k].at = "failed", ![k].error = error]
      BY <1>3, Zenon DEF Fails
    <2> QED BY <1>1, <2>1 DEF ClientRecord
  <1> QED BY <1>2, <1>3

\* A failing call: its session is left, and the store has the others.
LEMMA SessionFails ==
  ASSUME RoutingInv, SessionInv, NEW k \in Clients, NEW error \in Errors, Fails(k, error),
         client[k].at \in Handling, uuids' \in {uuids, uuids + 1},
         Clean' => Clean /\ error # "bogus",
         stored \subseteq stored' \/
           (client[k].at \in InSession /\ stored \ {client[k].uuid} \subseteq stored')
  PROVE  SessionInv'
  <1>1. /\ client'[k].at \notin InSession
        /\ \A j \in Clients : j # k => client'[j] = client[j]
    BY FailsTyped DEF InSession
  <1>2. client'[k].error \in {"none", error}
    BY FailsError
  <1> QED BY <1>1, <1>2, SessionLeaves

\* What Goto keeps.
LEMMA GotoSame ==
  ASSUME RoutingInv, NEW k \in Clients,
         NEW place \in Handling \cup {"idle", "done", "failed"}, Goto(k, place)
  PROVE  /\ client'[k].at = place
         /\ client'[k].uuid = client[k].uuid /\ client'[k].error = client[k].error
         /\ client'[k].epoch = client[k].epoch /\ client'[k].row = client[k].row
         /\ client'[k].request = client[k].request /\ client'[k].via = client[k].via
         /\ \A j \in Clients : j # k => client'[j] = client[j]
  <1>1. /\ client'[k] = [client[k] EXCEPT !.at = place] /\ client[k] \in ClientRecord
        /\ \A j \in Clients : j # k => client'[j] = client[j]
    BY GotoTyped DEF RoutingInv, TypeOK
  <1> QED BY <1>1 DEF ClientRecord

\* Steps of Upload1.
LEMMA Upload1Sessions ==
  ASSUME RoutingInv, SessionInv, NEW k \in Clients, Upload1(k)
  PROVE  SessionInv'
  <1>1. /\ client \in [Clients -> ClientRecord] /\ client[k] \in ClientRecord
        /\ client[k].error \in Errors /\ uuids \in Nat
        /\ used \in Used
    BY DEF RoutingInv, TypeOK, ClientRecord
  <1>2. /\ "no_epoch" \in Errors /\ "other" \in Errors
        /\ "no_epoch" # "bogus" /\ "other" # "bogus"
        /\ \A s : Refusal(s, "no_epoch") # "bogus"
    BY DEF Errors, Refusal
  <1>3. Fault \/ NoFault \/ Misread \/ used' = used => (Clean' => Clean)
    BY FaultCounts
  <1>4. CASE Upload1ReadsEpoch(k)
    <2>1. /\ client[k].at = "u1_epoch" /\ client[k].at \in Handling
          /\ uuids' = uuids /\ stored' = stored /\ (Fault \/ NoFault \/ Misread)
      BY <1>4 DEF Upload1ReadsEpoch, Read, At, Handling, storeVars
    <2>2. \/ Fails(k, "no_epoch")
          \/ \E id : client' = [client EXCEPT ![k].at = "u1_config", ![k].epoch = id]
      BY <1>4, Zenon DEF Upload1ReadsEpoch
    <2>3. CASE Fails(k, "no_epoch")
      BY <1>2, <1>3, <2>1, <2>3, SessionFails
    <2>4. ASSUME NEW id, client' = [client EXCEPT ![k].at = "u1_config", ![k].epoch = id]
          PROVE  SessionInv'
      <3>1. /\ client'[k].at = "u1_config" /\ client'[k].error = client[k].error
            /\ \A j \in Clients : j # k => client'[j] = client[j]
        BY <1>1, <2>4 DEF ClientRecord
      <3>2. client'[k].at \notin InSession
        BY <3>1 DEF InSession
      <3>3. Clean => client'[k].error # "bogus"
        BY <3>1 DEF SessionInv
      <3> QED BY <1>3, <2>1, <3>1, <3>2, <3>3, SessionLeaves
    <2> QED BY <2>2, <2>3, <2>4
  <1>5. CASE Upload1ReadsConfig(k)
    <2>1. /\ client[k].at = "u1_config" /\ client[k].at \in Handling
          /\ uuids' = uuids /\ stored' = stored /\ (Fault \/ NoFault \/ Misread)
      BY <1>5 DEF Upload1ReadsConfig, Read, At, Handling, storeVars
    <2>2. Fails(k, "other") \/ Goto(k, "u1_put")
      BY <1>5, Zenon DEF Upload1ReadsConfig
    <2>3. CASE Fails(k, "other")
      BY <1>2, <1>3, <2>1, <2>3, SessionFails
    <2>4. CASE Goto(k, "u1_put")
      <3>1. /\ client'[k].at = "u1_put" /\ client'[k].error = client[k].error
            /\ \A j \in Clients : j # k => client'[j] = client[j]
        BY <2>4, GotoSame DEF Handling
      <3>2. client'[k].at \notin InSession
        BY <3>1 DEF InSession
      <3>3. Clean => client'[k].error # "bogus"
        BY <3>1 DEF SessionInv
      <3> QED BY <1>3, <2>1, <3>1, <3>2, <3>3, SessionLeaves
    <2> QED BY <2>2, <2>3, <2>4
  <1>6. CASE Upload1PutsSession(k)
    <2>1. /\ client[k].at = "u1_put" /\ client[k].at \in Handling
          /\ uuids' = uuids + 1 /\ stored \subseteq stored' /\ (Fault \/ NoFault)
      BY <1>6 DEF Upload1PutsSession, At, Handling
    <2>2. \/ Fails(k, "other")
          \/ /\ client' = [client EXCEPT ![k].at = "u1_shard", ![k].uuid = uuids']
             /\ uuids' \in stored'
      BY <1>6 DEF Upload1PutsSession
    <2>3. CASE Fails(k, "other")
      BY <1>2, <1>3, <2>1, <2>3, SessionFails
    <2>4. CASE /\ client' = [client EXCEPT ![k].at = "u1_shard", ![k].uuid = uuids']
               /\ uuids' \in stored'
      <3>1. /\ client'[k].uuid = uuids + 1 /\ client'[k].error = client[k].error
            /\ \A j \in Clients : j # k => client'[j] = client[j]
        BY <1>1, <2>1, <2>4 DEF ClientRecord
      <3>2. \A j \in Clients : client[j].at \in InSession => client[j].uuid # uuids + 1
        <4>1. \A j \in Clients : client[j].uuid \in Nat
          BY <1>1 DEF ClientRecord
        <4> QED BY <1>1, <4>1 DEF SessionInv
      <3>3. Clean =>
              /\ client'[k].error # "bogus"
              /\ \A j \in Clients : client[j].at \in Kept => client[j].uuid \in stored'
        BY <2>1, <3>1 DEF SessionInv
      <3> QED BY <1>1, <1>3, <2>1, <2>4, <3>1, <3>2, <3>3, SessionMoves
    <2> QED BY <2>2, <2>3, <2>4
  <1>7. CASE Upload1AtShard(k)
    <2>1. /\ client[k].at = "u1_shard" /\ client[k].at \in Kept
          /\ uuids' = uuids /\ stored' = stored /\ (Fault \/ NoFault)
      BY <1>7 DEF Upload1AtShard, At, Kept, InSession, storeVars
    <2>2. \/ Goto(k, "u1_cache")
          \/ \E error : /\ error # "bogus"
                        /\ client' = [client EXCEPT ![k].at = "u1_delete", ![k].error = error]
      BY <1>2, <1>7, Zenon DEF Upload1AtShard
    <2>3. /\ client'[k].uuid = client[k].uuid
          /\ client'[k].error # "bogus" \/ client'[k].error = client[k].error
          /\ \A j \in Clients : j # k => client'[j] = client[j]
      <3>1. CASE Goto(k, "u1_cache")
        BY <3>1, GotoSame DEF Handling
      <3>2. ASSUME NEW error, error # "bogus",
                   client' = [client EXCEPT ![k].at = "u1_delete", ![k].error = error]
            PROVE  /\ client'[k].uuid = client[k].uuid /\ client'[k].error = error
                   /\ \A j \in Clients : j # k => client'[j] = client[j]
        BY <1>1, <3>2 DEF ClientRecord
      <3> QED BY <2>2, <3>1, <3>2
    <2>4. Clean => client'[k].error # "bogus"
      BY <2>3 DEF SessionInv
    <2> QED BY <1>3, <2>1, <2>3, <2>4, SessionStays
  <1>8. CASE Upload1DeletesSession(k)
    <2>1. /\ client[k].at \in Handling /\ client[k].at \in InSession
          /\ uuids' = uuids /\ stored \ {client[k].uuid} \subseteq stored'
          /\ Fault \/ NoFault
      BY <1>8 DEF Upload1DeletesSession, At, Handling, InSession
    <2>2. Fails(k, client[k].error)
      BY <1>8, Zenon DEF Upload1DeletesSession
    <2>3. Clean => client[k].error # "bogus"
      BY DEF SessionInv
    <2> QED BY <1>1, <1>3, <2>1, <2>2, <2>3, SessionFails
  <1>9. CASE Upload1Answers(k)
    <2>1. /\ client[k].at \in Kept /\ uuids' = uuids /\ stored' = stored /\ used' = used
          /\ \E c \in Coordinators :
               client' = [client EXCEPT ![k].at = "u2_session", ![k].via = c]
      BY <1>9 DEF Upload1Answers, At, Kept, InSession, storeVars
    <2>2. /\ client'[k].uuid = client[k].uuid /\ client'[k].error = client[k].error
          /\ \A j \in Clients : j # k => client'[j] = client[j]
      BY <1>1, <2>1 DEF ClientRecord
    <2>3. Clean => client'[k].error # "bogus"
      BY <2>2 DEF SessionInv
    <2> QED BY <1>3, <2>1, <2>2, <2>3, SessionStays
  <1> QED BY <1>4, <1>5, <1>6, <1>7, <1>8, <1>9 DEF Upload1

\* The session is looked up: it is in the store.
LEMMA FindsSessionSessions ==
  ASSUME RoutingInv, SessionInv, NEW k \in Clients, NEW from \in Kept, NEW to \in Handling,
         FindsSession(k, from, to)
  PROVE  SessionInv'
  <1>1. /\ client[k].at \in Kept /\ client[k].at \in Handling /\ client[k].at \in InSession
        /\ uuids' = uuids /\ stored' = stored /\ (Fault \/ NoFault \/ Misread)
    BY DEF FindsSession, At, Kept, InSession, Handling, storeVars
  <1>2. /\ Clean' => Clean
        /\ Fault \/ Misread => ~Clean'
    BY <1>1, FaultCounts
  <1>3. \/ Goto(k, to)
        \/ Fails(k, "bogus") /\ (client[k].uuid \notin stored \/ Fault \/ Misread)
    BY DEF FindsSession
  <1>4. CASE Goto(k, to)
    <2>1. /\ client'[k].uuid = client[k].uuid /\ client'[k].error = client[k].error
          /\ \A j \in Clients : j # k => client'[j] = client[j]
      BY <1>4, GotoSame
    <2>2. Clean => client'[k].error # "bogus"
      BY <2>1 DEF SessionInv
    <2> QED BY <1>1, <1>2, <2>1, <2>2, SessionStays
  <1>5. CASE Fails(k, "bogus") /\ (client[k].uuid \notin stored \/ Fault \/ Misread)
    <2>1. ~Clean'
      BY <1>1, <1>2, <1>5 DEF SessionInv
    <2> QED BY <1>1, <1>5, <2>1, SessionFails DEF Errors
  <1> QED BY <1>3, <1>4, <1>5

\* The epoch of the session is compared.
LEMMA RequiresSessionEpochSessions ==
  ASSUME RoutingInv, SessionInv, NEW k \in Clients, NEW from \in Kept, NEW to \in Handling,
         RequiresSessionEpoch(k, from, to)
  PROVE  SessionInv'
  <1>1. /\ client[k].at \in Kept /\ client[k].at \in Handling /\ client[k].at \in InSession
        /\ uuids' = uuids /\ stored' = stored /\ (Fault \/ NoFault \/ Misread)
    BY DEF RequiresSessionEpoch, Read, At, Kept, InSession, Handling, storeVars
  <1>2. Clean' => Clean
    BY <1>1, FaultCounts
  <1>3. Goto(k, to) \/ Fails(k, "no_epoch") \/ Fails(k, "other")
    BY Zenon DEF RequiresSessionEpoch
  <1>4. CASE Goto(k, to)
    <2>1. /\ client'[k].uuid = client[k].uuid /\ client'[k].error = client[k].error
          /\ \A j \in Clients : j # k => client'[j] = client[j]
      BY <1>4, GotoSame
    <2>2. Clean => client'[k].error # "bogus"
      BY <2>1 DEF SessionInv
    <2> QED BY <1>1, <1>2, <2>1, <2>2, SessionStays
  <1>5. CASE Fails(k, "no_epoch") \/ Fails(k, "other")
    BY <1>1, <1>2, <1>5, SessionFails DEF Errors
  <1> QED BY <1>3, <1>4, <1>5

\* The calls of the shard, the deletion and the count.
LEMMA LateSessions ==
  ASSUME RoutingInv, SessionInv, NEW k \in Clients,
         Upload2AtShard(k) \/ Upload3AtShard(k) \/ Upload3DeletesSession(k)
           \/ RecordUpload3Success(k)
  PROVE  SessionInv'
  <1>1. client \in [Clients -> ClientRecord] /\ client[k] \in ClientRecord
    BY DEF RoutingInv, TypeOK
  <1>2. /\ "other" \in Errors /\ "other" # "bogus"
        /\ \A s : Refusal(s, "lost") # "bogus" /\ Refusal(s, "lost") \in Errors
    BY DEF Errors, Refusal
  <1>3. Fault \/ NoFault \/ Misread \/ used' = used => (Clean' => Clean)
    BY FaultCounts
  <1>4. ASSUME NEW error \in Errors, error # "bogus", Fails(k, error), uuids' = uuids,
               Fault \/ NoFault, client[k].at \in InSession,
               stored \ {client[k].uuid} \subseteq stored'
        PROVE  SessionInv'
    <2>1. client[k].at \in Handling
      BY <1>4 DEF InSession, Handling
    <2> QED BY <1>3, <1>4, <2>1, SessionFails
  <1>5. CASE Upload2AtShard(k)
    <2>1. /\ client[k].at \in Kept /\ client[k].at \in InSession
          /\ uuids' = uuids /\ stored' = stored /\ (Fault \/ NoFault)
      BY <1>5 DEF Upload2AtShard, At, Kept, InSession, storeVars
    <2>2. \/ \E error \in Errors : error # "bogus" /\ Fails(k, error)
          \/ \E c \in Coordinators : client' = [client EXCEPT ![k].at = "u3_session", ![k].via = c]
      BY <1>2, <1>5, Zenon DEF Upload2AtShard
    <2>3. ASSUME NEW c \in Coordinators,
                 client' = [client EXCEPT ![k].at = "u3_session", ![k].via = c]
          PROVE  SessionInv'
      <3>1. /\ client'[k].uuid = client[k].uuid /\ client'[k].error = client[k].error
            /\ \A j \in Clients : j # k => client'[j] = client[j]
        BY <1>1, <2>3 DEF ClientRecord
      <3>2. Clean => client'[k].error # "bogus"
        BY <3>1 DEF SessionInv
      <3> QED BY <1>3, <2>1, <3>1, <3>2, SessionStays
    <2> QED BY <1>4, <2>1, <2>2, <2>3
  <1>6. CASE Upload3AtShard(k)
    <2>1. /\ client[k].at \in Kept /\ client[k].at \in InSession
          /\ uuids' = uuids /\ stored' = stored /\ (Fault \/ NoFault)
      BY <1>6 DEF Upload3AtShard, At, Kept, InSession, storeVars
    <2>2. \/ \E error \in Errors : error # "bogus" /\ Fails(k, error)
          \/ Goto(k, "u3_delete")
      BY <1>2, <1>6, Zenon DEF Upload3AtShard
    <2>3. CASE Goto(k, "u3_delete")
      <3>1. /\ client'[k].uuid = client[k].uuid /\ client'[k].error = client[k].error
            /\ \A j \in Clients : j # k => client'[j] = client[j]
        BY <2>3, GotoSame DEF Handling
      <3>2. Clean => client'[k].error # "bogus"
        BY <3>1 DEF SessionInv
      <3> QED BY <1>3, <2>1, <3>1, <3>2, SessionStays
    <2> QED BY <1>4, <2>1, <2>2, <2>3
  <1>7. CASE Upload3DeletesSession(k)
    <2>1. /\ client[k].at \in InSession /\ uuids' = uuids /\ (Fault \/ NoFault)
          /\ stored \ {client[k].uuid} \subseteq stored'
      BY <1>7 DEF Upload3DeletesSession, At, InSession
    <2>2. Fails(k, "other") \/ Goto(k, "u3_record")
      BY <1>7, Zenon DEF Upload3DeletesSession
    <2>3. CASE Goto(k, "u3_record")
      <3>1. /\ client'[k].at = "u3_record"
            /\ client'[k].uuid = client[k].uuid /\ client'[k].error = client[k].error
            /\ \A j \in Clients : j # k => client'[j] = client[j]
        BY <2>3, GotoSame DEF Handling
      <3>2. /\ client'[k].at \notin Kept /\ client[k].uuid <= uuids
            /\ \A j \in Clients : client[j].at \in InSession /\ j # k =>
                 client[j].uuid # client[k].uuid
        BY <2>1, <3>1 DEF SessionInv, Kept
      <3>3. Clean =>
              /\ client'[k].error # "bogus"
              /\ \A j \in Clients : client[j].at \in Kept => client[j].uuid \in stored
        BY <3>1 DEF SessionInv
      <3>4. \A j \in Clients : client[j].at \in Kept => client[j].at \in InSession
        BY DEF Kept
      <3> QED BY <1>3, <2>1, <3>1, <3>2, <3>3, <3>4, SessionMoves
    <2> QED BY <1>2, <1>4, <2>1, <2>2, <2>3
  <1>8. CASE RecordUpload3Success(k)
    <2>1. uuids' = uuids /\ stored' = stored /\ used' = used /\ Goto(k, "idle")
      BY <1>8 DEF RecordUpload3Success, storeVars
    <2>2. /\ client'[k].at = "idle" /\ client'[k].error = client[k].error
          /\ \A j \in Clients : j # k => client'[j] = client[j]
      BY <2>1, GotoSame
    <2>3. client'[k].at \notin InSession
      BY <2>2 DEF InSession
    <2>4. Clean => client'[k].error # "bogus"
      BY <2>2 DEF SessionInv
    <2> QED BY <1>3, <2>1, <2>2, <2>3, <2>4, SessionLeaves
  <1> QED BY <1>5, <1>6, <1>7, <1>8

\* Every step keeps the sessions of uploads under way in the store.
LEMMA SessionStep == RoutingInv /\ SessionInv /\ [Next]_vars => SessionInv'
  <1> SUFFICES ASSUME RoutingInv, SessionInv, [Next]_vars PROVE SessionInv'
    OBVIOUS
  <1>0. /\ client \in [Clients -> ClientRecord]
        /\ used \in Used
        /\ used' = used => (Clean' => Clean)
    BY FaultCounts DEF RoutingInv, TypeOK
  <1>1. ASSUME UNCHANGED <<client, uuids, stored>>, Clean' => Clean
        PROVE  SessionInv'
    BY <1>1 DEF SessionInv
  <1>2. CASE EpochSteps
    <2>1. UNCHANGED <<client, uuids, stored>> /\ (Fault \/ NoFault)
      BY <1>2 DEF EpochSteps, StoreStarts, StartFails, CountStarts, CountEnds,
                  StoreCompletes, ShardStarts, ShardAborts, ShardCloses, NoFault, storeVars
    <2> QED BY <1>1, <2>1, FaultCounts
  <1>3. ASSUME NEW n \in Shards, Rescale(n) PROVE SessionInv'
    BY <1>0, <1>1, <1>3 DEF Rescale
  <1>4. ASSUME NEW c \in Coordinators, Crash(c) PROVE SessionInv'
    <2>1. /\ UNCHANGED <<uuids, stored>>
          /\ used' = [used EXCEPT !.crashes = @ + 1]
          /\ client' = [k \in Clients |->
               IF client[k].via = c /\ client[k].at \in Handling THEN Broken(k) ELSE client[k]]
      BY <1>4, Zenon DEF Crash, storeVars, Broken
    <2>2. Clean' => Clean
      BY <1>0, <2>1 DEF Used, Clean, ExactReads
    <2>3. \A k \in Clients : Broken(k).at \notin InSession /\ Broken(k).error # "bogus"
      <3> SUFFICES ASSUME NEW r \in ClientRecord
                   PROVE  LET b == [r EXCEPT !.at = "failed", !.error = "other"]
                          IN  b.at \notin InSession /\ b.error # "bogus"
        BY <1>0, Zenon DEF Broken
      <3> QED BY DEF ClientRecord, InSession
    <2>4. \A k \in Clients : \/ client'[k] = client[k]
                             \/ client'[k].at \notin InSession /\ client'[k].error # "bogus"
      BY <2>1, <2>3
    <2> QED BY <2>1, <2>2, <2>4 DEF SessionInv, Kept
  <1>5. ASSUME NEW s \in Shards, NEW state \in {"Standby", "NoActive"}, ShardReplaced(s, state)
        PROVE  SessionInv'
    <2>1. /\ UNCHANGED <<client, uuids, stored>>
          /\ used' = [used EXCEPT !.restarts = @ + 1]
      BY <1>5 DEF ShardReplaced, storeVars
    <2>2. Clean' => Clean
      BY <1>0, <2>1 DEF Used, Clean, ExactReads
    <2> QED BY <1>1, <2>1, <2>2
  <1>6. ASSUME NEW k \in Clients, NEW s \in Shards, NEW c \in Coordinators, NextRequest(k, s, c)
        PROVE  SessionInv'
    <2>1. /\ client' = [client EXCEPT ![k] = Calling(c, s, client[k].request + 1)]
          /\ uuids' = uuids /\ stored' = stored /\ used' = used
      BY <1>6 DEF NextRequest, storeVars
    <2>2. /\ client'[k].at \notin InSession /\ client'[k].error # "bogus"
          /\ \A j \in Clients : j # k => client'[j] = client[j]
      BY <1>0, <2>1 DEF Calling, InSession
    <2> QED BY <1>0, <2>1, <2>2, SessionLeaves
  <1>7. ASSUME NEW k \in Clients, ClientStops(k) PROVE SessionInv'
    <2>1. Goto(k, "done") /\ uuids' = uuids /\ stored' = stored /\ used' = used
      BY <1>7 DEF ClientStops, storeVars
    <2>2. /\ client'[k].at = "done" /\ client'[k].error = client[k].error
          /\ \A j \in Clients : j # k => client'[j] = client[j]
      BY <2>1, GotoSame
    <2>3. client'[k].at \notin InSession
      BY <2>2 DEF InSession
    <2>4. Clean => client'[k].error # "bogus"
      BY <2>2 DEF SessionInv
    <2> QED BY <1>0, <2>1, <2>2, <2>3, <2>4, SessionLeaves
  <1>8. ASSUME NEW k \in Clients, Upload1(k) PROVE SessionInv'
    BY <1>8, Upload1Sessions
  <1>9. ASSUME NEW k \in Clients, Upload2(k) PROVE SessionInv'
    BY <1>9, FindsSessionSessions, RequiresSessionEpochSessions, LateSessions
       DEF Upload2, Kept, InSession, Handling
  <1>10. ASSUME NEW k \in Clients, Upload3(k) PROVE SessionInv'
    BY <1>10, FindsSessionSessions, RequiresSessionEpochSessions, LateSessions
       DEF Upload3, Kept, InSession, Handling
  <1>11. CASE UNCHANGED vars
    BY <1>0, <1>1, <1>11 DEF vars, storeVars
  <1> QED BY <1>2, <1>3, <1>4, <1>5, <1>6, <1>7, <1>8, <1>9, <1>10, <1>11 DEF Next

\* As long as no call of the store fails and no read of it is old (GetSession
\* asks DynamoDB for no consistent read), no coordinator answers "Bogus UUID"
\* to an upload under way, whichever coordinators serve its three calls and
\* whichever of them crash in between: the session is in the store until the
\* coordinator that answers Upload3 has deleted it.
THEOREM SessionsAreKnown == Spec => []NoBogusUUID
  <1>1. Init => SessionInv
    BY DEF Init, SessionInv, InSession, Kept, Clean
  <1>2. Spec => [](RoutingInv /\ SessionInv)
    BY <1>1, RoutingInit, RoutingStep, SessionStep, PTL DEF Spec
  <1>3. SessionInv => NoBogusUUID
    BY DEF SessionInv, NoBogusUUID, Clean
  <1> QED BY <1>2, <1>3, PTL

-----------------------------------------------------------------------------
(***************************************************************************)
(* The count never exceeds the uploads that were accepted                  *)
(***************************************************************************)

\* An epoch is open, not only in the store.
Running == epoch.state = "Active" /\ ~failed

\* While an epoch is open, the shards it was started on are in it, unless
\* they were replaced and then in none.
StartedShards ==
  Running =>
    \A s \in 1 .. count : \/ shard[s].id = epoch.id
                          \/ shard[s].id = 0 /\ shard[s].state \in {"Standby", "NoActive"}

\* No handler, session or count is ahead of the store.
NoneAhead ==
  /\ metrics.on => Running /\ metrics.epoch = epoch.id
  /\ \A k \in Clients : client[k].epoch <= epoch.id
  /\ \A u \in Uuids : record[u].epoch <= epoch.id

\* In the epoch it read, a handler routes to a shard of that epoch.
RoutedInEpoch ==
  \A k \in Clients :
    /\ client[k].at \in {"u1_put", "u1_shard"} /\ Running
         /\ client[k].epoch = epoch.id => client[k].row <= count
    /\ client[k].at = "u1_shard" =>
         record[client[k].uuid] = [epoch |-> client[k].epoch, shard |-> client[k].row]

\* So a session of the open epoch is at a shard that is in that epoch.
OpenInEpoch ==
  \A s \in Shards : \A u \in open[s] :
    /\ u <= uuids
    /\ Running /\ record[u].epoch = epoch.id => shard[s].id = epoch.id

EpochInv == StartedShards /\ NoneAhead /\ RoutedInEpoch /\ OpenInEpoch

\* Places between the shard's answer to Upload3 and the count.
Uncounted == {"u3_delete", "u3_record"}

\* The upload k's handler is about to count.
Answered(k, a) ==
  /\ a.client = k /\ a.request = client[k].request
  /\ Running /\ record[client[k].uuid].epoch = epoch.id => a.epoch = epoch.id

AnsweredInv ==
  \A k \in Clients : client[k].at \in Uncounted => \E a \in accepted : Answered(k, a)

Pending(a) == a.request = client[a.client].request /\ client[a.client].at \in Uncounted

\* What the count may have counted.
Countable == {a \in accepted : a.epoch = metrics.epoch /\ ~Pending(a)}

\* NeverOvercounted is not inductive: an upload that a shard has accepted and
\* whose handler has not counted it yet is not in the count.
CountInv == IsFiniteSet(accepted) /\ metrics.count <= Cardinality(Countable)

\* What a step of one client has to show for EpochInv.
LEMMA EpochClient ==
  ASSUME RoutingInv, EpochInv, NEW k \in Clients,
         UNCHANGED <<epoch, failed, count, shard, record, uuids>>,
         metrics'.on = metrics.on, metrics'.epoch = metrics.epoch,
         \A j \in Clients : j # k => client'[j] = client[j],
         client'[k].epoch \in {0, client[k].epoch} \cup 1 .. epoch.id,
         client'[k].at # "u1_shard",
         client'[k].at = "u1_put" => client'[k].row <= count,
         \A s \in Shards : \A u \in open'[s] :
           \/ u \in open[s]
           \/ /\ u <= uuids
              /\ Running /\ record[u].epoch = epoch.id => shard[s].id = epoch.id
  PROVE  EpochInv'
  <1>1. epoch.id \in Nat /\ \A j \in Clients : client[j].epoch \in Nat
    BY DEF RoutingInv, TypeOK, ClientRecord, EpochIDs
  <1>2. Running' = Running
    BY DEF Running
  <1>3. StartedShards'
    BY <1>2 DEF EpochInv, StartedShards
  <1>4. NoneAhead'
    BY <1>1, <1>2 DEF EpochInv, NoneAhead
  <1>5. RoutedInEpoch'
    BY <1>2 DEF EpochInv, RoutedInEpoch
  <1>6. OpenInEpoch'
    BY <1>2 DEF EpochInv, OpenInEpoch
  <1> QED BY <1>3, <1>4, <1>5, <1>6 DEF EpochInv

\* A failing call.
LEMMA EpochFails ==
  ASSUME RoutingInv, EpochInv, NEW k \in Clients, NEW error \in Errors, Fails(k, error),
         client[k].at \in Handling,
         UNCHANGED <<epoch, failed, count, shard, record, uuids, metrics>>,
         \A s \in Shards : \A u \in open'[s] :
           \/ u \in open[s]
           \/ /\ u <= uuids
              /\ Running /\ record[u].epoch = epoch.id => shard[s].id = epoch.id
  PROVE  EpochInv'
  <1>1. client \in [Clients -> ClientRecord]
    BY DEF RoutingInv, TypeOK
  <1>2. /\ client'[k].at # "u1_shard" /\ client'[k].at # "u1_put"
        /\ \A j \in Clients : j # k => client'[j] = client[j]
    BY FailsTyped
  <1>3. client'[k].epoch \in {0, client[k].epoch}
    <2>1. CASE Retryable(error)
      <3>1. PICK c \in Coordinators :
              client' = [client EXCEPT ![k] = Calling(c, client[k].row, client[k].request)]
        BY <2>1, Zenon DEF Fails
      <3> QED BY <1>1, <3>1 DEF Calling
    <2>2. CASE ~Retryable(error)
      <3>1. client' = [client EXCEPT ![k].at = "failed", ![k].error = error]
        BY <2>2, Zenon DEF Fails
      <3> QED BY <1>1, <3>1 DEF ClientRecord
    <2> QED BY <2>1, <2>2
  <1> QED BY <1>2, <1>3, EpochClient

\* A handler that moves on.
LEMMA EpochGoto ==
  ASSUME RoutingInv, EpochInv, NEW k \in Clients,
         NEW place \in Handling \cup {"idle", "done", "failed"}, Goto(k, place),
         place # "u1_shard", place = "u1_put" => client[k].row <= count,
         UNCHANGED <<epoch, failed, count, shard, record, uuids>>,
         metrics'.on = metrics.on, metrics'.epoch = metrics.epoch,
         \A s \in Shards : \A u \in open'[s] :
           \/ u \in open[s]
           \/ /\ u <= uuids
              /\ Running /\ record[u].epoch = epoch.id => shard[s].id = epoch.id
  PROVE  EpochInv'
  <1>1. /\ client'[k].at = place /\ client'[k].epoch = client[k].epoch
        /\ client'[k].row = client[k].row
        /\ \A j \in Clients : j # k => client'[j] = client[j]
    BY GotoSame
  <1> QED BY <1>1, EpochClient

\* A new session: no other handler has its uuid, and it is not open yet.
LEMMA PutsSessionEpoch ==
  ASSUME RoutingInv, RoutingInv', SessionInv, EpochInv, NEW k \in Clients, Upload1PutsSession(k)
  PROVE  EpochInv'
  <1> DEFINE entry == [epoch |-> client[k].epoch, shard |-> client[k].row]
  <1>1. /\ client[k].at = "u1_put" /\ client[k].at \in Handling
        /\ uuids' = uuids + 1 /\ UNCHANGED <<epoch, failed, count, shard, open, metrics>>
        /\ record' = record \/ record' = [record EXCEPT ![uuids'] = entry]
        /\ \/ Fails(k, "other")
           \/ /\ client' = [client EXCEPT ![k].at = "u1_shard", ![k].uuid = uuids']
              /\ record' = [record EXCEPT ![uuids'] = entry]
    BY DEF Upload1PutsSession, At, Handling, shardVars
  <1>2. /\ client \in [Clients -> ClientRecord] /\ uuids \in Nat /\ uuids' \in Uuids
        /\ record \in [Uuids -> [epoch : EpochIDs, shard : 0 .. MaxShards]]
        /\ open \in [Shards -> SUBSET Uuids] /\ epoch.id \in Nat
    <2>1. uuids < MaxUuid
      BY DEF Upload1PutsSession
    <2>2. /\ client \in [Clients -> ClientRecord] /\ uuids \in 0 .. MaxUuid
          /\ record \in [Uuids -> [epoch : EpochIDs, shard : 0 .. MaxShards]]
          /\ open \in [Shards -> SUBSET Uuids] /\ epoch.id \in EpochIDs
      BY DEF RoutingInv, TypeOK
    <2> QED BY <1>1, <2>1, <2>2 DEF Uuids, EpochIDs
  <1>3. /\ \A j \in Clients : client[j].uuid \in Nat /\ client[j].epoch \in Nat
        /\ \A u \in Uuids : u \in Nat
    <2>1. \A j \in Clients : client[j].uuid \in Nat /\ client[j].epoch \in Nat
      BY <1>2 DEF ClientRecord, EpochIDs
    <2> QED BY <2>1 DEF Uuids
  <1>4. \A u \in Uuids : u # uuids' => record'[u] = record[u]
    BY <1>1, <1>2
  <1>5. /\ client'[k].epoch \in {0, client[k].epoch} /\ client'[k].row = client[k].row
        /\ client'[k].at \in {"u1_epoch", "u1_shard", "failed"}
        /\ client'[k].at = "u1_shard" => client'[k].uuid = uuids' /\ record'[uuids'] = entry
                                         /\ client'[k].epoch = client[k].epoch
        /\ \A j \in Clients : j # k => client'[j] = client[j]
    <2>1. CASE Fails(k, "other")
      <3>1. client' = [client EXCEPT ![k].at = "failed", ![k].error = "other"]
        BY <2>1 DEF Fails, Retryable
      <3> QED BY <1>2, <3>1 DEF ClientRecord
    <2>2. CASE /\ client' = [client EXCEPT ![k].at = "u1_shard", ![k].uuid = uuids']
               /\ record' = [record EXCEPT ![uuids'] = entry]
      BY <1>2, <2>2 DEF ClientRecord
    <2> QED BY <1>1, <2>1, <2>2
  <1>0. Running' = Running
    BY <1>1 DEF Running
  <1>6. StartedShards'
    BY <1>0, <1>1 DEF EpochInv, StartedShards
  <1>7. NoneAhead'
    <2>1. \A u \in Uuids : record'[u].epoch <= epoch.id
      <3>1. entry.epoch <= epoch.id
        BY DEF EpochInv, NoneAhead
      <3> HIDE DEF entry
      <3>2. \A u \in Uuids : record'[u] = record[u] \/ record'[u] = entry
        BY <1>1, <1>2
      <3> QED BY <3>1, <3>2 DEF EpochInv, NoneAhead
    <2>2. \A j \in Clients : client'[j].epoch <= epoch.id
      BY <1>2, <1>5 DEF EpochInv, NoneAhead
    <2> QED BY <1>0, <1>1, <2>1, <2>2 DEF EpochInv, NoneAhead
  <1>8. RoutedInEpoch'
    <2>1. ASSUME NEW j \in Clients, client'[j].at = "u1_shard"
          PROVE  record'[client'[j].uuid] = [epoch |-> client'[j].epoch, shard |-> client'[j].row]
      <3>1. CASE j = k
        BY <1>5, <2>1, <3>1
      <3>2. CASE j # k
        <4>1. client[j].at = "u1_shard" /\ client[j].at \in InSession
          BY <1>5, <2>1, <3>2 DEF InSession
        <4>2. client[j].uuid <= uuids /\ client[j].uuid \in Uuids
          BY <4>1 DEF SessionInv, RoutingInv, SessionsRouted
        <4>3. client[j].uuid # uuids'
          BY <1>1, <1>2, <1>3, <4>2
        <4> QED BY <1>4, <1>5, <3>2, <4>1, <4>2, <4>3 DEF EpochInv, RoutedInEpoch
      <3> QED BY <3>1, <3>2
    <2>2. ASSUME NEW j \in Clients, client'[j].at \in {"u1_put", "u1_shard"},
                 Running, client'[j].epoch = epoch.id
          PROVE  client'[j].row <= count
      BY <1>1, <1>5, <2>2 DEF EpochInv, RoutedInEpoch
    <2> QED BY <1>0, <1>1, <2>1, <2>2 DEF RoutedInEpoch
  <1>9. OpenInEpoch'
    <2>1. ASSUME NEW s \in Shards, NEW u \in open[s]
          PROVE  u <= uuids /\ u \in Uuids /\ u \in Nat /\ u # uuids' /\ u <= uuids'
      BY <1>1, <1>2, <1>3 DEF EpochInv, OpenInEpoch
    <2> QED BY <1>0, <1>1, <1>4, <2>1 DEF EpochInv, OpenInEpoch
  <1> QED BY <1>6, <1>7, <1>8, <1>9 DEF EpochInv

\* The shard that admits a session of the open epoch is in that epoch.
LEMMA AtShardEpoch ==
  ASSUME RoutingInv, SessionInv, EpochInv, NEW k \in Clients, Upload1AtShard(k)
  PROVE  EpochInv'
  <1>1. client[k].at = "u1_shard" /\ client[k].at \in InSession
        /\ UNCHANGED <<epoch, failed, count, shard, record, uuids, metrics>>
    BY DEF Upload1AtShard, At, InSession, storeVars
  <1>2. /\ client \in [Clients -> ClientRecord] /\ open \in [Shards -> SUBSET Uuids]
        /\ client[k].row \in Shards /\ client[k].row \in 1 .. MaxShards
        /\ count \in 1 .. MaxShards
    BY DEF RoutingInv, TypeOK, ClientRecord, Shards
  <1>3. \/ Goto(k, "u1_cache")
        \/ \E error : client' = [client EXCEPT ![k].at = "u1_delete", ![k].error = error]
    BY Zenon DEF Upload1AtShard
  <1>4. /\ client'[k].epoch = client[k].epoch
        /\ client'[k].at # "u1_shard" /\ client'[k].at # "u1_put"
        /\ \A j \in Clients : j # k => client'[j] = client[j]
    <2>1. CASE Goto(k, "u1_cache")
      BY <2>1, GotoSame DEF Handling
    <2>2. ASSUME NEW error, client' = [client EXCEPT ![k].at = "u1_delete", ![k].error = error]
          PROVE  /\ client'[k].epoch = client[k].epoch /\ client'[k].at = "u1_delete"
                 /\ \A j \in Clients : j # k => client'[j] = client[j]
      BY <1>2, <2>2 DEF ClientRecord
    <2> QED BY <1>3, <2>1, <2>2
  <1>5. \/ open' = open
        \/ /\ shard[client[k].row].state = "Active"
           /\ open' = [open EXCEPT ![client[k].row] = open[client[k].row] \cup {client[k].uuid}]
    BY Zenon DEF Upload1AtShard
  <1>6. client[k].uuid <= uuids
    BY <1>1 DEF SessionInv
  <1>7. ASSUME shard[client[k].row].state = "Active", Running,
               record[client[k].uuid].epoch = epoch.id
        PROVE  shard[client[k].row].id = epoch.id
    <2>1. record[client[k].uuid].epoch = client[k].epoch
      <3>1. record[client[k].uuid] = [epoch |-> client[k].epoch, shard |-> client[k].row]
        BY <1>1, Zenon DEF EpochInv, RoutedInEpoch
      <3> QED BY <3>1
    <2>2. client[k].row <= count
      BY <1>1, <1>7, <2>1 DEF EpochInv, RoutedInEpoch
    <2>3. client[k].row \in 1 .. count
      BY <1>2, <2>2
    <2> QED BY <1>7, <2>3 DEF EpochInv, StartedShards
  <1>8. ASSUME NEW s \in Shards, NEW u \in open'[s]
        PROVE  \/ u \in open[s]
               \/ /\ u <= uuids
                  /\ Running /\ record[u].epoch = epoch.id => shard[s].id = epoch.id
    <2>1. u \in open[s] \/ (s = client[k].row /\ u = client[k].uuid
                            /\ shard[client[k].row].state = "Active")
      BY <1>2, <1>5, <1>8
    <2> QED BY <1>6, <1>7, <2>1
  <1> QED BY <1>1, <1>4, <1>8, EpochClient

\* The bounds tell whether a read was old.
LEMMA MisreadCounts ==
  ASSUME RoutingInv
  PROVE  /\ Misread => ~ExactReads'
         /\ Fault \/ NoFault \/ Misread \/ UNCHANGED used => (ExactReads' => ExactReads)
  BY DEF RoutingInv, TypeOK, Used, Misread, Fault, NoFault, ExactReads

\* The other steps of the uploads: they open no session.
LEMMA UploadEpoch ==
  ASSUME RoutingInv, EpochInv, NEW k \in Clients,
         Upload1(k) \/ Upload2(k) \/ Upload3(k), ~Upload1PutsSession(k), ~Upload1AtShard(k),
         ExactReads'
  PROVE  EpochInv'
  <1>1. /\ client \in [Clients -> ClientRecord] /\ client[k] \in ClientRecord
        /\ client[k].error \in Errors /\ open \in [Shards -> SUBSET Uuids]
        /\ metrics \in [epoch : EpochIDs, count : Nat, on : BOOLEAN]
    BY DEF RoutingInv, TypeOK, ClientRecord
  <1>2. /\ "no_epoch" \in Errors /\ "other" \in Errors /\ "bogus" \in Errors
        /\ \A s : Refusal(s, "lost") \in Errors
    BY DEF Errors, Refusal
  <1>3. /\ "u1_put" \in Handling /\ "u2_epoch" \in Handling /\ "u2_shard" \in Handling
        /\ "u3_epoch" \in Handling /\ "u3_shard" \in Handling /\ "u3_delete" \in Handling
        /\ "u3_record" \in Handling
    BY DEF Handling
  <1>4. CASE Upload1ReadsEpoch(k)
    <2>1. /\ client[k].at \in Handling
          /\ UNCHANGED <<epoch, failed, count, shard, record, uuids, metrics, open>>
      BY <1>4 DEF Upload1ReadsEpoch, At, Handling, storeVars, shardVars
    <2>2. \/ Fails(k, "no_epoch")
          \/ \E id \in 1 .. epoch.id :
               client' = [client EXCEPT ![k].at = "u1_config", ![k].epoch = id]
      BY <1>4, Zenon DEF Upload1ReadsEpoch
    <2>3. CASE Fails(k, "no_epoch")
      BY <1>2, <2>1, <2>3, EpochFails
    <2>4. ASSUME NEW id \in 1 .. epoch.id,
                 client' = [client EXCEPT ![k].at = "u1_config", ![k].epoch = id]
          PROVE  EpochInv'
      <3>1. /\ client'[k].at = "u1_config" /\ client'[k].epoch = id
            /\ \A j \in Clients : j # k => client'[j] = client[j]
        BY <1>1, <2>4 DEF ClientRecord
      <3> QED BY <2>1, <3>1, EpochClient
    <2> QED BY <2>2, <2>3, <2>4
  <1>5. CASE Upload1ReadsConfig(k)
    <2>1. /\ client[k].at \in Handling
          /\ UNCHANGED <<epoch, failed, count, shard, record, uuids, metrics, open>>
      BY <1>5 DEF Upload1ReadsConfig, At, Handling, storeVars, shardVars
    <2>2. Fails(k, "other") \/ (client[k].row <= count /\ Goto(k, "u1_put"))
      <3>1. ~Misread
        BY MisreadCounts
      <3> QED BY <1>5, <3>1, Zenon DEF Upload1ReadsConfig, Read
    <2> QED BY <1>2, <1>3, <2>1, <2>2, EpochFails, EpochGoto
  <1>6. CASE Upload1DeletesSession(k)
    <2>1. /\ client[k].at \in Handling /\ Fails(k, client[k].error)
          /\ UNCHANGED <<epoch, failed, count, shard, record, uuids, metrics, open>>
      BY <1>6 DEF Upload1DeletesSession, At, Handling, shardVars
    <2> QED BY <1>1, <2>1, EpochFails
  <1>7. CASE Upload1Answers(k) \/ Upload2AtShard(k)
    <2>1. /\ client[k].at \in Handling
          /\ UNCHANGED <<epoch, failed, count, shard, record, uuids, metrics, open>>
      BY <1>7 DEF Upload1Answers, Upload2AtShard, At, Handling, storeVars, shardVars
    <2>2. \/ \E error \in Errors : Fails(k, error)
          \/ \E c \in Coordinators, place \in {"u2_session", "u3_session"} :
               client' = [client EXCEPT ![k].at = place, ![k].via = c]
      BY <1>2, <1>7, Zenon DEF Upload1Answers, Upload2AtShard
    <2>3. ASSUME NEW c \in Coordinators, NEW place \in {"u2_session", "u3_session"},
                 client' = [client EXCEPT ![k].at = place, ![k].via = c]
          PROVE  EpochInv'
      <3>1. /\ client'[k].at = place /\ client'[k].epoch = client[k].epoch
            /\ \A j \in Clients : j # k => client'[j] = client[j]
        BY <1>1, <2>3 DEF ClientRecord
      <3> QED BY <2>1, <3>1, EpochClient
    <2> QED BY <2>1, <2>2, <2>3, EpochFails
  <1>8. ASSUME NEW from \in Handling, NEW to \in {"u2_epoch", "u2_shard", "u3_epoch", "u3_shard"},
               FindsSession(k, from, to) \/ RequiresSessionEpoch(k, from, to)
        PROVE  EpochInv'
    <2>1. /\ client[k].at \in Handling /\ to \in Handling
          /\ UNCHANGED <<epoch, failed, count, shard, record, uuids, metrics, open>>
      BY <1>3, <1>8 DEF FindsSession, RequiresSessionEpoch, At, storeVars, shardVars
    <2>2. Goto(k, to) \/ \E error \in Errors : Fails(k, error)
      BY <1>2, <1>8, Zenon DEF FindsSession, RequiresSessionEpoch
    <2> QED BY <2>1, <2>2, EpochFails, EpochGoto
  <1>9. CASE Upload3AtShard(k)
    <2>1. /\ client[k].at \in Handling
          /\ UNCHANGED <<epoch, failed, count, shard, record, uuids, metrics>>
      BY <1>9 DEF Upload3AtShard, At, Handling, storeVars
    <2>2. \/ open' = open
          \/ \E s, u : open' = [open EXCEPT ![s] = open[s] \ {u}]
      BY <1>9, Zenon DEF Upload3AtShard
    <2>3. \A s \in Shards : \A u \in open'[s] : u \in open[s]
      BY <1>1, <2>2
    <2>4. Goto(k, "u3_delete") \/ \E error \in Errors : Fails(k, error)
      BY <1>2, <1>9, Zenon DEF Upload3AtShard
    <2> QED BY <1>3, <2>1, <2>3, <2>4, EpochFails, EpochGoto
  <1>10. CASE Upload3DeletesSession(k)
    <2>1. /\ client[k].at \in Handling
          /\ UNCHANGED <<epoch, failed, count, shard, record, uuids, metrics, open>>
      BY <1>10 DEF Upload3DeletesSession, At, Handling, shardVars
    <2>2. Goto(k, "u3_record") \/ Fails(k, "other")
      BY <1>10, Zenon DEF Upload3DeletesSession
    <2> QED BY <1>2, <1>3, <2>1, <2>2, EpochFails, EpochGoto
  <1>11. CASE RecordUpload3Success(k)
    <2>1. /\ UNCHANGED <<epoch, failed, count, shard, record, uuids, open>> /\ Goto(k, "idle")
          /\ metrics'.on = metrics.on /\ metrics'.epoch = metrics.epoch
      BY <1>1, <1>11 DEF RecordUpload3Success, storeVars, shardVars
    <2> QED BY <2>1, EpochGoto
  <1> QED BY <1>4, <1>5, <1>6, <1>7, <1>8, <1>9, <1>10, <1>11
          DEF Upload1, Upload2, Upload3, Handling

\* Epochs open and close.
LEMMA StoreStepsEpoch ==
  ASSUME RoutingInv, EpochInv,
         \/ StoreStarts \/ StartFails \/ CountStarts \/ CountEnds \/ StoreCompletes
         \/ \E n \in Shards : Rescale(n)
  PROVE  EpochInv'
  <1>1. /\ epoch \in [id : EpochIDs, state : {"NoActive", "Active", "Completed"}]
        /\ metrics \in [epoch : EpochIDs, count : Nat, on : BOOLEAN]
        /\ client \in [Clients -> ClientRecord]
        /\ record \in [Uuids -> [epoch : EpochIDs, shard : 0 .. MaxShards]]
        /\ open \in [Shards -> SUBSET Uuids] /\ epoch.id \in Nat
    BY DEF RoutingInv, TypeOK, EpochIDs
  <1>2. /\ \A k \in Clients : client[k].epoch \in Nat /\ client[k].epoch <= epoch.id
        /\ \A u \in Uuids : record[u].epoch \in Nat /\ record[u].epoch <= epoch.id
        /\ metrics.on => Running /\ metrics.epoch = epoch.id
    BY <1>1 DEF ClientRecord, EpochIDs, EpochInv, NoneAhead
  <1>3. CASE StoreStarts
    <2>1. /\ ~metrics.on /\ epoch' = [id |-> epoch.id + 1, state |-> "Active"]
          /\ UNCHANGED <<count, record, shard, open, metrics, client, uuids>>
          /\ \A s \in 1 .. count : shard[s].id = epoch.id + 1
      BY <1>3 DEF StoreStarts, MayStart
    <2>2. epoch'.id = epoch.id + 1
      BY <2>1
    <2>3. StartedShards'
      BY <2>1, <2>2 DEF StartedShards
    <2>4. NoneAhead'
      BY <1>1, <1>2, <2>1, <2>2 DEF NoneAhead
    <2>5. (\A k \in Clients : client[k].epoch # epoch'.id)
          /\ (\A u \in Uuids : record[u].epoch # epoch'.id)
      BY <1>1, <1>2, <2>2
    <2>6. RoutedInEpoch'
      BY <2>1, <2>5 DEF EpochInv, RoutedInEpoch
    <2>7. OpenInEpoch'
      BY <1>1, <2>1, <2>5 DEF EpochInv, OpenInEpoch
    <2> QED BY <2>3, <2>4, <2>6, <2>7 DEF EpochInv
  <1>4. CASE CountStarts \/ CountEnds
    <2>1. /\ UNCHANGED <<epoch, failed, count, record, shard, open, client, uuids>>
          /\ metrics'.on => Running /\ metrics'.epoch = epoch.id
      BY <1>1, <1>2, <1>4 DEF CountStarts, CountEnds, Running, storeVars, shardVars
    <2>2. Running' = Running
      BY <2>1 DEF Running
    <2>3. NoneAhead'
      BY <2>1, <2>2 DEF EpochInv, NoneAhead
    <2> QED BY <2>1, <2>2, <2>3 DEF EpochInv, StartedShards, RoutedInEpoch, OpenInEpoch
  <1>5. CASE StoreCompletes
    <2>1. /\ UNCHANGED <<count, record, shard, open, metrics, client, uuids>>
          /\ ~Running' /\ epoch'.id = epoch.id /\ ~metrics.on
      BY <1>1, <1>5 DEF StoreCompletes, Running, shardVars
    <2>2. NoneAhead'
      BY <2>1 DEF EpochInv, NoneAhead
    <2> QED BY <2>1, <2>2 DEF EpochInv, StartedShards, RoutedInEpoch, OpenInEpoch
  <1>6. ASSUME NEW n \in Shards, Rescale(n) PROVE EpochInv'
    <2>1. /\ UNCHANGED <<epoch, record, shard, open, metrics, client, uuids>>
          /\ ~Running /\ ~Running'
      BY <1>6 DEF Rescale, Running, shardVars
    <2> QED BY <2>1 DEF EpochInv, StartedShards, NoneAhead, RoutedInEpoch, OpenInEpoch
  <1>7. CASE StartFails
    <2>1. /\ UNCHANGED <<epoch, count, record, shard, open, metrics, client, uuids>>
          /\ ~Running' /\ metrics.epoch < epoch.id
      BY <1>7 DEF StartFails, Running, storeVars
    <2>2. ~metrics.on
      BY <1>1, <1>2, <2>1
    <2>3. NoneAhead'
      BY <2>1, <2>2 DEF EpochInv, NoneAhead
    <2> QED BY <2>1, <2>3 DEF EpochInv, StartedShards, RoutedInEpoch, OpenInEpoch
  <1> QED BY <1>3, <1>4, <1>5, <1>6, <1>7

\* Shards start, abort, close and are replaced.
LEMMA ShardStepsEpoch ==
  ASSUME RoutingInv, EpochInv, NEW s \in Shards,
         \/ ShardStarts(s) \/ ShardAborts(s) \/ ShardCloses(s)
         \/ \E state \in {"Standby", "NoActive"} : ShardReplaced(s, state)
  PROVE  EpochInv'
  <1>1. /\ shard \in [Shards -> [id : EpochIDs,
                                 state : {"Standby", "NoActive", "Active", "Closing", "Completed"}]]
        /\ open \in [Shards -> SUBSET Uuids] /\ count \in 1 .. MaxShards
    BY DEF RoutingInv, TypeOK, Shards
  <1>2. UNCHANGED <<epoch, failed, count, record, metrics, client, uuids>> /\ Running' = Running
    BY DEF ShardStarts, ShardAborts, ShardCloses, ShardReplaced, storeVars, Running
  <1>3. NoneAhead' /\ RoutedInEpoch'
    BY <1>2 DEF EpochInv, NoneAhead, RoutedInEpoch
  <1>4. ASSUME NEW t \in 1 .. count PROVE t \in Shards
    BY <1>1 DEF Shards
  <1>5. CASE ShardStarts(s) \/ ShardAborts(s)
    <2>1. ~Running /\ open' = open
      BY <1>5 DEF ShardStarts, ShardAborts, MayStart, Running
    <2> QED BY <1>2, <1>3, <2>1 DEF EpochInv, StartedShards, OpenInEpoch
  <1>6. CASE ShardCloses(s)
    <2>1. /\ shard[s].state \in {"Active", "Closing"} /\ open' = open
          /\ \E state : shard' = [shard EXCEPT ![s].state = state]
      BY <1>6, Zenon DEF ShardCloses
    <2>2. /\ \A t \in Shards : shard'[t].id = shard[t].id
          /\ \A t \in Shards : t # s => shard'[t] = shard[t]
      BY <1>1, <2>1
    <2>3. StartedShards'
      BY <1>2, <1>4, <2>1, <2>2 DEF EpochInv, StartedShards
    <2>4. OpenInEpoch'
      BY <1>2, <2>1, <2>2 DEF EpochInv, OpenInEpoch
    <2> QED BY <1>3, <2>3, <2>4 DEF EpochInv
  <1>7. ASSUME NEW state \in {"Standby", "NoActive"}, ShardReplaced(s, state) PROVE EpochInv'
    <2>1. /\ open' = [open EXCEPT ![s] = {}]
          /\ shard' = [shard EXCEPT ![s] = [id |-> 0, state |-> state]]
      BY <1>7 DEF ShardReplaced
    <2>2. /\ open'[s] = {} /\ shard'[s].id = 0 /\ shard'[s].state \in {"Standby", "NoActive"}
          /\ \A t \in Shards : t # s => shard'[t] = shard[t] /\ open'[t] = open[t]
      BY <1>1, <2>1
    <2>3. StartedShards'
      BY <1>2, <1>4, <2>2 DEF EpochInv, StartedShards
    <2>4. OpenInEpoch'
      BY <1>2, <2>2 DEF EpochInv, OpenInEpoch
    <2> QED BY <1>3, <2>3, <2>4 DEF EpochInv
  <1> QED BY <1>5, <1>6, <1>7

\* Every step keeps EpochInv.
LEMMA EpochStep ==
  RoutingInv /\ SessionInv /\ EpochInv /\ ExactReads' /\ [Next]_vars => EpochInv'
  <1> SUFFICES ASSUME RoutingInv, SessionInv, EpochInv, ExactReads', [Next]_vars PROVE EpochInv'
    OBVIOUS
  <1>0. RoutingInv' /\ client \in [Clients -> ClientRecord]
        /\ metrics \in [epoch : EpochIDs, count : Nat, on : BOOLEAN]
    BY RoutingStep DEF RoutingInv, TypeOK
  <1>1. CASE EpochSteps
    BY <1>1, StoreStepsEpoch, ShardStepsEpoch DEF EpochSteps
  <1>2. ASSUME NEW n \in Shards, Rescale(n) PROVE EpochInv'
    BY <1>2, StoreStepsEpoch
  <1>3. ASSUME NEW c \in Coordinators, Crash(c) PROVE EpochInv'
    <2>1. /\ UNCHANGED <<epoch, failed, count, record, shard, open, uuids>>
          /\ metrics'.on => metrics.on
          /\ metrics'.epoch = metrics.epoch
          /\ client' = [k \in Clients |->
               IF client[k].via = c /\ client[k].at \in Handling THEN Broken(k) ELSE client[k]]
      BY <1>0, <1>3 DEF Crash, storeVars, shardVars, Broken
    <2>2. \A k \in Clients : Broken(k).at = "failed" /\ Broken(k).epoch = client[k].epoch
      <3> SUFFICES ASSUME NEW r \in ClientRecord
                   PROVE  LET b == [r EXCEPT !.at = "failed", !.error = "other"]
                          IN  b.at = "failed" /\ b.epoch = r.epoch
        BY <1>0, Zenon DEF Broken
      <3> QED BY DEF ClientRecord
    <2>3. \A k \in Clients : /\ client'[k].epoch = client[k].epoch
                             /\ client'[k] = client[k] \/ client'[k].at = "failed"
      BY <2>1, <2>2
    <2>4. Running' = Running
      BY <2>1 DEF Running
    <2>5. NoneAhead'
      BY <2>1, <2>3, <2>4 DEF EpochInv, NoneAhead
    <2>6. RoutedInEpoch'
      BY <2>1, <2>3, <2>4 DEF EpochInv, RoutedInEpoch
    <2> QED BY <2>1, <2>4, <2>5, <2>6 DEF EpochInv, StartedShards, OpenInEpoch
  <1>4. ASSUME NEW s \in Shards, NEW state \in {"Standby", "NoActive"}, ShardReplaced(s, state)
        PROVE  EpochInv'
    BY <1>4, ShardStepsEpoch
  <1>5. ASSUME NEW k \in Clients, NEW s \in Shards, NEW c \in Coordinators, NextRequest(k, s, c)
        PROVE  EpochInv'
    <2>1. /\ client' = [client EXCEPT ![k] = Calling(c, s, client[k].request + 1)]
          /\ UNCHANGED <<epoch, failed, count, shard, record, uuids, metrics, open>>
      BY <1>5 DEF NextRequest, storeVars, shardVars
    <2>2. /\ client'[k].at = "u1_epoch" /\ client'[k].epoch = 0
          /\ \A j \in Clients : j # k => client'[j] = client[j]
      BY <1>0, <2>1 DEF Calling
    <2> QED BY <2>1, <2>2, EpochClient
  <1>6. ASSUME NEW k \in Clients, ClientStops(k) PROVE EpochInv'
    <2>1. Goto(k, "done") /\ UNCHANGED <<epoch, failed, count, shard, record, uuids, metrics, open>>
      BY <1>6 DEF ClientStops, storeVars, shardVars
    <2> QED BY <2>1, EpochGoto
  <1>7. ASSUME NEW k \in Clients, Upload1(k) \/ Upload2(k) \/ Upload3(k) PROVE EpochInv'
    BY <1>0, <1>7, UploadEpoch, PutsSessionEpoch, AtShardEpoch
  <1>8. CASE UNCHANGED vars
    BY <1>8 DEF vars, storeVars, shardVars, EpochInv, StartedShards, NoneAhead, RoutedInEpoch,
                OpenInEpoch, Running
  <1> QED BY <1>1, <1>2, <1>3, <1>4, <1>5, <1>6, <1>7, <1>8 DEF Next

\* A handler about to count was so before the step, for the same upload.
SameUpload(k) ==
  client'[k].at \in Uncounted =>
    /\ client[k].at \in Uncounted
    /\ client'[k].request = client[k].request /\ client'[k].uuid = client[k].uuid

\* Steps of the uploads other than the shard's answer to Upload3.
LEMMA UploadSame ==
  ASSUME RoutingInv, NEW k \in Clients,
         Upload1(k) \/ Upload2(k) \/ Upload3(k), ~Upload3AtShard(k)
  PROVE  (\A j \in Clients : SameUpload(j)) /\ UNCHANGED <<accepted, epoch, failed>>
  <1>1. /\ client \in [Clients -> ClientRecord] /\ client[k] \in ClientRecord
        /\ client[k].error \in Errors
    BY DEF RoutingInv, TypeOK, ClientRecord
  <1>2. client[k].at \in Handling /\ UNCHANGED <<accepted, epoch, failed>>
    BY DEF Upload1, Upload1ReadsEpoch, Upload1ReadsConfig, Upload1PutsSession, Upload1AtShard,
           Upload1DeletesSession, Upload1Answers, Upload2, FindsSession, RequiresSessionEpoch,
           Upload2AtShard, Upload3, Upload3DeletesSession, RecordUpload3Success, At, Handling,
           storeVars, shardVars
  <1>3. /\ "no_epoch" \in Errors /\ "other" \in Errors /\ "bogus" \in Errors
        /\ \A s : Refusal(s, "lost") \in Errors
    BY DEF Refusal, Errors
  <1> DEFINE Early == (Handling \cup {"idle"}) \ Uncounted
  <1>4. /\ "u1_put" \in Early /\ "u1_cache" \in Early /\ "u2_epoch" \in Early
        /\ "u2_shard" \in Early /\ "u3_epoch" \in Early /\ "u3_shard" \in Early
        /\ "u1_config" \in Early /\ "u1_shard" \in Early /\ "u1_delete" \in Early
        /\ "u2_session" \in Early /\ "u3_session" \in Early /\ "idle" \in Early
    BY DEF Handling, Uncounted
  <1>5. /\ Early \subseteq Handling \cup {"idle", "done", "failed"}
        /\ \A place \in Early : place \notin Uncounted
    BY DEF Early
  <1> HIDE DEF Early
  <1>6. \/ \E error \in Errors : Fails(k, error)
        \/ \E place \in Early : Goto(k, place)
        \/ client[k].at = "u3_delete" /\ Goto(k, "u3_record")
        \/ \E place \in Early : \E x : \/ client' = [client EXCEPT ![k].at = place, ![k].epoch = x]
                                       \/ client' = [client EXCEPT ![k].at = place, ![k].uuid = x]
                                       \/ client' = [client EXCEPT ![k].at = place, ![k].error = x]
                                       \/ client' = [client EXCEPT ![k].at = place, ![k].via = x]
    <2>1. CASE Upload1ReadsEpoch(k)
      BY <1>3, <1>4, <2>1, Zenon DEF Upload1ReadsEpoch
    <2>2. CASE Upload1ReadsConfig(k)
      BY <1>3, <1>4, <2>2, Zenon DEF Upload1ReadsConfig
    <2>3. CASE Upload1PutsSession(k)
      BY <1>3, <1>4, <2>3, Zenon DEF Upload1PutsSession
    <2>4. CASE Upload1AtShard(k)
      BY <1>4, <2>4, Zenon DEF Upload1AtShard
    <2>5. CASE Upload1DeletesSession(k)
      BY <1>1, <2>5, Zenon DEF Upload1DeletesSession
    <2>6. CASE Upload1Answers(k)
      BY <1>4, <2>6, Zenon DEF Upload1Answers
    <2>7. ASSUME NEW from, NEW to \in Early, FindsSession(k, from, to)
          PROVE  (\E error \in Errors : Fails(k, error)) \/ \E place \in Early : Goto(k, place)
      BY <1>3, <2>7, Zenon DEF FindsSession
    <2>8. ASSUME NEW from, NEW to \in Early, RequiresSessionEpoch(k, from, to)
          PROVE  (\E error \in Errors : Fails(k, error)) \/ \E place \in Early : Goto(k, place)
      BY <1>3, <2>8, Zenon DEF RequiresSessionEpoch
    <2>9. CASE Upload2AtShard(k)
      BY <1>3, <1>4, <2>9, Zenon DEF Upload2AtShard
    <2>10. CASE Upload3DeletesSession(k)
      BY <1>3, <2>10, Zenon DEF Upload3DeletesSession, At
    <2>11. CASE RecordUpload3Success(k)
      BY <1>4, <2>11, Zenon DEF RecordUpload3Success
    <2> QED BY <1>4, <2>1, <2>2, <2>3, <2>4, <2>5, <2>6, <2>7, <2>8, <2>9, <2>10, <2>11, Zenon
            DEF Upload1, Upload2, Upload3
  <1>7. ASSUME NEW error \in Errors, Fails(k, error) PROVE \A j \in Clients : SameUpload(j)
    BY <1>2, <1>7, FailsTyped DEF SameUpload, Uncounted
  <1>8. ASSUME NEW place \in Early, Goto(k, place) PROVE \A j \in Clients : SameUpload(j)
    BY <1>5, <1>8, GotoSame DEF SameUpload
  <1>9. ASSUME client[k].at = "u3_delete", Goto(k, "u3_record")
        PROVE  \A j \in Clients : SameUpload(j)
    BY <1>9, GotoSame DEF SameUpload, Uncounted, Handling
  <1>10. ASSUME NEW place \in Early, NEW x,
                \/ client' = [client EXCEPT ![k].at = place, ![k].epoch = x]
                \/ client' = [client EXCEPT ![k].at = place, ![k].uuid = x]
                \/ client' = [client EXCEPT ![k].at = place, ![k].error = x]
                \/ client' = [client EXCEPT ![k].at = place, ![k].via = x]
         PROVE  \A j \in Clients : SameUpload(j)
    <2>1. client'[k].at = place /\ \A j \in Clients : j # k => client'[j] = client[j]
      BY <1>1, <1>10 DEF ClientRecord
    <2> QED BY <1>5, <2>1 DEF SameUpload
  <1>11. \A j \in Clients : SameUpload(j)
    BY <1>6, <1>7, <1>8, <1>9, <1>10, Zenon
  <1> QED BY <1>2, <1>11

\* A step by which no upload is answered keeps what was accepted for those
\* that are: the records of their sessions do not change, and an epoch that
\* opens is a later one.
LEMMA AnsweredKept ==
  ASSUME RoutingInv, SessionInv, EpochInv, AnsweredInv, \A k \in Clients : SameUpload(k),
         accepted \subseteq accepted',
         \A u \in Uuids : u <= uuids => record'[u] = record[u],
         Running' => (epoch' = epoch /\ Running) \/ epoch'.id = epoch.id + 1
  PROVE  AnsweredInv'
  <1>1. SUFFICES ASSUME NEW k \in Clients, client'[k].at \in Uncounted
                 PROVE  \E a \in accepted' : Answered(k, a)'
    BY DEF AnsweredInv
  <1>2. /\ client[k].at \in Uncounted /\ client[k].at \in InSession
        /\ client'[k].request = client[k].request /\ client'[k].uuid = client[k].uuid
    BY <1>1 DEF SameUpload, Uncounted, InSession
  <1>3. client[k].uuid \in Uuids /\ client[k].uuid <= uuids
    BY <1>2 DEF SessionInv, RoutingInv, SessionsRouted
  <1>4. PICK a \in accepted : Answered(k, a)
    BY <1>2 DEF AnsweredInv
  <1>5. /\ record[client[k].uuid].epoch <= epoch.id /\ epoch.id \in Nat
        /\ record[client[k].uuid].epoch \in Nat
    BY <1>3 DEF EpochInv, NoneAhead, RoutingInv, TypeOK, EpochIDs
  <1>6. Answered(k, a)'
    BY <1>2, <1>3, <1>4, <1>5 DEF Answered
  <1> QED BY <1>4, <1>6

\* A step that counts nothing and accepts, if anything, something new.
LEMMA CountKept ==
  ASSUME RoutingInv, CountInv, IsFiniteSet(accepted'), accepted \subseteq accepted',
         metrics'.count = metrics.count, metrics'.epoch = metrics.epoch,
         \A a \in accepted : Pending(a)' => Pending(a)
  PROVE  CountInv'
  <1>1. Countable \subseteq Countable'
    BY DEF Countable
  <1>2. IsFiniteSet(Countable')
    BY FS_Subset DEF Countable
  <1>3. /\ Cardinality(Countable) <= Cardinality(Countable')
        /\ Cardinality(Countable) \in Nat /\ Cardinality(Countable') \in Nat
    BY <1>1, <1>2, FS_Subset, FS_CardinalityType
  <1>4. metrics.count \in Nat
    BY DEF RoutingInv, TypeOK
  <1> QED BY <1>3, <1>4 DEF CountInv

\* recordUpload3Success counts an upload that a shard accepted in the epoch
\* of the count, and that was not in the count before.
LEMMA RecordCounts ==
  ASSUME RoutingInv, OnceInv, EpochInv, AnsweredInv, CountInv, NEW k \in Clients,
         RecordUpload3Success(k), metrics' # metrics
  PROVE  CountInv'
  <1>1. /\ client[k].at = "u3_record" /\ metrics.on
        /\ metrics.epoch = record[client[k].uuid].epoch
        /\ metrics' = [metrics EXCEPT !.count = metrics.count + 1]
        /\ UNCHANGED accepted /\ Goto(k, "idle")
    BY DEF RecordUpload3Success, At
  <1>2. metrics'.count = metrics.count + 1 /\ metrics'.epoch = metrics.epoch
        /\ metrics.count \in Nat
    BY <1>1 DEF RoutingInv, TypeOK
  <1>3. PICK a \in accepted : Answered(k, a)
    BY <1>1 DEF AnsweredInv, Uncounted
  <1>4. a.epoch = metrics.epoch
    BY <1>1, <1>3 DEF Answered, EpochInv, NoneAhead
  <1>5. Pending(a)
    BY <1>1, <1>3 DEF Answered, Pending, Uncounted
  <1>6. /\ client'[k].at = "idle" /\ client'[k].request = client[k].request
        /\ \A j \in Clients : j # k => client'[j] = client[j]
    BY <1>1, GotoSame
  <1>7. ~Pending(a)'
    BY <1>3, <1>6 DEF Answered, Pending, Uncounted
  <1>8. ASSUME NEW b \in accepted, b # a PROVE Pending(b)' <=> Pending(b)
    <2>1. b.client \in Clients
      BY DEF RoutingInv, TypeOK, AcceptedRecord
    <2>2. CASE b.client = k
      <3>1. b.request # client[k].request
        BY <1>3, <1>8, <2>2 DEF OnceInv, AcceptedOnce, Answered
      <3> QED BY <1>6, <2>2, <3>1 DEF Pending
    <2>3. CASE b.client # k
      BY <1>6, <2>1, <2>3 DEF Pending
    <2> QED BY <2>2, <2>3
  <1>9. Countable' = Countable \cup {a} /\ a \notin Countable
    BY <1>1, <1>2, <1>4, <1>5, <1>7, <1>8 DEF Countable
  <1>10. IsFiniteSet(Countable)
    BY FS_Subset DEF Countable, CountInv
  <1>11. Cardinality(Countable') = Cardinality(Countable) + 1 /\ Cardinality(Countable) \in Nat
    BY <1>9, <1>10, FS_AddElement, FS_CardinalityType
  <1>12. metrics'.count <= Cardinality(Countable')
    BY <1>2, <1>11 DEF CountInv
  <1> QED BY <1>1, <1>12 DEF CountInv

\* The shard's answer to Upload3: the message is accepted in the epoch of the
\* shard, which is the one of the session as long as that is open.
LEMMA Upload3AtShardCounts ==
  ASSUME RoutingInv, RoutingInv', OnceInv, SessionInv, EpochInv, AnsweredInv, CountInv,
         NEW k \in Clients, Upload3AtShard(k)
  PROVE  AnsweredInv' /\ CountInv'
  <1> DEFINE s == record[client[k].uuid].shard
  <1>1. client[k].at = "u3_shard" /\ client[k].at \in Handling /\ client[k].at \in InSession
        /\ client[k].at \notin Over /\ UNCHANGED <<epoch, failed, record, metrics, uuids>>
        /\ Running' = Running
    BY DEF Upload3AtShard, At, Handling, InSession, Over, Running, storeVars
  <1>2. /\ accepted' \in {accepted, accepted \cup {Enqueued(k)}}
        /\ \/ \E error \in Errors : Fails(k, error)
           \/ /\ Goto(k, "u3_delete") /\ accepted' = accepted \cup {Enqueued(k)}
              /\ client[k].uuid \in open[s]
    <2>1. Refusal(s, "lost") \in Errors /\ "other" \in Errors
      BY DEF Refusal, Errors
    <2> QED BY <2>1, Zenon DEF Upload3AtShard, Enqueued
  <1>3. /\ \A j \in Clients : j # k => client'[j] = client[j]
        /\ client'[k].request = client[k].request
        /\ \/ client'[k].at \notin Uncounted
           \/ /\ client'[k].uuid = client[k].uuid /\ accepted' = accepted \cup {Enqueued(k)}
              /\ client[k].uuid \in open[s]
    <2>1. ASSUME NEW error \in Errors, Fails(k, error)
          PROVE  /\ client'[k].at \notin Uncounted /\ client'[k].request = client[k].request
                 /\ \A j \in Clients : j # k => client'[j] = client[j]
      BY <1>1, <2>1, FailsTyped DEF Uncounted
    <2>2. ASSUME Goto(k, "u3_delete")
          PROVE  /\ client'[k].uuid = client[k].uuid /\ client'[k].request = client[k].request
                 /\ \A j \in Clients : j # k => client'[j] = client[j]
      BY <2>2, GotoSame DEF Handling
    <2> HIDE DEF s
    <2> QED BY <1>2, <2>1, <2>2
  <1>4. /\ client[k].uuid \in Uuids /\ s \in Shards
        /\ Enqueued(k).client = k /\ Enqueued(k).request = client[k].request
        /\ Enqueued(k).epoch = shard[s].id
    BY <1>1 DEF RoutingInv, SessionsRouted, Enqueued
  <1>5. client[k].uuid \in open[s] /\ Running
        /\ record[client[k].uuid].epoch = epoch.id => Enqueued(k).epoch = epoch.id
    BY <1>4 DEF EpochInv, OpenInEpoch
  <1>6. \A a \in accepted : a.client \in Clients /\ (a.client = k => a.request # client[k].request)
    BY <1>1 DEF OnceInv, RoutingInv, TypeOK, AcceptedRecord
  <1> HIDE DEF s
  <1>7. ASSUME NEW j \in Clients, client'[j].at \in Uncounted
        PROVE  \E a \in accepted' : Answered(j, a)'
    <2>1. CASE j = k
      <3>1. /\ client'[k].uuid = client[k].uuid /\ Enqueued(k) \in accepted'
            /\ client[k].uuid \in open[s]
        BY <1>3, <1>7, <2>1
      <3>2. \E a \in accepted' : /\ a.client = k /\ a.request = client'[k].request
                                 /\ Running'
                                      /\ record'[client'[k].uuid].epoch = epoch'.id =>
                                      a.epoch = epoch'.id
        BY <1>1, <1>3, <1>4, <1>5, <3>1
      <3> QED BY <2>1, <3>2 DEF Answered
    <2>2. CASE j # k
      <3>1. client'[j] = client[j] /\ client[j].at \in Uncounted
        BY <1>3, <1>7, <2>2
      <3>2. PICK a \in accepted : Answered(j, a)
        BY <3>1 DEF AnsweredInv
      <3>3. Answered(j, a)' /\ a \in accepted'
        BY <1>1, <1>2, <3>1, <3>2 DEF Answered
      <3> QED BY <3>3
    <2> QED BY <2>1, <2>2
  <1>8. \A a \in accepted : Pending(a)' => Pending(a)
    BY <1>3, <1>6 DEF Pending
  <1>9. IsFiniteSet(accepted') /\ accepted \subseteq accepted'
    BY <1>2, FS_AddElement DEF CountInv
  <1>10. CountInv'
    BY <1>1, <1>8, <1>9, CountKept
  <1> QED BY <1>7, <1>10 DEF AnsweredInv

\* Every step keeps what the count may have counted.
LEMMA CountStep ==
  RoutingInv /\ OnceInv /\ SessionInv /\ EpochInv /\ AnsweredInv /\ CountInv /\ [Next]_vars
    => AnsweredInv' /\ CountInv'
  <1> SUFFICES ASSUME RoutingInv, OnceInv, SessionInv, EpochInv, AnsweredInv, CountInv,
                      [Next]_vars
               PROVE  AnsweredInv' /\ CountInv'
    OBVIOUS
  <1>0. /\ RoutingInv' /\ client \in [Clients -> ClientRecord] /\ uuids \in Nat
        /\ metrics \in [epoch : EpochIDs, count : Nat, on : BOOLEAN]
        /\ record \in [Uuids -> [epoch : EpochIDs, shard : 0 .. MaxShards]]
        /\ \A a \in accepted : a.client \in Clients
        /\ epoch \in [id : EpochIDs, state : {"NoActive", "Active", "Completed"}]
    BY RoutingStep DEF RoutingInv, TypeOK, AcceptedRecord
  <1>1. ASSUME \A k \in Clients : SameUpload(k), UNCHANGED accepted
        PROVE  \A a \in accepted : Pending(a)' => Pending(a)
    BY <1>0, <1>1 DEF Pending, SameUpload
  <1>2. ASSUME \A k \in Clients : SameUpload(k), UNCHANGED <<accepted, epoch, failed>>,
               metrics'.count = metrics.count, metrics'.epoch = metrics.epoch,
               \A u \in Uuids : u <= uuids => record'[u] = record[u]
        PROVE  AnsweredInv' /\ CountInv'
    <2>1. Running' = Running
      BY <1>2 DEF Running
    <2> QED BY <1>1, <1>2, <2>1, AnsweredKept, CountKept DEF CountInv
  <1>3. UNCHANGED client => \A k \in Clients : SameUpload(k)
    BY DEF SameUpload
  <1>4. CASE StoreStarts \/ StartFails \/ StoreCompletes
    <2>1. /\ UNCHANGED <<accepted, record, metrics, client>>
          /\ Running' => epoch'.id = epoch.id + 1
      BY <1>0, <1>4 DEF StoreStarts, StartFails, StoreCompletes, Running, storeVars
    <2> QED BY <1>1, <1>3, <2>1, AnsweredKept, CountKept DEF CountInv
  <1>5. CASE CountStarts
    <2>1. UNCHANGED <<accepted, record, client, epoch, failed>> /\ metrics'.count = 0
      BY <1>5 DEF CountStarts, storeVars, shardVars
    <2>2. Cardinality(Countable') \in Nat
      <3>1. IsFiniteSet(accepted')
        BY <2>1 DEF CountInv
      <3>2. IsFiniteSet(Countable')
        BY <3>1, FS_Subset DEF Countable
      <3> QED BY <3>2, FS_CardinalityType
    <2>3. CountInv'
      BY <2>1, <2>2 DEF CountInv
    <2>4. Running' = Running
      BY <2>1 DEF Running
    <2> QED BY <1>3, <2>1, <2>3, <2>4, AnsweredKept
  <1>6. CASE CountEnds \/ \E s \in Shards : ShardStarts(s) \/ ShardAborts(s) \/ ShardCloses(s)
    <2>1. /\ UNCHANGED <<accepted, record, client, epoch, failed>>
          /\ metrics'.count = metrics.count /\ metrics'.epoch = metrics.epoch
      BY <1>0, <1>6 DEF CountEnds, ShardStarts, ShardAborts, ShardCloses, storeVars,
                        shardVars
    <2> QED BY <1>2, <1>3, <2>1
  <1>7. ASSUME NEW n \in Shards, Rescale(n) PROVE AnsweredInv' /\ CountInv'
    BY <1>2, <1>3, <1>7 DEF Rescale, shardVars
  <1>8. ASSUME NEW c \in Coordinators, Crash(c) PROVE AnsweredInv' /\ CountInv'
    <2>1. /\ UNCHANGED <<accepted, record, epoch, failed>>
          /\ metrics'.count = metrics.count /\ metrics'.epoch = metrics.epoch
      BY <1>0, <1>8 DEF Crash, storeVars, shardVars
    <2>2. \A k \in Clients : SameUpload(k)
      BY <1>8, CrashClients DEF SameUpload, Uncounted
    <2> QED BY <1>2, <2>1, <2>2
  <1>9. ASSUME NEW s \in Shards, NEW state \in {"Standby", "NoActive"}, ShardReplaced(s, state)
        PROVE  AnsweredInv' /\ CountInv'
    BY <1>2, <1>3, <1>9 DEF ShardReplaced, storeVars
  <1>10. ASSUME NEW k \in Clients, NEW s \in Shards, NEW c \in Coordinators, NextRequest(k, s, c)
         PROVE  AnsweredInv' /\ CountInv'
    <2>1. /\ client' = [client EXCEPT ![k] = Calling(c, s, client[k].request + 1)]
          /\ UNCHANGED <<accepted, record, epoch, failed, metrics>>
      BY <1>10 DEF NextRequest, storeVars, shardVars
    <2>2. \A j \in Clients : SameUpload(j)
      BY <1>0, <2>1 DEF Calling, SameUpload, Uncounted
    <2> QED BY <1>2, <2>1, <2>2
  <1>11. ASSUME NEW k \in Clients, ClientStops(k) PROVE AnsweredInv' /\ CountInv'
    <2>1. Goto(k, "done") /\ UNCHANGED <<accepted, record, epoch, failed, metrics>>
      BY <1>11 DEF ClientStops, storeVars, shardVars
    <2>2. \A j \in Clients : SameUpload(j)
      BY <2>1, GotoSame DEF SameUpload, Uncounted
    <2> QED BY <1>2, <2>1, <2>2
  <1>12. ASSUME NEW k \in Clients, Upload1(k) \/ Upload2(k) \/ Upload3(k)
         PROVE  AnsweredInv' /\ CountInv'
    <2>1. CASE Upload3AtShard(k)
      BY <1>0, <2>1, Upload3AtShardCounts
    <2>2. CASE ~Upload3AtShard(k)
      <3>1. (\A j \in Clients : SameUpload(j)) /\ UNCHANGED <<accepted, epoch, failed>>
        BY <1>12, <2>2, UploadSame
      <3>2. \A u \in Uuids : u <= uuids => record'[u] = record[u]
        <4>1. record' = record \/ \E x : record' = [record EXCEPT ![uuids + 1] = x]
          BY <1>12, <2>2
             DEF Upload1, Upload1ReadsEpoch, Upload1ReadsConfig, Upload1PutsSession,
                 Upload1AtShard, Upload1DeletesSession, Upload1Answers, Upload2, FindsSession,
                 RequiresSessionEpoch, Upload2AtShard, Upload3, Upload3DeletesSession,
                 RecordUpload3Success, storeVars
        <4>2. \A u \in Uuids : u \in Nat
          BY DEF Uuids
        <4> QED BY <1>0, <4>1, <4>2
      <3>3. metrics' = metrics \/ RecordUpload3Success(k)
        BY <1>12, <2>2
           DEF Upload1, Upload1ReadsEpoch, Upload1ReadsConfig, Upload1PutsSession,
               Upload1AtShard, Upload1DeletesSession, Upload1Answers, Upload2, FindsSession,
               RequiresSessionEpoch, Upload2AtShard, Upload3, Upload3DeletesSession
      <3>4. CASE metrics' = metrics
        BY <1>2, <3>1, <3>2, <3>4
      <3>5. CASE RecordUpload3Success(k) /\ metrics' # metrics
        <4>1. Running' = Running
          BY <3>1 DEF Running
        <4> QED BY <3>1, <3>2, <3>5, <4>1, RecordCounts, AnsweredKept
      <3> QED BY <3>3, <3>4, <3>5
    <2> QED BY <2>1, <2>2
  <1>13. CASE UNCHANGED vars
    BY <1>2, <1>3, <1>13 DEF vars, storeVars, shardVars
  <1> QED BY <1>4, <1>5, <1>6, <1>7, <1>8, <1>9, <1>10, <1>11, <1>12, <1>13 DEF Next, EpochSteps

\* What the count rests on, as long as no read was old.
LoadInv == ExactReads => EpochInv /\ AnsweredInv /\ CountInv

\* Reads that were old stay so.
LEMMA ExactKept == RoutingInv /\ [Next]_vars => (ExactReads' => ExactReads)
  <1> SUFFICES ASSUME RoutingInv, [Next]_vars PROVE ExactReads' => ExactReads
    OBVIOUS
  <1>1. used \in Used
    BY DEF RoutingInv, TypeOK
  <1>2. ASSUME Fault \/ NoFault \/ Misread \/ UNCHANGED used PROVE ExactReads' => ExactReads
    BY <1>2, MisreadCounts
  <1>3. CASE EpochSteps
    <2>1. Fault \/ NoFault
      BY <1>3 DEF EpochSteps, StoreStarts, StartFails, CountStarts, CountEnds, StoreCompletes,
                  ShardStarts, ShardAborts, ShardCloses, NoFault
    <2> QED BY <1>2, <2>1
  <1>4. CASE (\E n \in Shards : Rescale(n)) \/ UNCHANGED vars
    BY <1>2, <1>4 DEF Rescale, vars
  <1>5. CASE \/ \E c \in Coordinators : Crash(c)
             \/ \E s \in Shards, state \in {"Standby", "NoActive"} : ShardReplaced(s, state)
    BY <1>1, <1>5 DEF Crash, ShardReplaced, Used, ExactReads
  <1>6. ASSUME NEW k \in Clients,
               \/ \E s \in Shards, c \in Coordinators : NextRequest(k, s, c)
               \/ ClientStops(k)
        PROVE  ExactReads' => ExactReads
    BY <1>2, <1>6 DEF NextRequest, ClientStops
  <1>7. ASSUME NEW k \in Clients, Upload1(k) PROVE ExactReads' => ExactReads
    <2>1. Fault \/ NoFault \/ Misread
      BY <1>7 DEF Upload1, Upload1ReadsEpoch, Upload1ReadsConfig, Upload1PutsSession,
                  Upload1AtShard, Upload1DeletesSession, Upload1Answers, Read, NoFault
    <2> QED BY <1>2, <2>1
  <1>8. ASSUME NEW k \in Clients, Upload2(k) \/ Upload3(k) PROVE ExactReads' => ExactReads
    <2>1. Fault \/ NoFault \/ Misread
      BY <1>8 DEF Upload2, Upload3, FindsSession, RequiresSessionEpoch, Upload2AtShard,
                  Upload3AtShard, Upload3DeletesSession, RecordUpload3Success, Read, NoFault
    <2> QED BY <1>2, <2>1
  <1> QED BY <1>3, <1>4, <1>5, <1>6, <1>7, <1>8 DEF Next

\* Every step keeps what the count rests on.
LEMMA LoadStep ==
  RoutingInv /\ OnceInv /\ SessionInv /\ LoadInv /\ [Next]_vars => LoadInv'
  BY ExactKept, EpochStep, CountStep DEF LoadInv

\* The load a recommendation is computed from is never too high: whatever
\* fails, crashes or is promoted, and however late an Upload3 is answered,
\* recordUpload3Success counts uploads a shard accepted in that very epoch,
\* each of them once, as long as the coordinators read the configuration
\* that is stored and no older one.
THEOREM LoadIsNeverOvercounted == Spec => []NeverOvercounted
  <1>1. Init => OnceInv
    BY DEF Init, OnceInv, AcceptedOnce
  <1>2. Init => SessionInv
    BY DEF Init, SessionInv, InSession, Kept, Clean
  <1>3. Init => EpochInv
    <2> SUFFICES ASSUME Init PROVE EpochInv
      OBVIOUS
    <2>1. StartedShards /\ OpenInEpoch
      BY DEF Init, StartedShards, OpenInEpoch, Running
    <2>2. NoneAhead
      BY DEF Init, NoneAhead, NoRecord
    <2>3. RoutedInEpoch
      BY DEF Init, RoutedInEpoch
    <2> QED BY <2>1, <2>2, <2>3 DEF EpochInv
  <1>4. Init => AnsweredInv
    BY DEF Init, AnsweredInv, Uncounted
  <1>5. Init => CountInv
    <2> SUFFICES ASSUME Init PROVE CountInv
      OBVIOUS
    <2>1. accepted = {} /\ metrics.count = 0
      BY DEF Init
    <2>2. Countable = {}
      BY <2>1 DEF Countable
    <2> QED BY <2>1, <2>2, FS_EmptySet DEF CountInv
  <1>6. Spec => [](RoutingInv /\ OnceInv /\ SessionInv /\ LoadInv)
    <2>1. Init => LoadInv
      BY <1>3, <1>4, <1>5 DEF LoadInv
    <2> QED BY <1>1, <1>2, <2>1, RoutingInit, RoutingStep, OnceStep, SessionStep, LoadStep, PTL
            DEF Spec
  <1>7. RoutingInv /\ LoadInv => NeverOvercounted
    <2> SUFFICES ASSUME RoutingInv, CountInv PROVE NeverOvercounted
      BY DEF LoadInv, NeverOvercounted
    <2> DEFINE Taken == {a \in accepted : a.epoch = metrics.epoch}
    <2>1. Countable \subseteq Taken /\ Taken \subseteq accepted
      BY DEF Countable
    <2>2. IsFiniteSet(Taken)
      BY <2>1, FS_Subset DEF CountInv
    <2>3. /\ Cardinality(Countable) <= Cardinality(Taken)
          /\ Cardinality(Countable) \in Nat /\ Cardinality(Taken) \in Nat
      BY <2>1, <2>2, FS_Subset, FS_CardinalityType
    <2>4. metrics.count \in Nat
      BY DEF RoutingInv, TypeOK
    <2> QED BY <2>3, <2>4 DEF CountInv, NeverOvercounted
  <1> QED BY <1>6, <1>7, PTL
=============================================================================
