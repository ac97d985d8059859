------------------------------- MODULE Server -------------------------------
(***************************************************************************)
(* The server of src/src/node.rs (Server and its QueryHandler) with the    *)
(* announce tokens of src/src/node/token.rs and the peer store in sled.    *)
(* Handlers are concurrent, but each changes the store in one atomic       *)
(* fetch_and_update.  The store is flushed from time to time, so a crash   *)
(* loses what was announced since; a restart draws a new token key.        *)
(*                                                                         *)
(* A token is the record of what is encrypted in it.  crc32c and ChaCha20  *)
(* are taken as perfect: a token of another key, or for another address,   *)
(* never passes the hash comparison.                                       *)
(***************************************************************************)
EXTENDS Integers, SequencesExt

CONSTANTS
    Origin,               \* senders of queries, records [id, ip, valid]
    Port,
    Hash,                 \* info hashes
    MyId,
    TOKEN_VALID_SECONDS,
    MaxTime,              \* bound: of the seconds that pass and of the clock
    MaxBoot,              \* bound: restarts
    MaxTokens             \* bound: tokens handed out

ASSUME OriginAssumption == \A o \in Origin : o.valid \in BOOLEAN
ASSUME TokenAssumption == TOKEN_VALID_SECONDS \in Nat
ASSUME BoundAssumption == MaxTime \in Nat /\ MaxBoot \in Nat /\ MaxTokens \in Nat

VARIABLES
    time,     \* the seconds that have passed, which the program cannot see
    now,      \* SystemTime::now, in seconds: it goes on with time, but may be set
    key,      \* the token key, numbered by restarts
    peers,    \* the tree PEER_TREE: the peers of each info hash
    disk,     \* what of it would survive a crash
    tokens,   \* history: tokens handed out, and when
    setback,  \* history: those of them handed out before the clock was set back
    router,   \* nodes handed to router.add
    reply     \* the kind of the last answer

svars == <<time, now, key, peers, disk, tokens, setback, router, reply>>

Ip == {o.ip : o \in Origin}

(* The history field at is when the token was handed out. *)
Token == [key : 0 .. MaxBoot, ip : Ip, ts : 0 .. MaxTime, at : 0 .. MaxTime]

Sock == [ip : Ip, port : Port]

(* Only known tokens, peers and answers occur, and our own id is never     *)
(* handed to router.add.                                                   *)
STypeOK ==
    /\ time \in 0 .. MaxTime /\ now \in 0 .. MaxTime
    /\ key \in 0 .. MaxBoot
    /\ peers \in [Hash -> Seq(Sock)] /\ disk \in [Hash -> Seq(Sock)]
    /\ tokens \subseteq Token /\ setback \subseteq tokens
    /\ router \subseteq {o \in Origin : o.id # MyId}
    /\ reply \in {"none", "Ok", "KNearest", "Peers", "Samples",
                  "Echo", "Server", "Protocol", "InvalidNodeId", "MethodUnknown"}

-----------------------------------------------------------------------------
Generate(ip) == [key |-> key, ip |-> ip, ts |-> now, at |-> time]

ValidateForever(t, ip) == t.key = key /\ t.ip = ip /\ t.ts <= now

(* TokenGenerator::validate *)
Validate(t, ip) ==
    /\ t.key = key /\ t.ip = ip
    /\ t.ts <= now
    /\ t.ts + TOKEN_VALID_SECONDS > now

NotEchoUnchecked(o, ro) == router' = IF ro THEN router ELSE router \cup {o}

(* The start of handle_query: a query of our own is refused, and the       *)
(* sender goes to the router unless it is read only.                       *)
NotEcho(o, ro) ==
    /\ o.id # MyId
    /\ router' = IF ro THEN router ELSE router \cup {o}

HandleEcho(o) ==
    /\ o.id = MyId
    /\ reply' = "Echo"
    /\ UNCHANGED <<time, now, key, peers, disk, tokens, setback, router>>

HandlePing(o, ro) ==
    /\ NotEcho(o, ro)
    /\ reply' = "Ok"
    /\ UNCHANGED <<time, now, key, peers, disk, tokens, setback>>

HandleFindNode(o, ro) ==
    /\ NotEcho(o, ro)
    /\ reply' = "KNearest"
    /\ UNCHANGED <<time, now, key, peers, disk, tokens, setback>>

(* get_peers, announce_peer or sample_infohashes when sled reports an error. *)
HandleStoreError(o, ro) ==
    /\ NotEcho(o, ro)
    /\ reply' = "Server"
    /\ UNCHANGED <<time, now, key, peers, disk, tokens, setback>>

(* Put and Get *)
HandleUnknown(o, ro) ==
    /\ NotEcho(o, ro)
    /\ reply' = "MethodUnknown"
    /\ UNCHANGED <<time, now, key, peers, disk, tokens, setback>>

HandleSample(o, ro) ==
    /\ NotEcho(o, ro)
    /\ reply' = "Samples"
    /\ UNCHANGED <<time, now, key, peers, disk, tokens, setback>>

(* A token for the sender, and the peers if the tree has the info hash. *)
HandleGetPeers(o, ro, h) ==
    /\ NotEcho(o, ro)
    /\ Cardinality(tokens) < MaxTokens
    /\ tokens' = tokens \cup {Generate(o.ip)}
    /\ reply' = IF peers[h] # <<>> THEN "Peers" ELSE "KNearest"
    /\ UNCHANGED <<time, now, key, peers, disk, setback>>

AddPeerTwice(s, sock) == Append(s, sock)

(* The closure of fetch_and_update. *)
AddPeer(s, sock) == IF sock \in Range(s) THEN s ELSE Append(s, sock)

HandleAnnounce(o, ro, h, port, t) ==
    /\ NotEcho(o, ro)
    /\ \/ /\ ~Validate(t, o.ip)
          /\ reply' = "Protocol"
          /\ UNCHANGED peers
       \/ /\ Validate(t, o.ip)
          /\ ~o.valid
          /\ reply' = "InvalidNodeId"
          /\ UNCHANGED peers
       \/ /\ Validate(t, o.ip)
          /\ o.valid
          /\ peers' = [peers EXCEPT ![h] = AddPeer(@, [ip |-> o.ip, port |-> port])]
          /\ reply' = "Ok"
    /\ UNCHANGED <<time, now, key, disk, tokens, setback>>

-----------------------------------------------------------------------------
(* External: the clock, sled's flush_every_ms, and a crash with restart.   *)
Tick ==
    /\ time < MaxTime /\ now < MaxTime
    /\ time' = time + 1
    /\ now' = now + 1
    /\ UNCHANGED <<key, peers, disk, tokens, setback, router, reply>>

SetClock(t) ==
    /\ now' = t
    /\ setback' = IF t < now THEN tokens ELSE setback
    /\ UNCHANGED <<time, key, peers, disk, tokens, router, reply>>

Flush ==
    /\ disk' = peers
    /\ UNCHANGED <<time, now, key, peers, tokens, setback, router, reply>>

(* Node::new after a crash: the tree is what was flushed, the key is new,  *)
(* and the router starts empty, for the bucket file is never written.      *)
Restart ==
    /\ key < MaxBoot
    /\ key' = key + 1
    /\ peers' = disk
    /\ router' = {}
    /\ reply' = "none"
    /\ UNCHANGED <<time, now, disk, tokens, setback>>

SInit ==
    /\ time = 0 /\ now = 0 /\ key = 0
    /\ peers = [h \in Hash |-> <<>>] /\ disk = peers
    /\ tokens = {} /\ setback = {} /\ router = {}
    /\ reply = "none"

SNext ==
    \/ \E o \in Origin : HandleEcho(o)
    \/ \E o \in Origin, ro \in BOOLEAN :
        \/ HandlePing(o, ro) \/ HandleFindNode(o, ro)
        \/ HandleUnknown(o, ro) \/ HandleSample(o, ro) \/ HandleStoreError(o, ro)
        \/ \E h \in Hash : HandleGetPeers(o, ro, h)
        \/ \E h \in Hash, p \in Port, t \in tokens : HandleAnnounce(o, ro, h, p, t)
    \/ Tick
    \/ \E t \in 0 .. MaxTime : SetClock(t)
    \/ Flush
    \/ Restart

SSpec == SInit /\ [][SNext]_svars

-----------------------------------------------------------------------------
(* A peer enters the store only while its address holds a token that this  *)
(* run of the program handed to that address, whoever else holds tokens    *)
(* and however often the program was restarted.  The token is not older    *)
(* than TOKEN_VALID_SECONDS by the clock, nor by the time that has really  *)
(* passed, unless the clock was set back since it was handed out: then it  *)
(* may have expired before, and is accepted once more.                     *)
AnnounceAuthorised ==
    [][\A h \in Hash : \A s \in Range(peers'[h]) \ Range(peers[h]) :
         \E t \in tokens :
            /\ t.ip = s.ip /\ t.key = key
            /\ t.ts <= now /\ now - t.ts < TOKEN_VALID_SECONDS
            /\ t \in setback \/ time - t.at < TOKEN_VALID_SECONDS]_svars

(* Announcing again, also after a crash, stores no peer twice, and peers   *)
(* are lost by a crash only, and then those announced after the last       *)
(* flush: what is on disk is an initial part of what is in memory.         *)
StoreIntact ==
    \A h \in Hash : IsInjective(peers[h]) /\ IsPrefix(disk[h], peers[h])
=============================================================================
