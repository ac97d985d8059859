---------------------------- MODULE ServerProofs ----------------------------
(***************************************************************************)
(* The peer store and the announce tokens of the server, for every set of  *)
(* senders, info hashes and ports, every lifetime of tokens, any number of *)
(* restarts and any behaviour of the clock; and the messages between nodes *)
(* (Exchange), for every set of nodes, queries and responses and every     *)
(* dictionary of other implementations.                                    *)
(***************************************************************************)
EXTENDS Server, Exchange, SequenceTheorems, FiniteSetTheorems, TLAPS

-----------------------------------------------------------------------------
(* Sequences *)

(* IsPrefix compares the elements of the shorter sequence. *)
LEMMA PrefixByElements ==
    ASSUME NEW S, NEW s \in Seq(S), NEW t \in Seq(S)
    PROVE  IsPrefix(s, t) <=>
             Len(s) <= Len(t) /\ \A i \in 1 .. Len(s) : s[i] = t[i]
<1>0. Len(s) \in Nat /\ Len(t) \in Nat
  BY LenProperties
<1>1. SubSeq(s, 1, Len(s)) \in Seq(S) /\ Len(SubSeq(s, 1, Len(s))) = Len(s)
      /\ \A i \in 1 .. Len(s) : SubSeq(s, 1, Len(s))[i] = s[i]
  BY <1>0, SubSeqProperties
<1>2. ASSUME Len(s) <= Len(t)
      PROVE  /\ SubSeq(t, 1, Len(s)) \in Seq(S) /\ Len(SubSeq(t, 1, Len(s))) = Len(s)
             /\ \A i \in 1 .. Len(s) : SubSeq(t, 1, Len(s))[i] = t[i]
  BY <1>0, <1>2, SubSeqProperties
<1>3. ASSUME Len(s) <= Len(t), \A i \in 1 .. Len(s) : s[i] = t[i]
      PROVE  SubSeq(s, 1, Len(s)) = SubSeq(t, 1, Len(s))
  BY <1>1, <1>2, <1>3, SeqEqual
<1>4. QED
  BY <1>1, <1>2, <1>3 DEF IsPrefix

(* The elements of a sequence are those at its positions. *)
LEMMA InRange ==
    ASSUME NEW S, NEW s \in Seq(S)
    PROVE  /\ DOMAIN s = 1 .. Len(s) /\ Len(s) \in Nat
           /\ \A x : x \in Range(s) <=> \E i \in 1 .. Len(s) : x = s[i]
  BY LenProperties DEF Range

(* What an announcement leaves of the peers of an info hash: they stay in  *)
(* their order, and the new peer comes last unless it is there.            *)
LEMMA AddPeerLemma ==
    ASSUME NEW s \in Seq(Sock), IsInjective(s), NEW sock \in Sock
    PROVE  LET r == AddPeer(s, sock)
           IN  /\ r \in Seq(Sock) /\ IsInjective(r)
               /\ Len(s) <= Len(r) /\ \A i \in 1 .. Len(s) : r[i] = s[i]
               /\ Range(r) \subseteq Range(s) \cup {sock}
<1> DEFINE r == AddPeer(s, sock)
<1>1. /\ DOMAIN s = 1 .. Len(s) /\ Len(s) \in Nat
      /\ \A x : x \in Range(s) <=> \E i \in 1 .. Len(s) : x = s[i]
  BY InRange
<1>2. CASE sock \in Range(s)
  BY <1>1, <1>2 DEF AddPeer
<1>3. CASE sock \notin Range(s)
  <2>1. r = Append(s, sock)
    BY <1>3 DEF AddPeer
  <2>2. /\ r \in Seq(Sock) /\ Len(r) = Len(s) + 1
        /\ \A i \in 1 .. Len(s) : r[i] = s[i]
        /\ r[Len(s) + 1] = sock
    BY <2>1, AppendProperties
  <2> HIDE DEF r
  <2>3. /\ DOMAIN r = 1 .. (Len(s) + 1)
        /\ \A x : x \in Range(r) <=> \E i \in 1 .. (Len(s) + 1) : x = r[i]
    BY <2>2, InRange
  <2>4. ASSUME NEW a \in DOMAIN r, NEW b \in DOMAIN r, r[a] = r[b]
        PROVE  a = b
    <3>1. CASE a \in 1 .. Len(s) /\ b \in 1 .. Len(s)
      BY <1>1, <2>2, <2>4, <3>1 DEF IsInjective
    <3>2. CASE a = Len(s) + 1 \/ b = Len(s) + 1
      BY <1>1, <1>3, <2>2, <2>3, <2>4, <3>2
    <3>3. QED
      BY <1>1, <2>3, <3>1, <3>2
  <2>5. Range(r) \subseteq Range(s) \cup {sock}
    BY <1>1, <2>2, <2>3
  <2>6. QED
    BY <1>1, <2>2, <2>4, <2>5 DEF IsInjective, r
<1>4. QED
  BY <1>2, <1>3

-----------------------------------------------------------------------------
(* The store *)

(* By the clock no less time has passed since a token was handed out than  *)
(* really has, unless the clock was set back.                              *)
ClockOK == \A t \in tokens \ setback : time - t.at <= now - t.ts

(* The invariants together are inductive: a restart makes the disk the     *)
(* store, and that its peers are distinct follows from its being an        *)
(* initial part of the store before.                                       *)
SInv == STypeOK /\ StoreIntact /\ ClockOK

(* The store of a node that starts is empty. *)
LEMMA InitSInv == SInit => SInv
<1> SUFFICES ASSUME SInit PROVE SInv
  OBVIOUS
<1>1. STypeOK
  BY BoundAssumption DEF SInit, STypeOK
<1>2. ASSUME NEW h \in Hash
      PROVE  IsInjective(peers[h]) /\ IsPrefix(disk[h], peers[h])
  <2>1. peers[h] = <<>> /\ disk[h] = <<>> /\ <<>> \in Seq(Sock)
    BY DEF SInit
  <2>2. IsPrefix(<<>>, <<>>)
    BY DEF IsPrefix
  <2>3. QED
    BY <2>1, <2>2 DEF IsInjective
<1>3. ClockOK
  BY DEF SInit, ClockOK
<1>4. QED
  BY <1>1, <1>2, <1>3 DEF SInv, StoreIntact

(* A handler that leaves the store alone; its answer is one of the known.  *)
LEMMA QuietStep ==
    ASSUME SInv, UNCHANGED <<time, now, key, peers, disk, setback>>,
           tokens \subseteq tokens', tokens' \subseteq Token,
           \A t \in tokens' \ tokens : t.ts = now /\ t.at = time,
           router' \subseteq {o \in Origin : o.id # MyId},
           reply' \in {"none", "Ok", "KNearest", "Peers", "Samples",
                       "Echo", "Server", "Protocol", "InvalidNodeId", "MethodUnknown"}
    PROVE  SInv'
<1>1. STypeOK' /\ StoreIntact'
  BY DEF SInv, STypeOK, StoreIntact
<1>2. time \in Int /\ now \in Int
  BY DEF SInv, STypeOK
<1>3. ClockOK'
  BY <1>2 DEF SInv, ClockOK
<1>4. QED
  BY <1>1, <1>3 DEF SInv

(* The start of handle_query hands on nobody with our own id. *)
LEMMA NotEchoRouter ==
    ASSUME SInv, NEW o \in Origin, NEW ro \in BOOLEAN, NotEcho(o, ro)
    PROVE  router' \subseteq {x \in Origin : x.id # MyId}
  BY DEF SInv, STypeOK, NotEcho

(* get_peers hands out a token of the known kind. *)
LEMMA GetPeersStep ==
    ASSUME SInv, NEW o \in Origin, NEW ro \in BOOLEAN, NEW h \in Hash,
           HandleGetPeers(o, ro, h)
    PROVE  SInv'
<1>1. /\ Generate(o.ip) \in Token
      /\ Generate(o.ip).ts = now /\ Generate(o.ip).at = time
  BY DEF SInv, STypeOK, Generate, Token, Ip
<1>2. QED
  BY <1>1, QuietStep, NotEchoRouter DEF HandleGetPeers, SInv, STypeOK

(* announce_peer appends to the peers of one info hash, or to none. *)
LEMMA AnnounceStep ==
    ASSUME SInv, NEW o \in Origin, NEW ro \in BOOLEAN, NEW h \in Hash, NEW p \in Port,
           NEW t \in tokens, HandleAnnounce(o, ro, h, p, t)
    PROVE  /\ SInv'
           /\ \A g \in Hash : \A s \in Range(peers'[g]) \ Range(peers[g]) :
                 g = h /\ s.ip = o.ip /\ Validate(t, o.ip)
<1>0. router' \subseteq {x \in Origin : x.id # MyId}
  BY NotEchoRouter DEF HandleAnnounce
<1>1. CASE peers' = peers
  <2>1. SInv'
    BY <1>0, <1>1, QuietStep DEF HandleAnnounce, SInv, STypeOK
  <2>2. QED
    BY <1>1, <2>1
<1>2. CASE /\ Validate(t, o.ip) /\ reply' = "Ok"
           /\ peers' = [peers EXCEPT ![h] = AddPeer(@, [ip |-> o.ip, port |-> p])]
  <2> DEFINE sock == [ip |-> o.ip, port |-> p]
             r == AddPeer(peers[h], sock)
  <2>1. sock \in Sock /\ sock.ip = o.ip
    BY DEF Sock, Ip
  <2> HIDE DEF sock
  <2>2. /\ peers \in [Hash -> Seq(Sock)] /\ disk \in [Hash -> Seq(Sock)]
        /\ \A g \in Hash : IsInjective(peers[g]) /\ IsPrefix(disk[g], peers[g])
    BY DEF SInv, STypeOK, StoreIntact
  <2>3. /\ r \in Seq(Sock) /\ IsInjective(r)
        /\ Len(peers[h]) <= Len(r) /\ \A i \in 1 .. Len(peers[h]) : r[i] = peers[h][i]
        /\ Range(r) \subseteq Range(peers[h]) \cup {sock}
    BY <2>1, <2>2, AddPeerLemma
  <2>4. /\ peers' \in [Hash -> Seq(Sock)]
        /\ \A g \in Hash : peers'[g] = IF g = h THEN r ELSE peers[g]
    BY <1>2, <2>2, <2>3 DEF sock
  <2> HIDE DEF r
  <2>5. UNCHANGED <<time, now, key, disk, tokens, setback>>
    BY DEF HandleAnnounce
  <2>6. IsPrefix(disk[h], r)
    <3>1. /\ disk[h] \in Seq(Sock) /\ peers[h] \in Seq(Sock)
          /\ Len(disk[h]) \in Nat /\ Len(peers[h]) \in Nat /\ Len(r) \in Nat
      BY <2>2, <2>3, LenProperties
    <3>2. /\ Len(disk[h]) <= Len(peers[h])
          /\ \A i \in 1 .. Len(disk[h]) : disk[h][i] = peers[h][i]
      BY <2>2, <3>1, PrefixByElements
    <3>3. /\ Len(disk[h]) <= Len(r)
          /\ \A i \in 1 .. Len(disk[h]) : disk[h][i] = r[i]
      BY <2>3, <3>1, <3>2
    <3>4. QED
      BY <2>3, <3>1, <3>3, PrefixByElements
  <2>7. StoreIntact'
    BY <2>2, <2>3, <2>4, <2>5, <2>6 DEF StoreIntact
  <2>8. STypeOK'
    BY <1>0, <1>2, <2>4, <2>5 DEF SInv, STypeOK
  <2>9. ASSUME NEW g \in Hash, NEW s \in Range(peers'[g]) \ Range(peers[g])
        PROVE  g = h /\ s.ip = o.ip /\ Validate(t, o.ip)
    BY <1>2, <2>1, <2>3, <2>4, <2>9
  <2>10. ClockOK'
    BY <2>5 DEF SInv, ClockOK
  <2>11. QED
    BY <2>7, <2>8, <2>9, <2>10 DEF SInv
<1>3. QED
  BY <1>1, <1>2 DEF HandleAnnounce

(* sled writes the tree to disk. *)
LEMMA FlushStep ==
    ASSUME SInv, Flush
    PROVE  SInv'
<1>1. ASSUME NEW h \in Hash
      PROVE  IsPrefix(peers[h], peers[h])
  <2>1. peers[h] \in Seq(Sock)
    BY DEF SInv, STypeOK
  <2>2. QED
    BY <2>1, PrefixByElements, LenProperties
<1>2. QED
  BY <1>1 DEF Flush, SInv, STypeOK, StoreIntact, ClockOK

(* After a crash the store is what was flushed: nothing that was not there. *)
LEMMA RestartStep ==
    ASSUME SInv, Restart
    PROVE  SInv' /\ \A h \in Hash : Range(peers'[h]) \subseteq Range(peers[h])
<1>1. ASSUME NEW h \in Hash
      PROVE  /\ IsInjective(disk[h]) /\ IsPrefix(disk[h], disk[h])
             /\ Range(disk[h]) \subseteq Range(peers[h])
  <2>1. /\ peers[h] \in Seq(Sock) /\ disk[h] \in Seq(Sock)
        /\ IsInjective(peers[h]) /\ IsPrefix(disk[h], peers[h])
    BY DEF SInv, STypeOK, StoreIntact
  <2>2. /\ Len(disk[h]) <= Len(peers[h]) /\ Len(disk[h]) \in Nat /\ Len(peers[h]) \in Nat
        /\ \A i \in 1 .. Len(disk[h]) : disk[h][i] = peers[h][i]
    BY <2>1, PrefixByElements, LenProperties
  <2>3. /\ DOMAIN disk[h] = 1 .. Len(disk[h]) /\ DOMAIN peers[h] = 1 .. Len(peers[h])
        /\ \A x : x \in Range(disk[h]) <=> \E i \in 1 .. Len(disk[h]) : x = disk[h][i]
        /\ \A x : x \in Range(peers[h]) <=> \E i \in 1 .. Len(peers[h]) : x = peers[h][i]
    BY <2>1, InRange
  <2>4. IsInjective(disk[h])
    BY <2>1, <2>2, <2>3 DEF IsInjective
  <2>5. IsPrefix(disk[h], disk[h])
    BY <2>1, <2>2, PrefixByElements
  <2>6. QED
    BY <2>2, <2>3, <2>4, <2>5
<1>2. peers' = disk /\ disk' = disk
  BY DEF Restart
<1>3. STypeOK' /\ ClockOK'
  BY BoundAssumption DEF Restart, SInv, STypeOK, ClockOK
<1>4. QED
  BY <1>1, <1>2, <1>3 DEF SInv, StoreIntact

(* Time passes, and the clock with it, or the clock is set: if it is set   *)
(* back, for all the tokens so far.                                        *)
LEMMA ClockStep ==
    ASSUME SInv, Tick \/ \E t \in 0 .. MaxTime : SetClock(t)
    PROVE  SInv'
<1>0. /\ UNCHANGED <<key, peers, disk, tokens, router, reply>>
      /\ time' \in 0 .. MaxTime /\ now' \in 0 .. MaxTime /\ setback' \subseteq tokens
  <2>1. CASE Tick
    BY <2>1, BoundAssumption DEF Tick, SInv, STypeOK
  <2>2. CASE \E t \in 0 .. MaxTime : SetClock(t)
    BY <2>2 DEF SetClock, SInv, STypeOK
  <2>3. QED
    BY <2>1, <2>2
<1>1. STypeOK' /\ StoreIntact'
  BY <1>0 DEF SInv, STypeOK, StoreIntact
<1>2. time \in Int /\ now \in Int /\ \A t \in tokens : t.ts \in Int /\ t.at \in Int
  BY DEF SInv, STypeOK, Token
<1>3. ClockOK'
  <2> SUFFICES ASSUME NEW t \in tokens', t \notin setback'
               PROVE  time' - t.at <= now' - t.ts
    BY DEF ClockOK
  <2>1. t \in tokens /\ t \notin setback
    BY DEF Tick, SetClock, SInv, STypeOK
  <2>2. time - t.at <= now - t.ts
    BY <2>1 DEF SInv, ClockOK
  <2>3. CASE Tick
    BY <1>2, <2>1, <2>2, <2>3 DEF Tick
  <2>4. ASSUME NEW c \in 0 .. MaxTime, SetClock(c)
        PROVE  time' - t.at <= now' - t.ts
    <3>1. now' = c /\ ~(c < now) /\ time' = time
      BY <2>1, <2>4 DEF SetClock
    <3>2. QED
      BY <1>2, <2>1, <2>2, <3>1
  <2>5. QED
    BY <2>3, <2>4
<1>4. QED
  BY <1>1, <1>3 DEF SInv

-----------------------------------------------------------------------------
(* Theorems *)

(* A peer that is new in the store was announced with a valid token. *)
Authorised ==
    \A h \in Hash : \A s \in Range(peers'[h]) \ Range(peers[h]) :
        \E t \in tokens :
            /\ t.ip = s.ip /\ t.key = key
            /\ t.ts <= now /\ now - t.ts < TOKEN_VALID_SECONDS
            /\ t \in setback \/ time - t.at < TOKEN_VALID_SECONDS

(* Every step of the server keeps the invariant and the rule for tokens. *)
LEMMA NextSInv == SInv /\ [SNext]_svars => SInv' /\ (Authorised \/ UNCHANGED svars)
<1> SUFFICES ASSUME SInv, [SNext]_svars PROVE SInv' /\ (Authorised \/ UNCHANGED svars)
  OBVIOUS
<1>1. ASSUME NEW o \in Origin, NEW ro \in BOOLEAN,
             \/ HandleEcho(o) \/ HandlePing(o, ro) \/ HandleFindNode(o, ro)
             \/ HandleUnknown(o, ro) \/ HandleSample(o, ro) \/ HandleStoreError(o, ro)
      PROVE  SInv' /\ Authorised
  <2>1. UNCHANGED <<time, now, key, peers, disk, tokens, setback>>
    BY <1>1 DEF HandleEcho, HandlePing, HandleFindNode, HandleUnknown, HandleSample,
                HandleStoreError
  <2>2. router' \subseteq {x \in Origin : x.id # MyId}
    BY <1>1, NotEchoRouter DEF HandleEcho, HandlePing, HandleFindNode, HandleUnknown,
                HandleSample, HandleStoreError, SInv, STypeOK
  <2>3. SInv'
    BY <1>1, <2>1, <2>2, QuietStep DEF HandleEcho, HandlePing, HandleFindNode,
                HandleUnknown, HandleSample, HandleStoreError, SInv, STypeOK
  <2>4. QED
    BY <2>1, <2>3 DEF Authorised
<1>2. ASSUME NEW o \in Origin, NEW ro \in BOOLEAN, NEW h \in Hash, HandleGetPeers(o, ro, h)
      PROVE  SInv' /\ Authorised
  BY <1>2, GetPeersStep DEF HandleGetPeers, Authorised
<1>3. ASSUME NEW o \in Origin, NEW ro \in BOOLEAN, NEW h \in Hash, NEW p \in Port,
             NEW t \in tokens, HandleAnnounce(o, ro, h, p, t)
      PROVE  SInv' /\ Authorised
  <2>1. /\ SInv'
        /\ \A g \in Hash : \A s \in Range(peers'[g]) \ Range(peers[g]) :
              s.ip = o.ip /\ Validate(t, o.ip)
    BY <1>3, AnnounceStep
  <2>2. t.ts \in Nat /\ now \in Nat /\ t.at \in Nat /\ time \in Nat
    BY DEF SInv, STypeOK, Token
  <2>3. ASSUME Validate(t, o.ip)
        PROVE  /\ t.ip = o.ip /\ t.key = key
               /\ t.ts <= now /\ now - t.ts < TOKEN_VALID_SECONDS
               /\ t \in setback \/ time - t.at < TOKEN_VALID_SECONDS
    <3>1. /\ t.ip = o.ip /\ t.key = key
          /\ t.ts <= now /\ now - t.ts < TOKEN_VALID_SECONDS
      BY <2>2, <2>3, TokenAssumption DEF Validate
    <3>2. t \notin setback => time - t.at <= now - t.ts
      BY DEF SInv, ClockOK
    <3>3. QED
      BY <2>2, <3>1, <3>2, TokenAssumption
  <2>4. QED
    BY <2>1, <2>3 DEF Authorised
<1>4. CASE Tick \/ \E t \in 0 .. MaxTime : SetClock(t)
  <2>1. peers' = peers
    BY <1>4 DEF Tick, SetClock
  <2>2. QED
    BY <1>4, <2>1, ClockStep DEF Authorised
<1>5. CASE Flush
  BY <1>5, FlushStep DEF Flush, Authorised
<1>6. CASE Restart
  BY <1>6, RestartStep DEF Authorised
<1>7. CASE UNCHANGED svars
  BY <1>7 DEF svars, SInv, STypeOK, StoreIntact, ClockOK
<1>8. QED
  BY <1>1, <1>2, <1>3, <1>4, <1>5, <1>6, <1>7 DEF SNext

(* The invariant holds throughout. *)
LEMMA SInvAlways == SSpec => []SInv
  BY InitSInv, NextSInv, PTL DEF SSpec

(* No handler, crash or change of the clock produces an answer, a token or *)
(* a peer of another kind, and our own id never gets to router.add.        *)
THEOREM ServerTypeCorrect == SSpec => []STypeOK
  BY SInvAlways, PTL DEF SInv

(* fetch_and_update stores no peer twice, and a crash costs only what was  *)
(* announced since the last flush.                                         *)
THEOREM StoreCorrect == SSpec => []StoreIntact
  BY SInvAlways, PTL DEF SInv

(* handle_announce stores a peer only for a token that this run of the     *)
(* program gave to the same address within TOKEN_VALID_SECONDS, by the     *)
(* clock, and also really if the clock was not set back meanwhile.         *)
THEOREM AnnounceCorrect == SSpec => AnnounceAuthorised
<1>1. SInv /\ [SNext]_svars => [Authorised]_svars
  BY NextSInv
<1>2. QED
  BY SInvAlways, <1>1, PTL DEF SSpec, AnnounceAuthorised, Authorised

-----------------------------------------------------------------------------
(* The messages in which queries and answers travel: what Codec writes it  *)
(* reads back.                                                             *)

(* SocketAddrWrapper reads the address it wrote. *)
LEMMA AddrRound == ASSUME NEW a PROVE ReadAddr(AddrBytes(Some(a))) = Some(a)
  BY DEF ReadAddr, AddrBytes, Some, None, The

(* CompactIPv4NodeInfo reads the nodes it wrote, in their order. *)
LEMMA NodesRound ==
    ASSUME NEW ns, IsNodes(ns)
    PROVE  ReadNodes(NodesBytes(ns)) = ns
<1>1. ns = [i \in DOMAIN ns |-> ns[i]]
  BY DEF IsNodes, IsList
<1>2. ASSUME NEW i \in DOMAIN ns PROVE ReadNode(NodeBytes(ns[i])) = ns[i]
  <2>1. ns[i] = [id |-> ns[i].id, addr |-> ns[i].addr]
    BY DEF IsNodes, Range
  <2>2. QED
    BY <2>1, AddrRound DEF ReadNode, NodeBytes, ReadId, IdBytes, The, Some
<1>3. QED
  BY <1>1, <1>2 DEF ReadNodes, NodesBytes

(* from_kmsg reads from the arguments of a query the method that to_kmsg   *)
(* put there; the port is the one that was announced.                      *)
LEMMA MethodRound ==
    ASSUME NEW id, NEW from, NEW q, IsMethod(q)
    PROVE  FromArgs(q.m, ToArgs(id, q), from) = q /\ Decoded(q)
<1>1. CASE q.m \in {"ping", "get"} /\ q = [m |-> q.m]
  BY <1>1 DEF FromArgs, Decoded
<1>2. CASE q.m \in {"find_node", "sample_infohashes"} /\ q = [m |-> q.m, target |-> q.target]
  BY <1>2 DEF FromArgs, Decoded, ToArgs, NoArgs, IdBytes, ReadId, Some, None, The
<1>3. CASE q.m = "get_peers" /\ q = [m |-> q.m, info_hash |-> q.info_hash]
  BY <1>3 DEF FromArgs, Decoded, ToArgs, NoArgs, IdBytes, ReadId, Some, None, The
<1>4. CASE /\ q.m = "announce_peer"
           /\ q = [m |-> q.m, info_hash |-> q.info_hash, token |-> q.token, port |-> q.port]
  BY <1>4 DEF FromArgs, Decoded, ToArgs, NoArgs, IdBytes, ReadId, Some, None, The, PortOf
<1>5. CASE q.m = "put" /\ q = [m |-> q.m, v |-> q.v]
  BY <1>5 DEF FromArgs, Decoded, ToArgs, NoArgs
<1>6. QED
  BY <1>1, <1>2, <1>3, <1>4, <1>5 DEF IsMethod

(* Two functions that begin alike and never part first. *)
InStep(f, g, n) ==
    f[1] = g[1] /\ \A i \in 2 .. n : f[i - 1] = g[i - 1] => f[i] = g[i]

(* The first place where they differ would be one where they do. *)
LEMMA Stepwise ==
    ASSUME NEW n \in Nat, NEW f, NEW g, InStep(f, g, n)
    PROVE  \A i \in 1 .. n : f[i] = g[i]
<1> DEFINE S == {i \in 1 .. n : f[i] # g[i]}
           Below == {0 .. x : x \in S}
<1>1. SUFFICES ASSUME S # {} PROVE FALSE
  OBVIOUS
<1>2. Below \subseteq FiniteSubsetsOf(Nat) /\ Below # {}
  <2>1. \A x \in S : (0 .. x) \in SUBSET Nat /\ x \in Int
    OBVIOUS
  <2>2. \A x \in S : IsFiniteSet(0 .. x)
    BY <2>1, FS_Interval
  <2>3. QED
    BY <1>1, <2>1, <2>2 DEF FiniteSubsetsOf
<1> HIDE DEF Below
<1>3. PICK m \in Below : \A y \in Below : ~(<<y, m>> \in StrictSubsetOrdering(Nat))
  BY <1>2, FS_StrictSubsetOrderingWellFounded, WFMin
<1>4. PICK x \in S : m = 0 .. x
  BY DEF Below
<1>5. x \in 2 .. n /\ x - 1 \in 1 .. n
  BY <1>4 DEF InStep
<1>6. x - 1 \in S
  BY <1>4, <1>5 DEF InStep
<1>7. (0 .. (x - 1)) \in Below
  BY <1>6 DEF Below
<1>8. /\ (0 .. (x - 1)) \in SUBSET Nat /\ (0 .. x) \in SUBSET Nat
      /\ (0 .. (x - 1)) \subseteq (0 .. x) /\ (0 .. (x - 1)) # (0 .. x)
  <2>1. x \in 0 .. x /\ x \notin 0 .. (x - 1)
    BY <1>5
  <2>2. QED
    BY <1>5, <2>1
<1>9. <<0 .. (x - 1), m>> \in StrictSubsetOrdering(Nat)
  BY <1>4, <1>8 DEF StrictSubsetOrdering
<1>10. QED
  BY <1>3, <1>7, <1>9

(* filter_map of the addresses that are there: none is lost, and their     *)
(* order is kept. The recursion of FlattenSeq has the prefixes of s as its *)
(* values.                                                                 *)
LEMMA FlattenSingles ==
    ASSUME NEW s, IsList(s), NEW t, t = [i \in DOMAIN s |-> Some(s[i])]
    PROVE  FlattenSeq(t) = s
<1> DEFINE n == Len(s)
<1>1. s \in Seq(Range(s)) /\ n \in Nat /\ DOMAIN s = 1 .. n
  BY DEF IsList
<1>2. t \in Seq({Some(x) : x \in Range(s)}) /\ Len(t) = n
  BY <1>1 DEF Range
<1>3. CASE n = 0
  BY <1>1, <1>2, <1>3 DEF FlattenSeq
<1>4. CASE n > 0
  <2> DEFINE Step(f, i) == IF i = 1 THEN t[i] ELSE f[i - 1] \o t[i]
             g == CHOOSE f : f = [i \in 1 .. Len(t) |-> Step(f, i)]
             h == [i \in 1 .. n |-> SubSeq(s, 1, i)]
  <2>0. Len(t) # 0
    BY <1>2, <1>4
  <2>1. FlattenSeq(t) = g[Len(t)]
    BY <2>0, Zenon DEF FlattenSeq
  <2>2. \A i \in 1 .. n : h[i] = Step(h, i)
    <3> SUFFICES ASSUME NEW i \in 1 .. n PROVE h[i] = Step(h, i)
      OBVIOUS
    <3>1. t[i] = <<s[i]>> /\ h[i] = SubSeq(s, 1, i)
      BY <1>1 DEF Some
    <3>2. CASE i = 1
      BY <1>1, <3>1, <3>2
    <3>3. CASE i # 1
      <4>1. i - 1 \in 1 .. n /\ h[i - 1] = SubSeq(s, 1, i - 1)
        BY <1>1, <3>3
      <4>2. SubSeq(s, 1, i) = SubSeq(s, 1, i - 1) \o <<s[i]>>
        BY <1>1, <4>1
      <4>3. QED
        BY <3>1, <3>3, <4>1, <4>2
    <3>4. QED
      BY <3>2, <3>3
  <2>3. h = [i \in 1 .. n |-> Step(h, i)]
    <3>1. h = [i \in 1 .. n |-> h[i]]
      OBVIOUS
    <3> HIDE DEF h, Step
    <3>2. QED
      BY <2>2, <3>1
  <2>4. g = [i \in 1 .. n |-> Step(g, i)]
    <3> HIDE DEF h, Step
    <3>1. h = [i \in 1 .. Len(t) |-> Step(h, i)]
      BY <1>2, <2>3
    <3>2. g = [i \in 1 .. Len(t) |-> Step(g, i)]
      BY <3>1
    <3>3. QED
      BY <1>2, <3>2
  <2>5. \A i \in 1 .. n : g[i] = h[i]
    <3>1. \A i \in 1 .. n : g[i] = Step(g, i)
      <4> HIDE DEF g, Step
      <4>1. QED
        BY <2>4
    <3>2. \A i \in 2 .. n : g[i - 1] = h[i - 1] => g[i] = h[i]
      <4> HIDE DEF g, h
      <4>1. QED
        BY <1>1, <2>2, <3>1
    <3>3. g[1] = h[1]
      <4> HIDE DEF g, h
      <4>1. QED
        BY <1>1, <1>4, <2>2, <3>1
    <3>4. n \in Nat
      BY <1>1
    <3> HIDE DEF g, h, n
    <3>5. InStep(g, h, n)
      BY <3>2, <3>3 DEF InStep
    <3>6. QED
      BY <3>4, <3>5, Stepwise
  <2>6. h[n] = s
    BY <1>1, <1>4
  <2>7. QED
    <3> HIDE DEF g, h
    <3>1. n \in 1 .. n
      BY <1>1, <1>4
    <3>2. QED
      BY <1>2, <2>1, <2>5, <2>6, <3>1
<1>5. QED
  BY <1>1, <1>3, <1>4

(* CompactInfoHashes reads the hashes it wrote. *)
LEMMA HashesRound ==
    ASSUME NEW hs, IsList(hs)
    PROVE  ReadHashes(HashesBytes(hs)) = hs
<1>1. hs = [i \in DOMAIN hs |-> hs[i]]
  BY DEF IsList
<1>2. QED
  BY <1>1 DEF ReadHashes, HashesBytes, ReadId, IdBytes

(* A list of peers, empty or not, is read as it was written. *)
LEMMA PeersRound ==
    ASSUME NEW ps, IsList(ps), NEW vs, vs = [i \in DOMAIN ps |-> AddrBytes(Some(ps[i]))]
    PROVE  FlattenSeq([i \in DOMAIN vs |-> ReadAddr(vs[i])]) = ps
<1> DEFINE t == [i \in DOMAIN vs |-> ReadAddr(vs[i])]
<1>1. DOMAIN vs = DOMAIN ps
  OBVIOUS
<1>2. \A i \in DOMAIN ps : ReadAddr(vs[i]) = Some(ps[i])
  BY AddrRound
<1>3. t = [i \in DOMAIN ps |-> Some(ps[i])]
  BY <1>1, <1>2
<1> HIDE DEF t
<1>4. FlattenSeq(t) = ps
  BY <1>3, FlattenSingles
<1>5. QED
  BY <1>4 DEF t

(* The keys of a response tell its kind: none is read as another, empty    *)
(* lists included. Data has no handler.                                    *)
LEMMA KindRound ==
    ASSUME NEW id, NEW r, IsKind(r), r.kind # "Data"
    PROVE  FromResponse(ToResponse(id, r)) = r /\ Decoded(r)
<1>1. CASE r = [kind |-> "Ok"]
  BY <1>1 DEF FromResponse, ToResponse, NoResponse, Decoded, None
<1>2. CASE /\ r.kind = "KNearest" /\ IsNodes(r.nodes)
           /\ r = [kind |-> r.kind, nodes |-> r.nodes, token |-> r.token]
  <2>1. ReadNodes(NodesBytes(r.nodes)) = r.nodes
    BY <1>2, NodesRound
  <2> DEFINE k == ToResponse(id, r)
  <2>2. /\ k.values = None /\ k.v = None /\ k.samples = None
        /\ k.nodes = Some(NodesBytes(r.nodes)) /\ k.token = r.token
    BY <1>2 DEF ToResponse, NoResponse
  <2> HIDE DEF k
  <2>3. FromResponse(k) = [kind |-> "KNearest", nodes |-> ReadNodes(The(k.nodes)), token |-> k.token]
    BY <2>2 DEF FromResponse, Some, None
  <2>4. FromResponse(k) = r
    BY <1>2, <2>1, <2>2, <2>3 DEF Some, The
  <2>5. QED
    BY <1>2, <2>4 DEF k, Decoded
<1>3. CASE /\ r.kind = "Peers" /\ IsList(r.peers) /\ IsList(r.nodes)
           /\ \A ns \in Range(r.nodes) : IsNodes(ns)
           /\ r = [kind |-> r.kind, peers |-> r.peers, token |-> r.token, nodes |-> r.nodes]
  <2> DEFINE k == ToResponse(id, r)
             vs == [i \in DOMAIN r.peers |-> AddrBytes(Some(r.peers[i]))]
             ns == [i \in DOMAIN r.nodes |-> NodesBytes(r.nodes[i])]
             ps == FlattenSeq([i \in DOMAIN The(k.values) |-> ReadAddr(The(k.values)[i])])
             rs == [i \in DOMAIN k.nodes |-> ReadNodes(k.nodes[i])]
  <2>1. k.values = Some(vs) /\ k.token = Some(r.token) /\ k.nodes = ns
    BY <1>3 DEF ToResponse, NoResponse
  <2>2. rs = r.nodes
    <3>1. r.nodes = [i \in DOMAIN r.nodes |-> r.nodes[i]]
      BY <1>3 DEF IsList
    <3>2. \A i \in DOMAIN r.nodes : ReadNodes(NodesBytes(r.nodes[i])) = r.nodes[i]
      BY <1>3, NodesRound DEF Range
    <3> HIDE DEF k
    <3>3. QED
      BY <2>1, <3>1, <3>2
  <2>3. ps = r.peers
    <3> HIDE DEF k, vs
    <3>1. The(k.values) = vs
      BY <2>1 DEF The, Some
    <3>2. vs = [i \in DOMAIN r.peers |-> AddrBytes(Some(r.peers[i]))]
      BY DEF vs
    <3>3. FlattenSeq([i \in DOMAIN vs |-> ReadAddr(vs[i])]) = r.peers
      BY <1>3, <3>2, PeersRound
    <3>4. QED
      BY <3>1, <3>3
  <2>4. FromResponse(k) = [kind |-> "Peers", token |-> The(k.token), peers |-> ps, nodes |-> rs]
    <3> HIDE DEF k, vs
    <3>1. k.values # None /\ k.token # None
      BY <2>1 DEF Some, None
    <3>2. QED
      BY <3>1, Zenon DEF FromResponse
  <2> HIDE DEF k, ps, rs, vs, ns
  <2>5. FromResponse(k) = r
    BY <1>3, <2>1, <2>2, <2>3, <2>4 DEF Some, The
  <2>6. QED
    BY <1>3, <2>5 DEF k, Decoded
<1>4. CASE r.kind = "Samples" /\ IsNodes(r.nodes) /\ IsList(r.samples)
           /\ r = [kind |-> r.kind, nodes |-> r.nodes, samples |-> r.samples,
                   available |-> r.available, interval |-> r.interval]
  <2> DEFINE k == ToResponse(id, r)
  <2>1. ReadNodes(NodesBytes(r.nodes)) = r.nodes /\ ReadHashes(HashesBytes(r.samples)) = r.samples
    BY <1>4, NodesRound, HashesRound
  <2>2. /\ k.values = None /\ k.v = None /\ k.samples = Some(HashesBytes(r.samples))
        /\ k.nodes = Some(NodesBytes(r.nodes))
        /\ k.num = Some(r.available) /\ k.interval = Some(r.interval)
    BY <1>4 DEF ToResponse, NoResponse
  <2> HIDE DEF k
  <2>3. FromResponse(k) = [kind |-> "Samples", nodes |-> ReadNodes(The(k.nodes)),
                           samples |-> ReadHashes(The(k.samples)),
                           available |-> OrZero(k.num), interval |-> OrZero(k.interval)]
    BY <2>2 DEF FromResponse, Some, None
  <2>4. FromResponse(k) = r
    BY <1>4, <2>1, <2>2, <2>3 DEF Some, The, OrZero, None
  <2>5. QED
    BY <1>4, <2>4 DEF k, Decoded
<1>5. QED
  BY <1>1, <1>2, <1>3, <1>4 DEF IsKind

(* to_kmsg writes ids of 20 bytes and no implied_port. *)
LEMMA ArgsReadable ==
    ASSUME NEW id, NEW q, IsMethod(q)
    PROVE  LET a == ToArgs(id, q)
           IN  /\ a.id = IdBytes(id) /\ a.implied_port = None
               /\ a.target = None \/ a.target = Some(IdBytes(q.target))
               /\ a.info_hash = None \/ a.info_hash = Some(IdBytes(q.info_hash))
<1>1. CASE q.m \in {"ping", "get"}
  BY <1>1 DEF ToArgs, NoArgs
<1>2. CASE q.m \in {"find_node", "sample_infohashes"}
  BY <1>2 DEF ToArgs, NoArgs
<1>3. CASE q.m = "get_peers"
  BY <1>3 DEF ToArgs, NoArgs
<1>4. CASE q.m = "announce_peer"
  BY <1>4 DEF ToArgs, NoArgs
<1>5. CASE q.m = "put"
  BY <1>5 DEF ToArgs, NoArgs
<1>6. QED
  BY <1>1, <1>2, <1>3, <1>4, <1>5 DEF IsMethod

(* A query sent, and what is read of it. *)
LEMMA QueryRound ==
    ASSUME NEW p \in Party, NEW tid, NEW to, NEW q \in Method, NEW from,
           NEW k, k = ToKmsg(BuildQuery(p, tid, to, q)),
           NEW m, m = FromKmsg(from, k, MinId)
    PROVE  /\ Parses(k) /\ FromBody(from, k) = q /\ Decoded(q)
           /\ m.y = "q" /\ m.tid = tid /\ m.body = q /\ m.ro = p.ro
           /\ m.origin = [id |-> p.id, addr |-> from]
<1> DEFINE a == ToArgs(p.id, q)
<1>1. IsMethod(q) /\ p.ro \in BOOLEAN
  BY MethodAssumption, PartyAssumption
<1>2. /\ k.y = "q" /\ k.t = tid /\ k.ro = Some(IntFromBool(p.ro))
      /\ k.q = Some(q.m) /\ k.a = Some(a) /\ k.r = None
  BY DEF ToKmsg, BuildQuery
<1>3. a.id = IdBytes(p.id)
  BY <1>1, ArgsReadable
<1> HIDE DEF a
<1>4. Parses(k)
  <2>1. \A i \in AnyOf(k.ro) : BoolReadable(i)
    BY <1>2 DEF AnyOf, Some, IntFromBool, BoolReadable
  <2>2. \A b \in AnyOf(k.a) : b = a
    BY <1>2 DEF AnyOf, Some
  <2>3. \A b \in {a.id} \cup AnyOf(a.target) \cup AnyOf(a.info_hash) : IdReadable(b)
    <3>1. /\ a.target = None \/ a.target = Some(IdBytes(q.target))
          /\ a.info_hash = None \/ a.info_hash = Some(IdBytes(q.info_hash))
      BY <1>1, ArgsReadable DEF a
    <3>2. \A x : IdReadable(IdBytes(x))
      BY DEF IdReadable, IdBytes
    <3>3. \A b \in AnyOf(a.target) : b = IdBytes(q.target)
      BY <3>1 DEF AnyOf, Some, None
    <3>4. \A b \in AnyOf(a.info_hash) : b = IdBytes(q.info_hash)
      BY <3>1 DEF AnyOf, Some, None
    <3>5. QED
      BY <1>3, <3>2, <3>3, <3>4
  <2>4. AnyOf(a.implied_port) = {} /\ AnyOf(k.r) = {}
    BY <1>1, <1>2, ArgsReadable DEF a, AnyOf, None
  <2>5. QED
    BY <2>1, <2>2, <2>3, <2>4 DEF Parses
<1>5. FromBody(from, k) = q /\ Decoded(q)
  <2>1. FromArgs(q.m, a, from) = q /\ Decoded(q)
    BY <1>1, MethodRound DEF a
  <2>2. The(k.q) = q.m /\ The(k.a) = a /\ k.q # None /\ k.a # None
    BY <1>2 DEF The, Some, None
  <2>3. FromBody(from, k) = FromArgs(q.m, a, from)
    BY <1>2, <2>2 DEF FromBody
  <2>4. QED
    BY <2>1, <2>3
<1>6. FromId(k, MinId) = p.id
  BY <1>2, <1>3 DEF FromId, The, Some, None, ReadId, IdBytes
<1>7. (k.ro = Some(1)) <=> p.ro
  BY <1>1, <1>2 DEF Some, IntFromBool
<1>8. m.ro = p.ro
  BY <1>1, <1>7 DEF FromKmsg
<1>9. QED
  BY <1>2, <1>4, <1>5, <1>6, <1>8 DEF FromKmsg

(* A response or an error sent, and what is read of it. *)
LEMMA ReplyRound ==
    ASSUME NEW p, NEW tid, NEW to, NEW y, NEW body, NEW from,
           \/ y = "e" /\ \E c : body = Code(c)
           \/ y = "r" /\ IsKind(body) /\ body.kind # "Data" /\ \E a : AddrOf(to) = Some(a),
           NEW k, k = ToKmsg(Reply(p, tid, to, y, body)),
           NEW m, m = FromKmsg(from, k, MinId)
    PROVE  /\ Parses(k) /\ FromBody(from, k) = body /\ Decoded(body)
           /\ m.y = y /\ m.tid = tid /\ m.body = body /\ m.y # "q"
           /\ m.origin.addr = from
           /\ m.requestor = IF y = "r" THEN AddrOf(to) ELSE None
<1> DEFINE r == Reply(p, tid, to, y, body)
<1>1. /\ r.y = y /\ r.body = body /\ r.tid = tid
      /\ r.origin = [id |-> p.id, addr |-> p.me] /\ r.requestor = AddrOf(to) /\ r.ro = FALSE
  BY DEF Reply, ResponseBase
<1> HIDE DEF r
<1>2. k = ToKmsg(r)
  BY DEF r
<1>3. k.y = y /\ k.t = tid /\ k.ro = Some(0) /\ k.a = None
  BY <1>1, <1>2 DEF ToKmsg, IntFromBool
<1>4. \A i \in AnyOf(k.ro) : BoolReadable(i)
  BY <1>3 DEF AnyOf, Some, BoolReadable
<1>5. AnyOf(k.a) = {}
  BY <1>3 DEF AnyOf, None
<1>6. m.y = k.y /\ m.tid = k.t /\ m.body = FromBody(from, k) /\ m.origin.addr = from
  BY DEF FromKmsg
<1>7. CASE y = "e" /\ \E c : body = Code(c)
  <2>1. PICK c : body = Code(c)
    BY <1>7
  <2>2. k.e = Some(<<c>>) /\ k.r = None /\ k.ip = Some([len |-> 0])
    BY <1>1, <1>2, <1>7, <2>1 DEF ToKmsg, ErrorKey, ErrorList, Code, AddrBytes
  <2>3. FromBody(from, k) = body
    <3>1. k.e # None /\ The(k.e) = <<c>>
      BY <2>2 DEF Some, None, The
    <3>2. ReadError(<<c>>) = body
      BY <2>1 DEF ReadError, Code
    <3>3. QED
      BY <1>3, <1>7, <3>1, <3>2 DEF FromBody
  <2>4. Decoded(body)
    BY <2>1 DEF Decoded, Code
  <2>5. Parses(k)
    <3>1. AnyOf(k.r) = {}
      BY <2>2 DEF AnyOf, None
    <3>2. QED
      BY <1>4, <1>5, <3>1 DEF Parses
  <2>6. m.requestor = None
    BY <2>2 DEF FromKmsg, ReadAddr, The, Some, None
  <2>7. QED
    BY <1>3, <1>6, <1>7, <2>3, <2>4, <2>5, <2>6
<1>8. CASE y = "r" /\ IsKind(body) /\ body.kind # "Data" /\ \E a : AddrOf(to) = Some(a)
  <2>1. PICK a : AddrOf(to) = Some(a)
    BY <1>8
  <2>2. k.r = Some(ToResponse(p.id, body)) /\ k.ip = Some(AddrBytes(Some(a)))
    BY <1>1, <1>2, <1>8, <2>1 DEF ToKmsg
  <2>3. FromBody(from, k) = body /\ Decoded(body)
    <3>1. k.r # None /\ The(k.r) = ToResponse(p.id, body)
      BY <2>2 DEF Some, None, The
    <3>2. FromBody(from, k) = FromResponse(ToResponse(p.id, body))
      BY <1>3, <1>8, <3>1 DEF FromBody
    <3>3. QED
      BY <1>8, <3>2, KindRound
  <2>4. Parses(k)
    <3>1. ToResponse(p.id, body).id = IdBytes(p.id)
      BY <1>8 DEF IsKind, ToResponse, NoResponse
    <3>2. \A b \in AnyOf(k.r) : IdReadable(b.id)
      BY <2>2, <3>1 DEF AnyOf, Some, IdReadable, IdBytes
    <3>3. QED
      BY <1>4, <1>5, <3>2 DEF Parses
  <2>5. m.requestor = AddrOf(to)
    <3>1. k.ip # None /\ The(k.ip) = AddrBytes(Some(a))
      BY <2>2 DEF Some, None, The
    <3>2. QED
      BY <2>1, <3>1, AddrRound DEF FromKmsg
  <2>6. QED
    BY <1>3, <1>6, <1>8, <2>3, <2>4, <2>5
<1>9. QED
  BY <1>7, <1>8

-----------------------------------------------------------------------------
(* Where queries are sent. *)
Receivers == {QueryTo(o, q) : o \in Party, q \in Method}

(* What build_query makes. *)
SentQuery ==
    {BuildQuery(p, i, to, q) : p \in Party, i \in Nat, to \in Receivers, q \in Method}

(* The history of queries, each under its number. *)
SentOK ==
    /\ sent \in Seq([by : Party, query : SentQuery])
    /\ \A i \in DOMAIN sent : \E q \in Method, to \in Receivers :
          sent[i].query = BuildQuery(sent[i].by, i, to, q)

(* The message m is a query that was sent, as its sender made it. *)
Asked(m) ==
    \E i \in DOMAIN sent :
        /\ m.tid = i /\ m.body = sent[i].query.body /\ m.ro = sent[i].by.ro
        /\ m.origin = [id |-> sent[i].by.id, addr |-> sent[i].by.addr]

(* What handlers were given, if it is not from elsewhere, was asked, and   *)
(* they answered to it.                                                    *)
HandledOK ==
    \A h \in handled :
        /\ h[2] \in Party /\ ~h[2].ro /\ h[3] \in Answers(h[2], h[1])
        /\ h[1].origin.addr # Outsider => Asked(h[1])

(* The message m is the answer to a query that came from p. *)
Answered(p, m) ==
    \E h \in handled :
        /\ h[1].origin.addr = p.addr /\ h[1].tid = m.tid
        /\ h[3].y = m.y /\ h[3].body = m.body
        /\ m.requestor = IF m.y = "r" THEN Some(p.addr) ELSE None

(* What return_result is given, if it is not from elsewhere. *)
GotOK ==
    \A g \in got : g[1] \in Party /\ (g[2].origin.addr # Outsider => Answered(g[1], g[2]))

(* A packet of p is a query it sent, an answer that goes back to where the *)
(* query came from, or a protocol error for another implementation.        *)
IsQuery(p, x) == \E i \in DOMAIN sent : sent[i].by = p /\ x.k = ToKmsg(sent[i].query)

IsAnswer(p, x) ==
    \E h \in handled : h[2] = p /\ x.k = ToKmsg(h[3]) /\ x.to = h[1].origin.addr

IsComplaint(p, x) ==
    /\ x.to = Outsider
    /\ \E tid, e : x.k = ToKmsg(Reply(p, tid, ReceiverAddr(Outsider), "e", Code(e)))

Ours(x) ==
    \E p \in Party : x.from = p.addr /\ (IsQuery(p, x) \/ IsAnswer(p, x) \/ IsComplaint(p, x))

(* All that is on its way between nodes of this program. *)
NetOK == \A x \in net : x.from # Outsider => Ours(x)

XInv == SentOK /\ HandledOK /\ GotOK /\ NetOK

(* handle_query answers with a response that has a handler, or an error. *)
LEMMA AnswerForm ==
    ASSUME NEW p, NEW q, NEW r \in Answers(p, q)
    PROVE  \E y, body :
              /\ r = Reply(p, q.tid, ReceiverNode(q.origin), y, body)
              /\ r.y = y /\ r.body = body
              /\ \/ y = "e" /\ \E c : body = Code(c)
                 \/ y = "r" /\ IsKind(body) /\ body.kind # "Data"
<1> DEFINE to == ReceiverNode(q.origin)
           Form(y, body) == r = Reply(p, q.tid, to, y, body)
<1>1. \/ \E e : Form("e", Code(e))
      \/ \E s \in Kind : s.kind \in KindsFor(q.body) /\ Form("r", s)
  BY DEF Answers
<1>2. \A y, body : Form(y, body) => r.y = y /\ r.body = body
  BY DEF Reply, ResponseBase
<1>3. "Data" \notin KindsFor(q.body)
  BY DEF KindsFor
<1>4. \A s \in Kind : IsKind(s)
  BY KindAssumption
<1>5. CASE \E e : Form("e", Code(e))
  <2>1. PICK e : Form("e", Code(e))
    BY <1>5
  <2>2. r.y = "e" /\ r.body = Code(e)
    BY <1>2, <2>1
  <2>3. QED
    BY <2>1, <2>2
<1>6. CASE \E s \in Kind : s.kind \in KindsFor(q.body) /\ Form("r", s)
  <2>1. PICK s \in Kind : s.kind \in KindsFor(q.body) /\ Form("r", s)
    BY <1>6
  <2>2. r.y = "r" /\ r.body = s /\ IsKind(s) /\ s.kind # "Data"
    BY <1>2, <1>3, <1>4, <2>1
  <2>3. QED
    BY <2>1, <2>2
<1>7. QED
  BY <1>1, <1>5, <1>6

(* What is read of an answer. *)
LEMMA AnswerRound ==
    ASSUME NEW p, NEW q, NEW r \in Answers(p, q), NEW from, NEW k, k = ToKmsg(r),
           NEW m, m = FromKmsg(from, k, MinId)
    PROVE  /\ Parses(k) /\ Decoded(FromBody(from, k))
           /\ m.y = r.y /\ m.tid = q.tid /\ m.body = r.body /\ m.y # "q"
           /\ m.requestor = IF m.y = "r" THEN Some(q.origin.addr) ELSE None
<1> DEFINE to == ReceiverNode(q.origin)
<1>1. AddrOf(to) = Some(q.origin.addr)
  BY DEF AddrOf, ReceiverNode
<1>2. PICK y, body :
        /\ r = Reply(p, q.tid, to, y, body) /\ r.y = y /\ r.body = body
        /\ \/ y = "e" /\ \E c : body = Code(c)
           \/ y = "r" /\ IsKind(body) /\ body.kind # "Data"
  BY AnswerForm
<1>3. \/ y = "e" /\ \E c : body = Code(c)
      \/ y = "r" /\ IsKind(body) /\ body.kind # "Data" /\ \E a : AddrOf(to) = Some(a)
  BY <1>1, <1>2
<1>4. k = ToKmsg(Reply(p, q.tid, to, y, body))
  BY <1>2
<1> HIDE DEF to
<1>5. /\ Parses(k) /\ FromBody(from, k) = body /\ Decoded(body)
      /\ m.y = y /\ m.tid = q.tid /\ m.body = body /\ m.y # "q"
      /\ m.requestor = IF y = "r" THEN AddrOf(to) ELSE None
  BY <1>3, <1>4, ReplyRound
<1>6. QED
  BY <1>1, <1>2, <1>5

(* A packet says where it comes from and goes where its message does. *)
LEMMA PacketForm ==
    ASSUME NEW p, NEW m, NEW x \in Packet(p, m)
    PROVE  /\ x.from = p.addr /\ x.k = ToKmsg(m)
           /\ \A a : AddrOf(m.destination) = Some(a) => x.to = a
  BY DEF Packet, AnyOf, Some

(* A query in the history, taken apart. *)
LEMMA SentForm ==
    ASSUME SentOK, NEW i \in DOMAIN sent
    PROVE  /\ i \in Nat /\ sent[i].by \in Party
           /\ \E q \in Method, to \in Receivers :
                 /\ sent[i].query = BuildQuery(sent[i].by, i, to, q)
                 /\ sent[i].query.body = q
<1> DEFINE S == [by : Party, query : SentQuery]
<1>0. sent \in Seq(S)
  BY DEF SentOK
<1> HIDE DEF S
<1>1. i \in Nat /\ sent[i] \in S
  BY <1>0
<1>2. PICK q \in Method, to \in Receivers : sent[i].query = BuildQuery(sent[i].by, i, to, q)
  BY DEF SentOK
<1>3. sent[i].query.body = q
  BY <1>2 DEF BuildQuery
<1>4. QED
  BY <1>1, <1>2, <1>3 DEF S

(* What is read of a query in the history. *)
LEMMA SentRound ==
    ASSUME SentOK, NEW i \in DOMAIN sent, NEW x, x.k = ToKmsg(sent[i].query),
           NEW m, m = FromKmsg(x.from, x.k, MinId)
    PROVE  /\ Parses(x.k) /\ Decoded(FromBody(x.from, x.k))
           /\ m.y = "q" /\ m.tid = i /\ m.body = sent[i].query.body /\ m.ro = sent[i].by.ro
           /\ m.origin = [id |-> sent[i].by.id, addr |-> x.from]
<1>1. PICK q \in Method, to \in Receivers :
        sent[i].query = BuildQuery(sent[i].by, i, to, q) /\ sent[i].query.body = q
  BY SentForm
<1>2. sent[i].by \in Party
  BY SentForm
<1>3. x.k = ToKmsg(BuildQuery(sent[i].by, i, to, q))
  BY <1>1
<1>4. /\ Parses(x.k) /\ FromBody(x.from, x.k) = q /\ Decoded(q)
      /\ m.y = "q" /\ m.tid = i /\ m.body = q /\ m.ro = sent[i].by.ro
      /\ m.origin = [id |-> sent[i].by.id, addr |-> x.from]
  BY <1>2, <1>3, QueryRound
<1>5. QED
  BY <1>1, <1>4

(* What this program sends it can read. *)
LEMMA OursUnderstood ==
    ASSUME XInv, NEW x, Ours(x)
    PROVE  Parses(x.k) /\ Decoded(FromBody(x.from, x.k))
<1>1. PICK p \in Party : x.from = p.addr /\ (IsQuery(p, x) \/ IsAnswer(p, x) \/ IsComplaint(p, x))
  BY DEF Ours
<1>2. CASE IsQuery(p, x)
  <2>1. PICK i \in DOMAIN sent : sent[i].by = p /\ x.k = ToKmsg(sent[i].query)
    BY <1>2 DEF IsQuery
  <2>2. QED
    BY <2>1, SentRound DEF XInv
<1>3. CASE IsAnswer(p, x)
  <2>1. PICK h \in handled : h[2] = p /\ x.k = ToKmsg(h[3])
    BY <1>3 DEF IsAnswer
  <2>2. h[3] \in Answers(p, h[1])
    BY <2>1 DEF XInv, HandledOK
  <2>3. QED
    BY <2>1, <2>2, AnswerRound
<1>4. CASE IsComplaint(p, x)
  <2>1. PICK tid, e : x.k = ToKmsg(Reply(p, tid, ReceiverAddr(Outsider), "e", Code(e)))
    BY <1>4 DEF IsComplaint
  <2>2. QED
    BY <2>1, ReplyRound
<1>5. QED
  BY <1>1, <1>2, <1>3, <1>4

(* A query that arrives was sent: answers and errors are not queries. *)
LEMMA QueryReceived ==
    ASSUME XInv, NEW p \in Party, NEW x \in net, x.to = p.addr, x.from # Outsider,
           NEW m, m = FromKmsg(x.from, x.k, MinId), m.y = "q"
    PROVE  Asked(m)
<1>1. PICK o \in Party : x.from = o.addr /\ (IsQuery(o, x) \/ IsAnswer(o, x) \/ IsComplaint(o, x))
  BY DEF XInv, NetOK, Ours
<1>2. ~IsComplaint(o, x)
  BY PartyAssumption DEF IsComplaint
<1>3. ASSUME IsAnswer(o, x) PROVE FALSE
  <2>1. PICK h \in handled : h[2] = o /\ x.k = ToKmsg(h[3])
    BY <1>3 DEF IsAnswer
  <2>2. h[3] \in Answers(o, h[1])
    BY <2>1 DEF XInv, HandledOK
  <2>3. QED
    BY <2>1, <2>2, AnswerRound
<1>4. PICK i \in DOMAIN sent : sent[i].by = o /\ x.k = ToKmsg(sent[i].query)
  BY <1>1, <1>2, <1>3 DEF IsQuery
<1>5. QED
  BY <1>1, <1>4, SentRound DEF XInv, Asked

(* An answer that arrives was given by a handler to a query of the node it *)
(* arrives at.                                                             *)
LEMMA AnswerReceived ==
    ASSUME XInv, NEW p \in Party, NEW x \in net, x.to = p.addr, x.from # Outsider,
           NEW m, m = FromKmsg(x.from, x.k, MinId), m.y # "q"
    PROVE  Answered(p, m)
<1>1. PICK o \in Party : x.from = o.addr /\ (IsQuery(o, x) \/ IsAnswer(o, x) \/ IsComplaint(o, x))
  BY DEF XInv, NetOK, Ours
<1>2. ~IsComplaint(o, x)
  BY PartyAssumption DEF IsComplaint
<1>3. ASSUME IsQuery(o, x) PROVE FALSE
  <2>1. PICK i \in DOMAIN sent : sent[i].by = o /\ x.k = ToKmsg(sent[i].query)
    BY <1>3 DEF IsQuery
  <2>2. SentOK
    BY DEF XInv
  <2>3. PICK q \in Method, to \in Receivers : sent[i].query = BuildQuery(sent[i].by, i, to, q)
    BY <2>2 DEF SentOK
  <2>4. sent[i].query.y = "q"
    BY <2>3 DEF BuildQuery
  <2>5. QED
    BY <2>1, <2>4 DEF ToKmsg, FromKmsg
<1>4. PICK h \in handled : h[2] = o /\ x.k = ToKmsg(h[3]) /\ x.to = h[1].origin.addr
  BY <1>1, <1>2, <1>3 DEF IsAnswer
<1>5. h[3] \in Answers(o, h[1])
  BY <1>4 DEF XInv, HandledOK
<1>6. /\ m.y = h[3].y /\ m.tid = h[1].tid /\ m.body = h[3].body
      /\ m.requestor = IF m.y = "r" THEN Some(h[1].origin.addr) ELSE None
  BY <1>4, <1>5, AnswerRound
<1>7. QED
  BY <1>4, <1>6 DEF Answered

(* The histories only grow. *)
LEMMA AskedKept ==
    ASSUME NEW m, Asked(m), \A i \in DOMAIN sent : i \in DOMAIN sent' /\ sent'[i] = sent[i]
    PROVE  Asked(m)'
<1>1. PICK i \in DOMAIN sent :
        /\ m.tid = i /\ m.body = sent[i].query.body /\ m.ro = sent[i].by.ro
        /\ m.origin = [id |-> sent[i].by.id, addr |-> sent[i].by.addr]
  BY DEF Asked
<1>2. i \in DOMAIN sent' /\ sent'[i] = sent[i]
  OBVIOUS
<1>3. QED
  BY <1>1, <1>2 DEF Asked

LEMMA OursKept ==
    ASSUME NEW x, Ours(x), handled \subseteq handled',
           \A i \in DOMAIN sent : i \in DOMAIN sent' /\ sent'[i] = sent[i]
    PROVE  Ours(x)'
<1>1. \A p : IsQuery(p, x) => IsQuery(p, x)'
  BY DEF IsQuery
<1>2. \A p : IsAnswer(p, x) => IsAnswer(p, x)'
  BY DEF IsAnswer
<1>3. \A p : IsComplaint(p, x) => IsComplaint(p, x)'
  BY DEF IsComplaint
<1>4. QED
  BY <1>1, <1>2, <1>3 DEF Ours

LEMMA AnsweredKept ==
    ASSUME NEW p, NEW m, Answered(p, m), handled \subseteq handled'
    PROVE  Answered(p, m)'
  BY DEF Answered

(* Taking packets off the network does no harm. *)
LEMMA LessOnTheWay ==
    ASSUME XInv, net' \subseteq net, UNCHANGED <<sent, handled, got>>
    PROVE  XInv'
<1>1. SentOK'
  BY DEF XInv, SentOK
<1>2. HandledOK'
  BY DEF XInv, HandledOK, Asked
<1>3. GotOK'
  BY DEF XInv, GotOK, Answered
<1>4. NetOK'
  BY OursKept DEF XInv, NetOK
<1>5. QED
  BY <1>1, <1>2, <1>3, <1>4 DEF XInv

LEMMA AskXInv ==
    ASSUME XInv, NEW p \in Party, NEW o \in Party, NEW q \in Method, Ask(p, o, q)
    PROVE  XInv'
<1> DEFINE i == Len(sent) + 1
           to == QueryTo(o, q)
           m == BuildQuery(p, i, to, q)
           e == [by |-> p, query |-> m]
           S == [by : Party, query : SentQuery]
<1>1. sent' = Append(sent, e) /\ net' = net \cup Packet(p, m) /\ handled' = handled /\ got' = got
  BY DEF Ask
<1>2. sent \in Seq(S) /\ i \in Nat
  BY DEF XInv, SentOK
<1>3. to \in Receivers
  BY DEF Receivers
<1> HIDE DEF i, to
<1>4. e \in S
  BY <1>2, <1>3 DEF SentQuery
<1>5. m = BuildQuery(p, i, to, q)
  OBVIOUS
<1> HIDE DEF S, m
<1>6. /\ sent' \in Seq(S) /\ DOMAIN sent' = DOMAIN sent \cup {i} /\ sent'[i] = e
      /\ \A j \in DOMAIN sent : j \in DOMAIN sent' /\ sent'[j] = sent[j]
  BY <1>1, <1>2, <1>4 DEF i
<1>7. SentOK'
  <2>1. ASSUME NEW j \in DOMAIN sent'
        PROVE  \E r \in Method, a \in Receivers : sent'[j].query = BuildQuery(sent'[j].by, j, a, r)
    <3>1. CASE j = i
      BY <1>3, <1>5, <1>6, <3>1
    <3>2. CASE j \in DOMAIN sent
      BY <1>6, <3>2 DEF XInv, SentOK
    <3>3. QED
      BY <1>6, <3>1, <3>2
  <2>2. QED
    BY <1>6, <2>1 DEF SentOK, S
<1>8. HandledOK'
  BY <1>1, <1>6, AskedKept DEF XInv, HandledOK
<1>9. GotOK'
  BY <1>1, AnsweredKept DEF XInv, GotOK
<1>10. NetOK'
  <2> SUFFICES ASSUME NEW x \in net', x.from # Outsider PROVE Ours(x)'
    BY DEF NetOK
  <2>1. CASE x \in net
    BY <1>1, <1>6, <2>1, OursKept DEF XInv, NetOK
  <2>2. CASE x \in Packet(p, m)
    <3>1. x.from = p.addr /\ x.k = ToKmsg(m)
      BY <2>2, PacketForm
    <3>2. IsQuery(p, x)'
      BY <1>6, <3>1 DEF IsQuery
    <3>3. QED
      BY <3>1, <3>2 DEF Ours
  <2>3. QED
    BY <1>1, <2>1, <2>2
<1>11. QED
  BY <1>7, <1>8, <1>9, <1>10 DEF XInv

LEMMA HandleQueryXInv ==
    ASSUME XInv, NEW p \in Party, NEW x \in net, HandleQuery(p, x)
    PROVE  XInv'
<1> DEFINE m == FromKmsg(x.from, x.k, MinId)
<1>1. PICK r \in Answers(p, m) :
        net' = (net \ {x}) \cup Packet(p, r) /\ handled' = handled \cup {<<m, p, r>>}
  BY DEF HandleQuery
<1>2. /\ x.to = p.addr /\ m.y = "q" /\ ~p.ro /\ sent' = sent /\ got' = got
      /\ m.origin.addr = x.from
  BY DEF HandleQuery, Received, FromKmsg
<1>3. m = FromKmsg(x.from, x.k, MinId)
  OBVIOUS
<1> HIDE DEF m
<1>4. m.origin.addr # Outsider => Asked(m)
  BY <1>2, <1>3, QueryReceived
<1>5. handled \subseteq handled' /\ \A i \in DOMAIN sent : i \in DOMAIN sent' /\ sent'[i] = sent[i]
  BY <1>1, <1>2
<1>6. HandledOK'
  <2> SUFFICES ASSUME NEW h \in handled'
               PROVE  /\ h[2] \in Party /\ ~h[2].ro /\ h[3] \in Answers(h[2], h[1])
                      /\ h[1].origin.addr # Outsider => Asked(h[1])'
    BY DEF HandledOK
  <2>1. CASE h \in handled
    BY <1>5, <2>1, AskedKept DEF XInv, HandledOK
  <2>2. CASE h = <<m, p, r>>
    <3>1. h[1] = m /\ h[2] = p /\ h[3] = r
      BY <2>2
    <3>2. QED
      BY <1>2, <1>4, <1>5, <3>1, AskedKept
  <2>3. QED
    BY <1>1, <2>1, <2>2
<1>7. NetOK'
  <2> SUFFICES ASSUME NEW z \in net', z.from # Outsider PROVE Ours(z)'
    BY DEF NetOK
  <2>1. CASE z \in net
    BY <1>5, <2>1, OursKept DEF XInv, NetOK
  <2>2. CASE z \in Packet(p, r)
    <3>1. r.destination = ReceiverNode(m.origin)
      BY AnswerForm DEF Reply, ResponseBase
    <3>2. AddrOf(r.destination) = Some(m.origin.addr)
      BY <3>1 DEF AddrOf, ReceiverNode
    <3>3. z.from = p.addr /\ z.k = ToKmsg(r) /\ z.to = m.origin.addr
      BY <2>2, <3>2, PacketForm
    <3>4. PICK h \in handled' : h = <<m, p, r>>
      BY <1>1
    <3>5. h[1] = m /\ h[2] = p /\ h[3] = r
      BY <3>4
    <3>6. IsAnswer(p, z)'
      BY <3>3, <3>4, <3>5 DEF IsAnswer
    <3>7. QED
      BY <3>3, <3>6 DEF Ours
  <2>3. QED
    BY <1>1, <2>1, <2>2
<1>8. SentOK' /\ GotOK'
  BY <1>2, <1>5, AnsweredKept DEF XInv, SentOK, GotOK
<1>9. QED
  BY <1>6, <1>7, <1>8 DEF XInv

(* handle_error answers other implementations only. *)
LEMMA HandleErrorXInv ==
    ASSUME XInv, NEW p \in Party, NEW x \in net, HandleError(p, x)
    PROVE  XInv'
<1> DEFINE m == FromKmsg(x.from, x.k, MinId)
           r == Reply(p, m.tid, ReceiverAddr(x.from), "e", Code(m.body.err))
<1>1. /\ ~Decoded(FromBody(x.from, x.k)) /\ net' = (net \ {x}) \cup Packet(p, r)
      /\ UNCHANGED <<sent, handled, got>>
  BY DEF HandleError, FromKmsg
<1>2. x.from = Outsider
  BY <1>1, OursUnderstood DEF XInv, NetOK
<1>3. r = Reply(p, m.tid, ReceiverAddr(Outsider), "e", Code(m.body.err))
  BY <1>2
<1>4. r.destination = ReceiverAddr(Outsider)
  BY <1>2 DEF Reply, ResponseBase
<1>5. AddrOf(r.destination) = Some(Outsider)
  BY <1>4 DEF AddrOf, ReceiverAddr
<1> HIDE DEF m, r
<1>6. NetOK'
  <2> SUFFICES ASSUME NEW z \in net', z.from # Outsider PROVE Ours(z)'
    BY DEF NetOK
  <2>1. CASE z \in net
    BY <1>1, <2>1, OursKept DEF XInv, NetOK
  <2>2. CASE z \in Packet(p, r)
    <3>1. z.from = p.addr /\ z.k = ToKmsg(r) /\ z.to = Outsider
      BY <1>5, <2>2, PacketForm
    <3>2. IsComplaint(p, z)'
      BY <1>3, <3>1 DEF IsComplaint
    <3>3. QED
      BY <3>1, <3>2 DEF Ours
  <2>3. QED
    BY <1>1, <2>1, <2>2
<1>7. SentOK' /\ HandledOK' /\ GotOK'
  BY <1>1 DEF XInv, SentOK, HandledOK, Asked, GotOK, Answered
<1>8. QED
  BY <1>6, <1>7 DEF XInv

LEMMA ReturnResultXInv ==
    ASSUME XInv, NEW p \in Party, NEW x \in net, ReturnResult(p, x)
    PROVE  XInv'
<1> DEFINE m == FromKmsg(x.from, x.k, MinId)
<1>1. /\ x.to = p.addr /\ m.y # "q" /\ got' = got \cup {<<p, m>>} /\ net' = net \ {x}
      /\ UNCHANGED <<sent, handled>> /\ m.origin.addr = x.from
  BY DEF ReturnResult, Received, FromKmsg
<1>2. m = FromKmsg(x.from, x.k, MinId)
  OBVIOUS
<1> HIDE DEF m
<1>3. m.origin.addr # Outsider => Answered(p, m)
  BY <1>1, <1>2, AnswerReceived
<1>4. GotOK'
  <2> SUFFICES ASSUME NEW g \in got'
               PROVE  g[1] \in Party /\ (g[2].origin.addr # Outsider => Answered(g[1], g[2])')
    BY DEF GotOK
  <2>1. CASE g \in got
    BY <1>1, <2>1, AnsweredKept DEF XInv, GotOK
  <2>2. CASE g = <<p, m>>
    <3>1. g[1] = p /\ g[2] = m
      BY <2>2
    <3>2. QED
      BY <1>1, <1>3, <3>1, AnsweredKept
  <2>3. QED
    BY <1>1, <2>1, <2>2
<1>5. SentOK' /\ HandledOK'
  BY <1>1 DEF XInv, SentOK, HandledOK, Asked
<1>6. NetOK'
  BY <1>1, OursKept DEF XInv, NetOK
<1>7. QED
  BY <1>4, <1>5, <1>6 DEF XInv

LEMMA InitXInv == XInit => XInv
  BY DEF XInit, XInv, SentOK, HandledOK, GotOK, NetOK

LEMMA NextXInv == XInv /\ [XNext]_xvars => XInv'
<1> SUFFICES ASSUME XInv, [XNext]_xvars PROVE XInv'
  OBVIOUS
<1>1. CASE \E p, o \in Party, method \in Method : p # o /\ Ask(p, o, method)
  BY <1>1, AskXInv
<1>2. ASSUME NEW p \in Party, NEW k \in Foreign, Intrude(p, k) PROVE XInv'
  <2>1. /\ \A x \in net' : x \in net \/ x.from = Outsider
        /\ UNCHANGED <<sent, handled, got>>
    BY <1>2 DEF Intrude
  <2>2. NetOK'
    BY <2>1, OursKept DEF XInv, NetOK
  <2>3. QED
    BY <2>1, <2>2 DEF XInv, SentOK, HandledOK, Asked, GotOK, Answered
<1>3. ASSUME NEW x \in net, Lose(x) PROVE XInv'
  BY <1>3, LessOnTheWay DEF Lose
<1>4. ASSUME NEW p \in Party, NEW x \in net, Deliver(p, x) PROVE XInv'
  <2>1. CASE Unreadable(p, x)
    BY <2>1, LessOnTheWay DEF Unreadable
  <2>2. CASE Drop(p, x)
    BY <2>2, LessOnTheWay DEF Drop
  <2>3. QED
    BY <1>4, <2>1, <2>2, HandleQueryXInv, HandleErrorXInv, ReturnResultXInv DEF Deliver
<1>5. CASE UNCHANGED xvars
  BY <1>5, LessOnTheWay DEF xvars
<1>6. QED
  BY <1>1, <1>2, <1>3, <1>4, <1>5 DEF XNext

(* The invariant holds throughout. *)
LEMMA XInvAlways == XSpec => []XInv
  BY InitXInv, NextXInv, PTL DEF XSpec

(* handle_query gets what build_query made, argument for argument, under   *)
(* the address the packet came from, for every set of nodes and of         *)
(* well-formed queries, whatever other implementations send meanwhile.     *)
THEOREM RequestFaithfulCorrect == XSpec => []RequestFaithful
<1>1. XInv => RequestFaithful
  BY DEF XInv, HandledOK, Asked, RequestFaithful
<1>2. QED
  BY <1>1, XInvAlways, PTL

(* return_result gets what the handler answered, kind for kind, at the     *)
(* node that asked, with the tid of its query and the address its packets  *)
(* come from.                                                              *)
THEOREM ReplyFaithfulCorrect == XSpec => []ReplyFaithful
<1>1. XInv => ReplyFaithful
  <2> SUFFICES ASSUME XInv, NEW g \in got, g[2].origin.addr # Outsider
               PROVE  \E h \in handled :
                         /\ h[1].tid = g[2].tid /\ sent[g[2].tid].by = g[1]
                         /\ h[3].y = g[2].y /\ h[3].body = g[2].body
                         /\ g[2].requestor = IF g[2].y = "r" THEN Some(g[1].addr) ELSE None
    BY DEF ReplyFaithful
  <2>1. g[1] \in Party /\ Answered(g[1], g[2])
    BY DEF XInv, GotOK
  <2>2. PICK h \in handled :
          /\ h[1].origin.addr = g[1].addr /\ h[1].tid = g[2].tid
          /\ h[3].y = g[2].y /\ h[3].body = g[2].body
          /\ g[2].requestor = IF g[2].y = "r" THEN Some(g[1].addr) ELSE None
    BY <2>1 DEF Answered
  <2>3. Asked(h[1])
    BY <2>1, <2>2, PartyAssumption DEF XInv, HandledOK
  <2>4. PICK i \in DOMAIN sent : h[1].tid = i /\ h[1].origin.addr = sent[i].by.addr
    BY <2>3 DEF Asked
  <2>5. sent[i].by \in Party
    BY SentForm DEF XInv
  <2>6. sent[i].by = g[1]
    BY <2>1, <2>2, <2>4, <2>5, PartyAssumption
  <2>7. QED
    BY <2>2, <2>4, <2>6
<1>2. QED
  BY <1>1, XInvAlways, PTL

(* from_kmsg fails on nothing that to_kmsg made of a query or an answer. *)
THEOREM AllUnderstoodCorrect == XSpec => []AllUnderstood
<1>1. XInv => AllUnderstood
  BY OursUnderstood DEF XInv, NetOK, AllUnderstood
<1>2. QED
  BY <1>1, XInvAlways, PTL
=============================================================================
