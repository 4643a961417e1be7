---------------------------- MODULE E2eTrustProofs ----------------------------
(***************************************************************************)
(* The trust tables stay consistent for any number of keys, handles,       *)
(* channels and warnings.                                                  *)
(***************************************************************************)
EXTENDS E2eTrust, TLAPS

\* The loop of Only (see FoldFacts).
Keeps == INSTANCE FoldFacts WITH Op <- KeepOne

PeersType == [Fps -> [status : {"absent", "pending", "trusted"}, handle : Targets]]
SessionsType == [Handles -> [Channels -> [fp : Fps \cup {NoFp},
                                          status : {"none", "pending", "trusted", "revoked"},
                                          real : BOOLEAN]]]
RowsType  == [Handles -> [Channels -> Fps \cup {NoFp}]]

\* RowsBound, table by table.
SessionsBound ==
  \A h \in Handles, c \in Channels :
    sessions[h][c].fp # NoFp => peers[sessions[h][c].fp].handle = h
RecipientsBound ==
  \A h \in Handles, c \in Channels :
    recipients[h][c] # NoFp => peers[recipients[h][c]].handle = h
InboundBound ==
  \A h \in Handles, c \in Channels :
    inbound[h][c] # NoFp => peers[inbound[h][c]].handle = h

LEMMA RowsByTable == RowsBound <=> SessionsBound /\ RecipientsBound /\ InboundBound
  BY DEF RowsBound, SessionsBound, RecipientsBound, InboundBound

\* The two facts about recipients, row by row.
GivenTo(h, c) == recipients[h][c] # NoFp => recipients[h][c] \in holders[c]

RecipientsInv ==
  \A h \in Handles, c \in Channels :
    /\ outgoing[c] = "none" => recipients[h][c] = NoFp
    /\ outgoing[c] = "live" => GivenTo(h, c)

LEMMA RecipientsByRow == RecipientsInv <=> NoKeyNoRecipients /\ RecipientsCurrent
<1>1. RecipientsInv => NoKeyNoRecipients /\ RecipientsCurrent
  BY DEF RecipientsInv, GivenTo, NoKeyNoRecipients, RecipientsCurrent, RecipientsOn
<1>2. ASSUME NoKeyNoRecipients, RecipientsCurrent, NEW h \in Handles, NEW c \in Channels
      PROVE  /\ outgoing[c] = "none" => recipients[h][c] = NoFp
             /\ outgoing[c] = "live" => GivenTo(h, c)
  <2>1. recipients[h][c] # NoFp => recipients[h][c] \in RecipientsOn(c)
    BY DEF RecipientsOn
  <2> QED
    BY <1>2, <2>1 DEF GivenTo, NoKeyNoRecipients, RecipientsCurrent
<1> QED
  BY <1>1, <1>2 DEF RecipientsInv

\* A key that classify_peer_change finds nothing wrong with is written to the
\* peer table: no binding moves and no handle gets a second key.
LEMMA SafeBind ==
  ASSUME TrustInv, NEW f \in Fps, NEW h \in Handles, NEW st \in {"pending", "trusted"},
         ~IsMoved(f, h), ~IsChanged(f, h), peers' = Bind(f, h, st)
  PROVE  /\ peers' \in PeersType /\ AbsentUnbound' /\ OneKeyPerHandle'
         /\ peers'[f].handle = h
         /\ \A g \in Fps : peers[g].handle # NoHandle => peers'[g].handle = peers[g].handle
<1> USE NoneAssumption
<1>1. peers \in PeersType /\ AbsentUnbound /\ OneKeyPerHandle
  BY DEF TrustInv, TablesTypeOK, PeersType
<1>2. /\ peers' \in PeersType
      /\ peers'[f] = [status |-> st, handle |-> h]
      /\ \A g \in Fps \ {f} : peers'[g] = peers[g]
  BY <1>1 DEF Bind, PeersType, Targets
<1>3. peers[f].handle \in {h, NoHandle}
  BY <1>1 DEF IsMoved, Known, AbsentUnbound
<1>4. \A g \in Fps \ {f} : peers[g].handle # h
  BY <1>1 DEF IsMoved, IsChanged, Known, BoundAt, AbsentUnbound, OneKeyPerHandle
<1>5. AbsentUnbound'
  BY <1>1, <1>2 DEF AbsentUnbound, Known
<1>6. OneKeyPerHandle'
  BY <1>1, <1>2, <1>4 DEF OneKeyPerHandle
<1> QED
  BY <1>2, <1>3, <1>5, <1>6


\* A rotated key is sent to every recipient, because every recipient is bound
\* and therefore has a peer row.
LEMMA UseKeepsRecipients ==
  ASSUME TrustInv, NEW c \in Channels, NEW h \in Handles, recipients[h][c] # NoFp
  PROVE  recipients[h][c] \in HoldersAfterUse(c)
<1> USE NoneAssumption
<1>1. /\ peers \in PeersType /\ recipients \in RowsType
      /\ outgoing \in [Channels -> {"none", "live", "rotate"}]
  BY DEF TrustInv, TablesTypeOK, PeersType, RowsType
<1>2. RecipientsInv /\ RecipientsBound /\ AbsentUnbound
  BY RecipientsByRow, RowsByTable DEF TrustInv
<1>3. recipients[h][c] \in Fps /\ Known(recipients[h][c])
  BY <1>1, <1>2 DEF RowsType, RecipientsBound, AbsentUnbound
<1>4. recipients[h][c] \in RecipientsOn(c)
  BY DEF RecipientsOn
<1>5. CASE outgoing[c] = "live"
  BY <1>2, <1>5 DEF RecipientsInv, GivenTo, HoldersAfterUse
<1>6. CASE outgoing[c] = "rotate"
  BY <1>3, <1>4, <1>6 DEF HoldersAfterUse
<1>7. CASE outgoing[c] = "none"
  BY <1>2, <1>7 DEF RecipientsInv
<1> QED
  BY <1>1, <1>5, <1>6, <1>7

LEMMA HoldersType ==
  ASSUME TrustInv, NEW c \in Channels
  PROVE  HoldersAfterUse(c) \in SUBSET Fps
<1>1. recipients \in RowsType /\ holders[c] \in SUBSET Fps
  BY DEF TrustInv, TablesTypeOK, RowsType
<1>2. RecipientsOn(c) \in SUBSET Fps
  BY <1>1 DEF RecipientsOn, RowsType
<1> QED
  BY <1>1, <1>2 DEF HoldersAfterUse

\* Serving a KEYRSP leaves every recipient, the new one included, with the
\* live key.
LEMMA ServeKeepsRecipients ==
  ASSUME TrustInv, NEW f \in Fps, NEW h \in Handles, NEW c \in Channels, Serve(f, h, c)
  PROVE  /\ recipients' \in RowsType
         /\ outgoing' \in [Channels -> {"none", "live", "rotate"}]
         /\ holders' \in [Channels -> SUBSET Fps]
         /\ RecipientsInv'
         /\ \A k \in Handles, d \in Channels :
              recipients'[k][d] = recipients[k][d] \/ (k = h /\ recipients'[k][d] = f)
<1> USE NoneAssumption
<1>1. /\ recipients \in RowsType
      /\ outgoing \in [Channels -> {"none", "live", "rotate"}]
      /\ holders \in [Channels -> SUBSET Fps]
      /\ HoldersAfterUse(c) \in SUBSET Fps
  BY HoldersType DEF TrustInv, TablesTypeOK, RowsType
<1>2. RecipientsInv
  BY RecipientsByRow DEF TrustInv
<1>3. /\ recipients' \in RowsType
      /\ recipients'[h][c] = f
      /\ \A k \in Handles, d \in Channels :
           <<k, d>> # <<h, c>> => recipients'[k][d] = recipients[k][d]
  BY <1>1 DEF Serve, RowsType
<1>4. /\ outgoing' \in [Channels -> {"none", "live", "rotate"}]
      /\ outgoing'[c] = "live"
      /\ \A d \in Channels \ {c} : outgoing'[d] = outgoing[d]
  BY <1>1 DEF Serve
<1>5. /\ holders' \in [Channels -> SUBSET Fps]
      /\ holders'[c] = HoldersAfterUse(c) \cup {f}
      /\ \A d \in Channels \ {c} : holders'[d] = holders[d]
  BY <1>1 DEF Serve
<1>6. ASSUME NEW k \in Handles, NEW d \in Channels
      PROVE  /\ outgoing'[d] = "none" => recipients'[k][d] = NoFp
             /\ outgoing'[d] = "live" => GivenTo(k, d)'
  <2>1. CASE d = c
    BY <1>3, <1>4, <1>5, <2>1, UseKeepsRecipients DEF GivenTo
  <2>2. CASE d # c
    BY <1>2, <1>3, <1>4, <1>5, <2>2 DEF RecipientsInv, GivenTo
  <2> QED
    BY <2>1, <2>2
<1>7. RecipientsInv'
  BY <1>6 DEF RecipientsInv
<1> QED
  BY <1>3, <1>4, <1>5, <1>7

-----------------------------------------------------------------------------
\* What a step must establish.  `hs` are the handles it clears; a row at k is
\* fine when it is empty, is an old one at a handle that was not cleared, or is
\* about the key that is now bound to k.
RowFine(new, old, k, hs) ==
  new = NoFp \/ (k \notin hs /\ new = old) \/ peers'[new].handle = k

PeersFine(hs) ==
  /\ peers' \in PeersType /\ AbsentUnbound' /\ OneKeyPerHandle'
  /\ \A g \in Fps : peers[g].handle \notin hs \cup {NoHandle} => peers'[g].handle = peers[g].handle

SessionsFine(hs) ==
  /\ sessions' \in SessionsType
  /\ \A k \in Handles, d \in Channels : RowFine(sessions'[k][d].fp, sessions[k][d].fp, k, hs)

InboundFine(hs) ==
  /\ inbound' \in RowsType
  /\ \A k \in Handles, d \in Channels : RowFine(inbound'[k][d], inbound[k][d], k, hs)

RecipientsFine(hs) ==
  /\ recipients' \in RowsType
  /\ outgoing' \in [Channels -> {"none", "live", "rotate"}]
  /\ holders' \in [Channels -> SUBSET Fps]
  /\ RecipientsInv'
  /\ \A k \in Handles, d \in Channels : RowFine(recipients'[k][d], recipients[k][d], k, hs)

\* No bound key gets another handle.
BindingsStay ==
  \A g \in Fps : peers[g].handle # NoHandle => peers'[g].handle \in {NoHandle, peers[g].handle}

LEMMA FineStep ==
  ASSUME TrustInv, NEW hs, PeersFine(hs), SessionsFine(hs), InboundFine(hs), RecipientsFine(hs)
  PROVE  TrustInv' /\ (hs = {} => BindingsStay)
<1> USE NoneAssumption
<1>1. /\ sessions \in SessionsType /\ recipients \in RowsType /\ inbound \in RowsType
      /\ SessionsBound /\ RecipientsBound /\ InboundBound
  BY RowsByTable DEF TrustInv, TablesTypeOK, SessionsType, RowsType
<1>2. TablesTypeOK'
  BY DEF PeersFine, SessionsFine, InboundFine, RecipientsFine,
         TablesTypeOK, PeersType, SessionsType, RowsType
<1>3. ASSUME NEW k \in Handles, NEW old \in Fps \cup {NoFp}, NEW new \in Fps \cup {NoFp},
             old # NoFp => peers[old].handle = k,
             RowFine(new, old, k, hs), new # NoFp
      PROVE  peers'[new].handle = k
  BY <1>3 DEF RowFine, PeersFine
<1>4. SessionsBound'
  <2> SUFFICES ASSUME NEW k \in Handles, NEW d \in Channels, sessions'[k][d].fp # NoFp
               PROVE  peers'[sessions'[k][d].fp].handle = k
    BY DEF SessionsBound
  <2>1. sessions[k][d].fp \in Fps \cup {NoFp} /\ sessions'[k][d].fp \in Fps \cup {NoFp}
    BY <1>1 DEF SessionsFine, SessionsType
  <2> QED
    BY <1>1, <1>3, <2>1 DEF SessionsFine, SessionsBound
<1>5. InboundBound'
  <2> SUFFICES ASSUME NEW k \in Handles, NEW d \in Channels, inbound'[k][d] # NoFp
               PROVE  peers'[inbound'[k][d]].handle = k
    BY DEF InboundBound
  <2>1. inbound[k][d] \in Fps \cup {NoFp} /\ inbound'[k][d] \in Fps \cup {NoFp}
    BY <1>1 DEF InboundFine, RowsType
  <2> QED
    BY <1>1, <1>3, <2>1 DEF InboundFine, InboundBound
<1>6. RecipientsBound'
  <2> SUFFICES ASSUME NEW k \in Handles, NEW d \in Channels, recipients'[k][d] # NoFp
               PROVE  peers'[recipients'[k][d]].handle = k
    BY DEF RecipientsBound
  <2>1. recipients[k][d] \in Fps \cup {NoFp} /\ recipients'[k][d] \in Fps \cup {NoFp}
    BY <1>1 DEF RecipientsFine, RowsType
  <2> QED
    BY <1>1, <1>3, <2>1 DEF RecipientsFine, RecipientsBound
<1>7. RowsBound' <=> SessionsBound' /\ RecipientsBound' /\ InboundBound'
  BY DEF RowsBound, SessionsBound, RecipientsBound, InboundBound
<1>8. NoKeyNoRecipients' /\ RecipientsCurrent'
  BY DEF RecipientsFine, RecipientsInv, GivenTo, NoKeyNoRecipients, RecipientsCurrent, RecipientsOn
<1>9. hs = {} => BindingsStay
  BY DEF PeersFine, BindingsStay
<1> QED
  BY <1>2, <1>4, <1>5, <1>6, <1>7, <1>8, <1>9 DEF TrustInv, PeersFine

\* A table the step does not touch.
LEMMA SameSessions ==
  ASSUME TrustInv, UNCHANGED sessions PROVE SessionsFine({})
  BY DEF TrustInv, TablesTypeOK, SessionsType, SessionsFine, RowFine

LEMMA SameInbound ==
  ASSUME TrustInv, UNCHANGED inbound PROVE InboundFine({})
  BY DEF TrustInv, TablesTypeOK, RowsType, InboundFine, RowFine

LEMMA SamePeers ==
  ASSUME TrustInv, UNCHANGED peers PROVE PeersFine({})
  BY DEF TrustInv, TablesTypeOK, PeersType, PeersFine, AbsentUnbound, OneKeyPerHandle, Known

LEMMA SameRecipients ==
  ASSUME TrustInv, UNCHANGED <<recipients, outgoing, holders>> PROVE RecipientsFine({})
<1>1. RecipientsInv
  BY RecipientsByRow DEF TrustInv
<1>2. RecipientsInv'
  BY <1>1 DEF RecipientsInv, GivenTo
<1> QED
  BY <1>2 DEF TrustInv, TablesTypeOK, RowsType, RecipientsFine, RowFine

-----------------------------------------------------------------------------
\* Writing one session row about a key that is bound to the row's handle.
LEMMA InstallFine ==
  ASSUME TrustInv, NEW f \in Fps, NEW h \in Handles, NEW c \in Channels, peers'[f].handle = h,
         NEW st \in {"pending", "trusted"}, NEW real \in BOOLEAN,
         sessions' = Install(f, h, c, st, real)
  PROVE  SessionsFine({})
<1>1. sessions \in SessionsType
  BY DEF TrustInv, TablesTypeOK, SessionsType
<1>2. /\ sessions' \in SessionsType
      /\ sessions'[h][c].fp = f
      /\ \A k \in Handles, d \in Channels :
           <<k, d>> # <<h, c>> => sessions'[k][d] = sessions[k][d]
  BY <1>1 DEF Install, SessionsType
<1> QED
  BY <1>2 DEF SessionsFine, RowFine

LEMMA StatusOfRow ==
  ASSUME NEW A, NEW B, NEW C, NEW r \in [fp : A, status : B, real : C], NEW st \in B
  PROVE  [r EXCEPT !.status = st] \in [fp : A, status : B, real : C]
  OBVIOUS

\* Changing the status of a session row.
LEMMA SetStatusFine ==
  ASSUME TrustInv, NEW h \in Handles, NEW c \in Channels, NEW st \in {"trusted", "revoked"},
         sessions' = SetStatus(h, c, st)
  PROVE  SessionsFine({})
<1> DEFINE row == [sessions[h][c] EXCEPT !.status = st]
<1>1. sessions \in SessionsType
  BY DEF TrustInv, TablesTypeOK, SessionsType
<1>2. sessions' = [sessions EXCEPT ![h] = [sessions[h] EXCEPT ![c] = row]]
  BY <1>1 DEF SetStatus, SessionsType
<1>3. row.fp = sessions[h][c].fp
  BY <1>1 DEF SessionsType
<1>4. row \in [fp : Fps \cup {NoFp}, status : {"none", "pending", "trusted", "revoked"},
               real : BOOLEAN]
  <2>1. sessions[h][c] \in [fp : Fps \cup {NoFp},
                            status : {"none", "pending", "trusted", "revoked"}, real : BOOLEAN]
    BY <1>1 DEF SessionsType
  <2> QED
    BY <2>1, StatusOfRow
<1> HIDE DEF row
<1>5. /\ sessions' \in SessionsType
      /\ sessions'[h][c] = row
      /\ \A k \in Handles, d \in Channels :
           <<k, d>> # <<h, c>> => sessions'[k][d] = sessions[k][d]
  BY <1>1, <1>2, <1>4 DEF SessionsType
<1> QED
  BY <1>3, <1>5 DEF SessionsFine, RowFine

LEMMA DropInboundFine ==
  ASSUME TrustInv, NEW h \in Handles, NEW c \in Channels,
         inbound' = [inbound EXCEPT ![h][c] = NoFp]
  PROVE  InboundFine({})
<1>1. inbound \in RowsType
  BY DEF TrustInv, TablesTypeOK, RowsType
<1>2. /\ inbound' \in RowsType
      /\ inbound'[h][c] = NoFp
      /\ \A k \in Handles, d \in Channels :
           <<k, d>> # <<h, c>> => inbound'[k][d] = inbound[k][d]
  BY <1>1 DEF RowsType
<1> QED
  BY <1>2 DEF InboundFine, RowFine

LEMMA BindFine ==
  ASSUME TrustInv, NEW f \in Fps, NEW h \in Handles, NEW st \in {"pending", "trusted"},
         ~IsMoved(f, h), ~IsChanged(f, h), peers' = Bind(f, h, st)
  PROVE  PeersFine({}) /\ peers'[f].handle = h
  BY SafeBind DEF PeersFine

LEMMA ServeFine ==
  ASSUME TrustInv, NEW f \in Fps, NEW h \in Handles, NEW c \in Channels,
         Serve(f, h, c), peers'[f].handle = h
  PROVE  RecipientsFine({})
  BY ServeKeepsRecipients DEF RecipientsFine, RowFine

\* The standing a KEYREQ leaves a key with.
LEMMA KeyreqStanding ==
  ASSUME TrustInv, NEW f \in Fps
  PROVE  (IF Known(f) THEN peers[f].status ELSE "pending") \in {"pending", "trusted"}
  BY DEF TrustInv, TablesTypeOK, Known

-----------------------------------------------------------------------------
(* Handshake messages.                                                     *)

LEMMA KeyreqInv ==
  ASSUME TrustInv, NEW f \in Fps, NEW h \in Handles, NEW c \in Channels,
         \/ KeyreqServed(f, h, c) \/ KeyreqCached(f, h, c) \/ KeyreqDropped(f, h, c)
         \/ KeyreqRefused(f, h)
  PROVE  TrustInv' /\ BindingsStay
<1>1. CASE KeyreqServed(f, h, c)
  <2>1. PeersFine({}) /\ peers'[f].handle = h
    BY <1>1, BindFine, KeyreqStanding DEF KeyreqServed
  <2>2. RecipientsFine({})
    BY <1>1, <2>1, ServeFine DEF KeyreqServed
  <2> QED
    BY <1>1, <2>1, <2>2, SameSessions, SameInbound, FineStep DEF KeyreqServed
<1>2. CASE KeyreqCached(f, h, c)
  <2>1. PeersFine({}) /\ peers'[f].handle = h
    BY <1>2, BindFine, KeyreqStanding DEF KeyreqCached
  <2>2. SessionsFine({})
    BY <1>2, <2>1, InstallFine, SameSessions DEF KeyreqCached
  <2>3. InboundFine({})
    <3>1. inbound \in RowsType
      BY DEF TrustInv, TablesTypeOK, RowsType
    <3>2. /\ inbound' \in RowsType
          /\ inbound'[h][c] = f
          /\ \A k \in Handles, d \in Channels :
               <<k, d>> # <<h, c>> => inbound'[k][d] = inbound[k][d]
      BY <1>2, <3>1 DEF KeyreqCached, RowsType
    <3> QED
      BY <2>1, <3>2 DEF InboundFine, RowFine
  <2> QED
    BY <1>2, <2>1, <2>2, <2>3, SameRecipients, FineStep DEF KeyreqCached
<1>3. CASE KeyreqDropped(f, h, c)
  <2>1. PeersFine({})
    BY <1>3, BindFine, KeyreqStanding DEF KeyreqDropped
  <2> QED
    BY <1>3, <2>1, SameSessions, SameInbound, SameRecipients, FineStep DEF KeyreqDropped
<1>4. CASE KeyreqRefused(f, h)
  BY <1>4, SamePeers, SameSessions, SameInbound, SameRecipients, FineStep DEF KeyreqRefused, Refuse
<1> QED
  BY <1>1, <1>2, <1>3, <1>4

LEMMA KeyrspInv ==
  ASSUME TrustInv, NEW f \in Fps, NEW h \in Handles, NEW c \in Channels, NEW t \in Targets,
         Keyrsp(f, h, c, t)
  PROVE  TrustInv' /\ BindingsStay
<1>1. CASE Refuse(f, h)
  BY <1>1, SamePeers, SameSessions, SameInbound, SameRecipients, FineStep DEF Refuse
<1>2. CASE ~Refuse(f, h)
  <2>1. PeersFine({}) /\ peers'[f].handle = h
    BY <1>2, BindFine DEF Keyrsp
  <2>2. SessionsFine({})
    BY <1>2, <2>1, InstallFine, SameSessions DEF Keyrsp
  <2> QED
    BY <1>2, <2>1, <2>2, SameInbound, SameRecipients, FineStep DEF Keyrsp
<1> QED
  BY <1>1, <1>2

LEMMA RekeyInv ==
  ASSUME TrustInv, NEW f \in Fps, NEW h \in Handles, NEW c \in Channels, Rekey(f, h, c)
  PROVE  TrustInv' /\ BindingsStay
<1>1. PeersFine({}) /\ peers'[f].handle = h
  BY SamePeers DEF Rekey, IsMoved
<1>2. SessionsFine({})
  BY <1>1, InstallFine DEF Rekey
<1> QED
  BY <1>1, <1>2, SameInbound, SameRecipients, FineStep DEF Rekey

-----------------------------------------------------------------------------
(* Commands.                                                               *)

\* accept_pending_inbound does not classify the key again; it need not,
\* because a cached request is about the key its handle is bound to.
LEMMA AcceptInv ==
  ASSUME TrustInv, NEW h \in Handles, NEW c \in Channels, Accept(h, c)
  PROVE  TrustInv' /\ BindingsStay
<1> USE NoneAssumption
<1> DEFINE f == inbound[h][c]
<1>1. f \in Fps
  BY DEF Accept, TrustInv, TablesTypeOK
<1>2. peers[f].handle = h /\ Known(f)
  <2>1. InboundBound
    BY RowsByTable DEF TrustInv
  <2>2. peers[f].handle = h
    BY <2>1 DEF InboundBound, Accept
  <2> QED
    BY <1>1, <2>2 DEF TrustInv, AbsentUnbound
<1>3. ~IsMoved(f, h) /\ ~IsChanged(f, h)
  BY <1>2 DEF IsMoved, IsChanged
<1>4. peers' = Bind(f, h, "trusted") /\ Serve(f, h, c) /\ UNCHANGED sessions
      /\ inbound' = [inbound EXCEPT ![h][c] = NoFp]
  BY DEF Accept
<1> HIDE DEF f
<1>5. PeersFine({}) /\ peers'[f].handle = h
  BY <1>1, <1>3, <1>4, BindFine
<1>6. RecipientsFine({})
  BY <1>1, <1>4, <1>5, ServeFine
<1> QED
  BY <1>4, <1>5, <1>6, SameSessions, DropInboundFine, FineStep

LEMMA SessionCommandInv ==
  ASSUME TrustInv, NEW h \in Handles, NEW c \in Channels,
         AcceptSession(h, c) \/ Decline(h, c) \/ Unrevoke(h, c)
  PROVE  TrustInv' /\ BindingsStay
<1>1. SessionsFine({})
  BY SetStatusFine DEF AcceptSession, Decline, Unrevoke
<1> QED
  BY <1>1, SamePeers, SameInbound, SameRecipients, FineStep DEF AcceptSession, Decline, Unrevoke

\* Recipients while the live key is retired, or one of them dropped.
LEMMA RetireFine ==
  ASSUME TrustInv, NEW c \in Channels, Retire(c), recipients' \in RowsType,
         \A k \in Handles, d \in Channels : recipients'[k][d] \in {recipients[k][d], NoFp}
  PROVE  RecipientsFine({})
<1>1. /\ recipients \in RowsType
      /\ outgoing \in [Channels -> {"none", "live", "rotate"}]
      /\ holders \in [Channels -> SUBSET Fps]
      /\ RecipientsInv
  BY RecipientsByRow DEF TrustInv, TablesTypeOK, RowsType
<1>3. /\ outgoing' \in [Channels -> {"none", "live", "rotate"}]
      /\ outgoing'[c] # "live" /\ (outgoing'[c] = "none" => outgoing[c] = "none")
      /\ \A d \in Channels \ {c} : outgoing'[d] = outgoing[d]
  BY <1>1 DEF Retire
<1>4. /\ holders' \in [Channels -> SUBSET Fps]
      /\ \A d \in Channels \ {c} : holders'[d] = holders[d]
  BY <1>1 DEF Retire
<1>5. RecipientsInv'
  BY <1>1, <1>3, <1>4 DEF RecipientsInv, GivenTo
<1> QED
  BY <1>3, <1>4, <1>5 DEF RecipientsFine, RowFine

LEMMA RevokeInv ==
  ASSUME TrustInv, NEW h \in Handles, NEW c \in Channels, Revoke(h, c)
  PROVE  TrustInv' /\ BindingsStay
<1>1. SessionsFine({})
  BY SetStatusFine, SameSessions DEF Revoke
<1>2. /\ recipients' \in RowsType
      /\ \A k \in Handles, d \in Channels : recipients'[k][d] \in {recipients[k][d], NoFp}
  BY DEF Revoke, TrustInv, TablesTypeOK, RowsType
<1>3. RecipientsFine({})
  BY <1>2, RetireFine DEF Revoke
<1> QED
  BY <1>1, <1>3, SamePeers, SameInbound, FineStep DEF Revoke

LEMMA RotateInv ==
  ASSUME TrustInv, NEW c \in Channels, Rotate(c)
  PROVE  TrustInv' /\ BindingsStay
<1>1. RecipientsFine({})
  BY RetireFine DEF Rotate, TrustInv, TablesTypeOK, RowsType
<1> QED
  BY <1>1, SamePeers, SameSessions, SameInbound, FineStep DEF Rotate

\* A fresh key of ours, with no recipients or sent to all of them.
LEMMA EncryptInv ==
  ASSUME TrustInv, NEW c \in Channels, Encrypt(c)
  PROVE  TrustInv' /\ BindingsStay
<1>1. /\ recipients \in RowsType
      /\ outgoing \in [Channels -> {"none", "live", "rotate"}]
      /\ holders \in [Channels -> SUBSET Fps]
      /\ RecipientsInv /\ UNCHANGED recipients
  BY RecipientsByRow DEF TrustInv, TablesTypeOK, RowsType, Encrypt
<1>2. /\ outgoing' \in [Channels -> {"none", "live", "rotate"}]
      /\ outgoing'[c] = "live"
      /\ \A d \in Channels \ {c} : outgoing'[d] = outgoing[d]
  BY <1>1 DEF Encrypt
<1>3. /\ holders' \in [Channels -> SUBSET Fps]
      /\ holders'[c] = HoldersAfterUse(c)
      /\ \A d \in Channels \ {c} : holders'[d] = holders[d]
  BY <1>1, HoldersType DEF Encrypt
<1>4. ASSUME NEW k \in Handles, NEW d \in Channels
      PROVE  /\ outgoing'[d] = "none" => recipients'[k][d] = NoFp
             /\ outgoing'[d] = "live" => GivenTo(k, d)'
  <2>1. CASE d = c
    BY <1>1, <1>2, <1>3, <2>1, UseKeepsRecipients DEF GivenTo
  <2>2. CASE d # c
    BY <1>1, <1>2, <1>3, <2>2 DEF RecipientsInv, GivenTo
  <2> QED
    BY <2>1, <2>2
<1>5. RecipientsFine({})
  BY <1>1, <1>2, <1>3, <1>4 DEF RecipientsFine, RecipientsInv, RowFine
<1> QED
  BY <1>5, SamePeers, SameSessions, SameInbound, FineStep DEF Encrypt

\* Steps that leave the tables alone, or only drop cached requests.
LEMMA HousekeepingInv ==
  ASSUME TrustInv,
         UNCHANGED <<peers, sessions, recipients, outgoing, holders>>,
         inbound' \in RowsType,
         \A k \in Handles, d \in Channels : inbound'[k][d] \in {inbound[k][d], NoFp}
  PROVE  TrustInv' /\ BindingsStay
<1>1. InboundFine({})
  BY DEF InboundFine, RowFine
<1> QED
  BY <1>1, SamePeers, SameSessions, SameRecipients, FineStep

-----------------------------------------------------------------------------
(* /e2e forget and /e2e reverify.                                          *)

LEMMA ForgetOnChannelInv ==
  ASSUME TrustInv, NEW h \in Handles, NEW c \in Channels, ForgetOnChannel(h, c)
  PROVE  TrustInv' /\ BindingsStay
<1>1. sessions \in SessionsType /\ NoSession.fp = NoFp
  BY DEF TrustInv, TablesTypeOK, SessionsType, NoSession
<1>2. NoSession \in [fp : Fps \cup {NoFp}, status : {"none", "pending", "trusted", "revoked"},
                     real : BOOLEAN]
  BY DEF NoSession
<1>3. /\ sessions' \in SessionsType
      /\ sessions'[h][c] = NoSession
      /\ \A k \in Handles, d \in Channels :
           <<k, d>> # <<h, c>> => sessions'[k][d] = sessions[k][d]
  BY <1>1, <1>2 DEF ForgetOnChannel, SessionsType
<1>4. SessionsFine({})
  BY <1>1, <1>3 DEF SessionsFine, RowFine
<1> QED
  BY <1>4, SamePeers, SameRecipients, DropInboundFine, FineStep DEF ForgetOnChannel

\* A step that empties the handles `hs` may rebind keys that were bound there.
LEMMA ClearInv ==
  ASSUME TrustInv, NEW hs \in SUBSET Handles, ClearHandleState(hs), PeersFine(hs),
         UNCHANGED <<outgoing, holders>>
  PROVE  TrustInv'
<1>1. /\ sessions \in SessionsType /\ recipients \in RowsType /\ inbound \in RowsType
      /\ outgoing \in [Channels -> {"none", "live", "rotate"}]
      /\ holders \in [Channels -> SUBSET Fps]
      /\ RecipientsInv
  BY RecipientsByRow DEF TrustInv, TablesTypeOK, SessionsType, RowsType
<1>2. /\ NoSession.fp = NoFp
      /\ NoSession \in [fp : Fps \cup {NoFp},
                        status : {"none", "pending", "trusted", "revoked"}, real : BOOLEAN]
  BY DEF NoSession
<1>3. /\ sessions' \in SessionsType
      /\ \A k \in Handles, d \in Channels :
           sessions'[k][d] = IF k \in hs THEN NoSession ELSE sessions[k][d]
  BY <1>1, <1>2 DEF ClearHandleState, SessionsType
<1>4. /\ recipients' \in RowsType
      /\ \A k \in Handles, d \in Channels :
           recipients'[k][d] = IF k \in hs THEN NoFp ELSE recipients[k][d]
  BY <1>1 DEF ClearHandleState, RowsType
<1>5. /\ inbound' \in RowsType
      /\ \A k \in Handles, d \in Channels :
           inbound'[k][d] = IF k \in hs THEN NoFp ELSE inbound[k][d]
  BY <1>1 DEF ClearHandleState, RowsType
<1>6. SessionsFine(hs) /\ InboundFine(hs)
  BY <1>2, <1>3, <1>5 DEF SessionsFine, InboundFine, RowFine
<1>7. RecipientsInv'
  BY <1>1, <1>4 DEF RecipientsInv, GivenTo
<1>8. RecipientsFine(hs)
  BY <1>1, <1>4, <1>7 DEF RecipientsFine, RowFine
<1> QED
  BY <1>6, <1>8, FineStep

LEMMA DeletePeerFine ==
  ASSUME TrustInv, NEW h \in Handles, DeletePeerAt(h)
  PROVE  PeersFine({h}) /\ BindingsStay
<1> USE NoneAssumption
<1>1. peers \in PeersType /\ AbsentUnbound /\ OneKeyPerHandle
  BY DEF TrustInv, TablesTypeOK, PeersType
<1>2. CASE UNCHANGED peers
  BY <1>1, <1>2 DEF PeersFine, BindingsStay, AbsentUnbound, OneKeyPerHandle, Known
<1>3. ASSUME NEW f \in BoundAt(h), peers' = [peers EXCEPT ![f] = Absent]
      PROVE  PeersFine({h}) /\ BindingsStay
  <2>1. f \in Fps /\ peers[f].handle = h
    BY <1>3 DEF BoundAt
  <2>2. /\ peers' \in PeersType
        /\ peers'[f].status = "absent" /\ peers'[f].handle = NoHandle
        /\ \A g \in Fps \ {f} : peers'[g] = peers[g]
    BY <1>1, <1>3, <2>1 DEF PeersType, Absent, Targets
  <2> QED
    BY <1>1, <2>1, <2>2 DEF PeersFine, BindingsStay, AbsentUnbound, OneKeyPerHandle, Known
<1> QED
  BY <1>2, <1>3 DEF DeletePeerAt

LEMMA ForgetInv ==
  ASSUME TrustInv, NEW h \in Handles, ForgetEverywhere(h) \/ ReverifyPurge(h)
  PROVE  TrustInv' /\ BindingsStay
<1>1. PeersFine({h}) /\ BindingsStay
  BY DeletePeerFine DEF ForgetEverywhere, ReverifyPurge
<1>2. ClearHandleState({h}) /\ UNCHANGED <<outgoing, holders>>
  BY DEF ForgetEverywhere, ReverifyPurge
<1> QED
  BY <1>1, <1>2, ClearInv

\* A key takes the handle h; whoever else was there is detached.
LEMMA DetachedFine ==
  ASSUME TrustInv, NEW f \in Fps, NEW h \in Handles, NEW ps \in PeersType,
         ps[f].status # "absent", ps[f].handle = h,
         \A g \in Fps \ {f} : /\ ps[g].handle \in {peers[g].handle, NoHandle}
                              /\ peers[g].handle # h => ps[g].handle = peers[g].handle
                              /\ ps[g].status = "absent" => ps[g].handle = NoHandle,
         peers' = Detached(ps, f, h)
  PROVE  PeersFine(ReboundHandles(f, h))
<1> USE NoneAssumption
<1>1. peers \in PeersType /\ AbsentUnbound /\ OneKeyPerHandle
  BY DEF TrustInv, TablesTypeOK, PeersType
<1>2. /\ peers' \in PeersType
      /\ peers'[f] = ps[f]
      /\ \A g \in Fps \ {f} : /\ ps[g].handle = h => peers'[g].handle = NoHandle
                              /\ ps[g].handle # h => peers'[g] = ps[g]
  BY DEF Detached, PeersType, Targets
<1>3. AbsentUnbound'
  BY <1>2 DEF AbsentUnbound, Known
<1>4. \A g \in Fps \ {f} : peers'[g].handle \in {peers[g].handle, NoHandle} \ {h}
  BY <1>2
<1>5. OneKeyPerHandle'
  BY <1>1, <1>2, <1>4 DEF OneKeyPerHandle
<1>6. \A g \in Fps : peers[g].handle \notin ReboundHandles(f, h) \cup {NoHandle}
                     => peers'[g].handle = peers[g].handle
  BY <1>2 DEF ReboundHandles
<1> QED
  BY <1>2, <1>3, <1>5, <1>6 DEF PeersFine

LEMMA ReboundHandlesType ==
  ASSUME TrustInv, NEW f \in Fps, NEW h \in Handles
  PROVE  ReboundHandles(f, h) \in SUBSET Handles
  BY DEF TrustInv, TablesTypeOK, ReboundHandles, Targets

LEMMA ReverifyRebindInv ==
  ASSUME TrustInv, NEW target, NEW selector, NEW f \in Fps, NEW h \in Handles,
         ReverifyRebind(target, selector, f, h)
  PROVE  TrustInv'
<1> USE NoneAssumption
<1> DEFINE ps == [peers EXCEPT ![f].handle = h]
<1>1. /\ peers' = Detached(ps, f, h) /\ Known(f)
      /\ ClearHandleState(ReboundHandles(f, h)) /\ UNCHANGED <<outgoing, holders>>
  BY DEF ReverifyRebind
<1>2. peers \in PeersType /\ AbsentUnbound
  BY DEF TrustInv, TablesTypeOK, PeersType
<1>3. /\ ps \in PeersType
      /\ ps[f].status = peers[f].status /\ ps[f].handle = h
      /\ \A g \in Fps \ {f} : ps[g] = peers[g]
  BY <1>2 DEF PeersType, Targets
<1> HIDE DEF ps
<1>4. PeersFine(ReboundHandles(f, h))
  BY <1>1, <1>2, <1>3, DetachedFine DEF AbsentUnbound, Known
<1> QED
  BY <1>1, <1>4, ReboundHandlesType, ClearInv

LEMMA EvictFacts ==
  ASSUME TrustInv, NEW old, NEW h \in Handles
  PROVE  /\ Evict(old, h) \in PeersType
         /\ \A g \in Fps :
              /\ Evict(old, h)[g].handle \in {peers[g].handle, NoHandle}
              /\ peers[g].handle # h => Evict(old, h)[g].handle = peers[g].handle
              /\ Evict(old, h)[g].status = "absent" => Evict(old, h)[g].handle = NoHandle
<1> USE NoneAssumption
<1> DEFINE detached == [peers EXCEPT ![old].handle = NoHandle]
           deleted  == [peers EXCEPT ![old] = Absent]
<1>1. peers \in PeersType /\ AbsentUnbound
  BY DEF TrustInv, TablesTypeOK, PeersType
<1>2. CASE old \notin Fps \/ peers[old].handle # h
  BY <1>1, <1>2 DEF Evict, AbsentUnbound, Known
<1>3. CASE old \in Fps /\ peers[old].handle = h
  <2>1. Evict(old, h) \in {detached, deleted}
    BY <1>3 DEF Evict
  <2>2. /\ detached \in PeersType
        /\ detached[old].handle = NoHandle
        /\ \A g \in Fps \ {old} : detached[g] = peers[g]
    BY <1>1, <1>3 DEF PeersType, Targets
  <2>3. /\ deleted \in PeersType
        /\ deleted[old].handle = NoHandle
        /\ \A g \in Fps \ {old} : deleted[g] = peers[g]
    BY <1>1, <1>3 DEF PeersType, Targets, Absent
  <2> HIDE DEF detached, deleted
  <2>4. \A g \in Fps : peers[g].status = "absent" => peers[g].handle = NoHandle
    BY <1>1 DEF AbsentUnbound, Known
  <2> QED
    BY <1>3, <2>1, <2>2, <2>3, <2>4
<1> QED
  BY <1>2, <1>3

LEMMA ReverifyInstallInv ==
  ASSUME TrustInv, NEW target, NEW selector, NEW f \in Fps, NEW h \in Handles,
         ReverifyInstall(target, selector, f, h)
  PROVE  TrustInv'
<1> USE NoneAssumption
<1> DEFINE ev == Evict(Head(Candidates(target, selector)).from, h)
           ps == [ev EXCEPT ![f] = [status |-> "trusted", handle |-> h]]
<1>1. /\ peers' = Detached(ps, f, h)
      /\ ClearHandleState(ReboundHandles(f, h)) /\ UNCHANGED <<outgoing, holders>>
  BY DEF ReverifyInstall
<1>2. /\ ev \in PeersType
      /\ \A g \in Fps :
           /\ ev[g].handle \in {peers[g].handle, NoHandle}
           /\ peers[g].handle # h => ev[g].handle = peers[g].handle
           /\ ev[g].status = "absent" => ev[g].handle = NoHandle
  BY EvictFacts
<1> HIDE DEF ev
<1>3. /\ ps \in PeersType
      /\ ps[f].status = "trusted" /\ ps[f].handle = h
      /\ \A g \in Fps \ {f} : ps[g] = ev[g]
  BY <1>2 DEF PeersType, Targets
<1> HIDE DEF ps
<1>4. PeersFine(ReboundHandles(f, h))
  BY <1>1, <1>2, <1>3, DetachedFine
<1> QED
  BY <1>1, <1>4, ReboundHandlesType, ClearInv

LEMMA ReverifyStaleInv ==
  ASSUME TrustInv, NEW target, NEW selector, NEW f, NEW h, ReverifyStale(target, selector, f, h)
  PROVE  TrustInv'
  BY HousekeepingInv DEF ReverifyStale, TrustInv, TablesTypeOK, RowsType

-----------------------------------------------------------------------------
LEMMA InitTrustInv == Init => TrustInv
<1> SUFFICES ASSUME Init PROVE TrustInv
  OBVIOUS
<1> USE NoneAssumption
<1>1. TablesTypeOK
  BY DEF Init, TablesTypeOK, Absent, NoSession, Targets
<1>2. AbsentUnbound /\ OneKeyPerHandle
  BY DEF Init, Absent, AbsentUnbound, OneKeyPerHandle
<1>3. RowsBound
  BY DEF Init, RowsBound, NoSession
<1>4. NoKeyNoRecipients /\ RecipientsCurrent
  BY DEF Init, NoKeyNoRecipients, RecipientsCurrent, RecipientsOn
<1> QED
  BY <1>1, <1>2, <1>3, <1>4 DEF TrustInv

LEMMA NextTrustInv ==
  TrustInv /\ [Next]_vars => TrustInv' /\ (Reverify \/ BindingsStay)
<1> SUFFICES ASSUME TrustInv, [Next]_vars PROVE TrustInv' /\ (Reverify \/ BindingsStay)
  OBVIOUS
<1> USE NoneAssumption
<1>1. ASSUME NEW f \in Fps, NEW h \in Handles, NEW c \in Channels, Message(f, h, c)
      PROVE  TrustInv' /\ BindingsStay
  BY <1>1, KeyreqInv, KeyrspInv, RekeyInv DEF Message
<1>2. ASSUME NEW h \in Handles, NEW c \in Channels, Command(h, c)
      PROVE  TrustInv' /\ BindingsStay
  BY <1>2, AcceptInv, SessionCommandInv, RevokeInv, ForgetOnChannelInv DEF Command
<1>3. ASSUME NEW c \in Channels, Encrypt(c) \/ Rotate(c)
      PROVE  TrustInv' /\ BindingsStay
  BY <1>3, EncryptInv, RotateInv
<1>4. ASSUME NEW h \in Handles, ForgetEverywhere(h) \/ ReverifyPurge(h)
      PROVE  TrustInv' /\ BindingsStay
  BY <1>4, ForgetInv
<1>5. CASE Reverify
  BY <1>5, ReverifyRebindInv, ReverifyInstallInv, ReverifyStaleInv DEF Reverify
<1>6. inbound \in RowsType
  BY DEF TrustInv, TablesTypeOK, RowsType
<1>7. ASSUME NEW h \in Handles, NEW c \in Channels, AutoKeyreq(h, c) \/ InboundExpires(h, c)
      PROVE  TrustInv' /\ BindingsStay
  BY <1>6, <1>7, HousekeepingInv DEF AutoKeyreq, InboundExpires, RowsType
<1>8. ASSUME NEW c \in Channels, Handshake(c) \/ \E t \in Targets : PendingExpires(c, t)
      PROVE  TrustInv' /\ BindingsStay
  BY <1>6, <1>8, HousekeepingInv DEF Handshake, PendingExpires
<1>9. CASE Restart
  BY <1>6, <1>9, HousekeepingInv DEF Restart, RowsType
<1>10. CASE UNCHANGED vars
  BY <1>6, <1>10, HousekeepingInv DEF vars
<1> QED
  BY <1>1, <1>2, <1>3, <1>4, <1>5, <1>7, <1>8, <1>9, <1>10 DEF Next

-----------------------------------------------------------------------------
(* Warnings.                                                               *)

\* A filter of warnings loses those it is asked to lose, and no other.
LEMMA OnlyFacts ==
  ASSUME NEW T, NEW ns \in Seq(T), NEW kept
  PROVE  /\ Only(ns, kept) \in Seq(T) /\ Len(Only(ns, kept)) <= Len(ns)
         /\ Range(Only(ns, kept)) = Range(ns) \cap kept
<1> DEFINE base == [ns |-> <<>>, kept |-> kept]
           Upto(k) == {ns[i] : i \in 1..k}
           G == [k \in 0..Len(ns) |->
                   {a \in [ns : Seq(T), kept : {kept}] :
                      Len(a.ns) <= k /\ Range(a.ns) = Upto(k) \cap kept}]
<1>1. Only(ns, kept) = Keeps!Folded(base, ns).ns
  BY DEF Only, FoldLeft, MapThenFoldSet, Max, Keeps!Folded, Keeps!Iter, Keeps!Greatest
<1>2. base \in G[0]
  <2>1. Upto(0) = {} /\ Range(<<>>) = {} /\ <<>> \in Seq(T) /\ Len(<<>>) = 0
    BY DEF Range
  <2>2. 0 \in 0..Len(ns) /\ {} \cap kept = {}
    OBVIOUS
  <2>3. base.ns = <<>> /\ base \in [ns : Seq(T), kept : {kept}]
    BY <2>1
  <2> HIDE DEF Upto, base
  <2>4. Range(base.ns) = Upto(0) \cap kept
    BY <2>1, <2>2, <2>3
  <2>5. Len(base.ns) <= 0
    BY <2>1, <2>3
  <2> QED BY <2>2, <2>3, <2>4, <2>5
<1>3. ASSUME NEW k \in 1..Len(ns), NEW a \in G[k - 1] PROVE KeepOne(a, ns[k]) \in G[k]
  <2>1. /\ a \in [ns : Seq(T), kept : {kept}] /\ Len(a.ns) <= k - 1
        /\ Range(a.ns) = Upto(k - 1) \cap kept
    <3> HIDE DEF Upto
    <3> QED BY <1>3
  <2>2. Upto(k) = Upto(k - 1) \cup {ns[k]} /\ ns[k] \in T
    OBVIOUS
  <2> HIDE DEF Upto
  <2>3. CASE ns[k] \in kept
    <3> DEFINE b == Append(a.ns, ns[k])
    <3>1. /\ b \in Seq(T) /\ Len(b) = Len(a.ns) + 1
          /\ Range(b) = Range(a.ns) \cup {ns[k]}
      <4>1. /\ a.ns \in Seq(T) /\ DOMAIN b = 1..(Len(a.ns) + 1) /\ b \in Seq(T)
            /\ DOMAIN a.ns = 1..Len(a.ns) /\ Len(b) = Len(a.ns) + 1 /\ Len(a.ns) \in Nat
            /\ b[Len(a.ns) + 1] = ns[k] /\ \A i \in 1..Len(a.ns) : b[i] = a.ns[i]
        BY <2>1, <2>2
      <4> HIDE DEF b
      <4>2. \A i \in 1..(Len(a.ns) + 1) : i \in 1..Len(a.ns) \/ i = Len(a.ns) + 1
        BY <4>1
      <4>3. \A x \in Range(b) : x \in Range(a.ns) \cup {ns[k]}
        BY <4>1, <4>2 DEF Range
      <4>4. \A x \in Range(a.ns) : x \in Range(b)
        <5>1. \A i \in 1..Len(a.ns) : i \in 1..(Len(a.ns) + 1)
          BY <4>1
        <5> QED BY <4>1, <5>1 DEF Range
      <4>5. ns[k] \in Range(b)
        <5>1. Len(a.ns) + 1 \in 1..(Len(a.ns) + 1)
          BY <4>1
        <5> QED BY <4>1, <5>1 DEF Range
      <4> QED BY <4>1, <4>3, <4>4, <4>5
    <3>2. KeepOne(a, ns[k]) = [ns |-> b, kept |-> kept]
      BY <2>1, <2>3 DEF KeepOne
    <3> HIDE DEF b
    <3>3. Len(b) <= k
      BY <2>1, <3>1
    <3>4. Range(b) = Upto(k) \cap kept
      BY <2>1, <2>2, <2>3, <3>1
    <3> QED BY <3>1, <3>2, <3>3, <3>4
  <2>4. CASE ns[k] \notin kept
    <3>1. KeepOne(a, ns[k]) = a /\ Len(a.ns) <= k
      BY <2>1, <2>4 DEF KeepOne
    <3>2. Range(a.ns) = Upto(k) \cap kept
      BY <2>1, <2>2, <2>4
    <3> QED BY <2>1, <3>1, <3>2
  <2> QED BY <2>3, <2>4
<1>4. Keeps!Folded(base, ns) \in G[Len(ns)]
  <2> HIDE DEF G, base
  <2> QED BY <1>2, <1>3, Keeps!FoldInduct
<1>5. Upto(Len(ns)) = Range(ns)
  BY DEF Range
<1> HIDE DEF Upto, base
<1> QED BY <1>1, <1>4, <1>5

\* The warnings are well-formed and no more than allowed.
NoticesOK == notices \in Seq(Notice) /\ Len(notices) <= MaxNotices

\* The warnings that a step retires are filed under one handle.
OneHandle == \A m, n \in Range(notices) \ Range(notices') : m.handle = n.handle

\* record_trust_change: one warning gives way at most.
LEMMA WithNoticeFacts ==
  ASSUME NoticesOK, NEW n \in Notice, notices' = WithNotice(n)
  PROVE  NoticesOK' /\ OneHandle
<1> DEFINE rest == Only(notices, Range(notices) \ {n})
           kept == IF Len(rest) >= MaxNotices THEN Tail(rest) ELSE rest
<1> USE MaxNoticesAssumption
<1>1. /\ rest \in Seq(Notice) /\ Len(rest) <= MaxNotices /\ Len(rest) \in Nat
      /\ Range(rest) = Range(notices) \ {n}
  <2>1. /\ rest \in Seq(Notice) /\ Len(rest) <= Len(notices)
        /\ Range(rest) = Range(notices) \cap (Range(notices) \ {n})
    BY OnlyFacts DEF NoticesOK
  <2>2. Len(notices) \in Nat /\ Len(rest) \in Nat
    BY <2>1 DEF NoticesOK
  <2> HIDE DEF rest
  <2> QED BY <2>1, <2>2 DEF NoticesOK
<1>2. notices' = Append(kept, n)
  BY DEF WithNotice
<1> HIDE DEF rest
<1>3. /\ kept \in Seq(Notice) /\ Len(kept) < MaxNotices
      /\ \E one : Range(rest) \ Range(kept) \subseteq {one}
  <2>1. CASE Len(rest) >= MaxNotices
    <3>1. /\ rest # <<>> /\ kept = Tail(rest) /\ Tail(rest) \in Seq(Notice)
          /\ Len(kept) = Len(rest) - 1 /\ DOMAIN kept = 1..(Len(rest) - 1)
          /\ \A i \in 1..(Len(rest) - 1) : kept[i] = rest[i + 1]
      BY <2>1, <1>1
    <3>2. ASSUME NEW x \in Range(rest), x \notin Range(kept) PROVE x = rest[1]
      <4>1. PICK i \in 1..Len(rest) : x = rest[i]
        BY <1>1 DEF Range
      <4>2. CASE i = 1
        BY <4>1, <4>2
      <4>3. CASE i # 1
        <5>1. i - 1 \in 1..(Len(rest) - 1) /\ (i - 1) + 1 = i
          BY <1>1, <4>3
        <5>2. kept[i - 1] = x
          BY <3>1, <4>1, <5>1
        <5> QED BY <3>1, <3>2, <5>1, <5>2 DEF Range
      <4> QED BY <4>2, <4>3
    <3> HIDE DEF kept
    <3> QED BY <1>1, <2>1, <3>1, <3>2
  <2>2. CASE ~(Len(rest) >= MaxNotices)
    BY <1>1, <2>2
  <2> QED BY <2>1, <2>2
<1> HIDE DEF kept
<1>4. Range(notices') = Range(kept) \cup {n}
  <2>1. /\ DOMAIN kept = 1..Len(kept) /\ DOMAIN notices' = 1..(Len(kept) + 1) /\ Len(kept) \in Nat
        /\ notices'[Len(kept) + 1] = n /\ \A i \in 1..Len(kept) : notices'[i] = kept[i]
    BY <1>2, <1>3
  <2>2. \A i \in 1..(Len(kept) + 1) : i \in 1..Len(kept) \/ i = Len(kept) + 1
    BY <2>1
  <2> QED BY <2>1, <2>2 DEF Range
<1>5. NoticesOK'
  BY <1>2, <1>3 DEF NoticesOK
<1>6. \A x \in Range(notices) \ Range(notices') : x \in Range(rest) \ Range(kept)
  BY <1>1, <1>4
<1> QED BY <1>3, <1>5, <1>6 DEF OneHandle

\* A warning that a handshake gives rise to is well-formed.
LEMMA WarnFacts ==
  ASSUME TrustInv, NoticesOK, NEW f \in Fps, NEW h \in Handles, Warn(f, h)
  PROVE  NoticesOK' /\ OneHandle
<1>1. peers[f].handle \in Targets /\ BoundAt(h) \subseteq Fps
  BY DEF TrustInv, TablesTypeOK, BoundAt
<1>2. Moved(h, peers[f].handle, f) \in Notice
  BY <1>1 DEF Moved, Notice
<1>3. \A old \in BoundAt(h) : Changed(h, old, f) \in Notice
  BY <1>1 DEF Changed, Notice
<1> QED BY <1>2, <1>3, WithNoticeFacts DEF Warn

\* A step that drops warnings of one handle.
LEMMA DropFacts ==
  ASSUME NoticesOK, NEW kept, NEW h, notices' = Only(notices, kept),
         \A n \in Range(notices) : n \in kept \/ n.handle = h
  PROVE  NoticesOK' /\ OneHandle
<1>1. /\ notices' \in Seq(Notice) /\ Len(notices') <= Len(notices)
      /\ Range(notices') = Range(notices) \cap kept
  BY OnlyFacts DEF NoticesOK
<1>2. Len(notices) \in Nat /\ Len(notices') \in Nat /\ MaxNotices \in Nat
  BY <1>1, MaxNoticesAssumption DEF NoticesOK
<1>3. NoticesOK'
  BY <1>1, <1>2 DEF NoticesOK
<1>4. \A n \in Range(notices) \ Range(notices') : n.handle = h
  BY <1>1
<1> QED BY <1>3, <1>4 DEF OneHandle

LEMMA SameNotices ==
  ASSUME NoticesOK, UNCHANGED notices PROVE NoticesOK' /\ OneHandle
  BY DEF NoticesOK, OneHandle

LEMMA ReverifyNotices ==
  ASSUME NoticesOK, Reverify
  PROVE  NoticesOK' /\ OneHandle
<1>1. PICK target \in Handles, selector \in Fps \cup {NoFp}, f \in Fps, h \in Handles :
        \/ ReverifyRebind(target, selector, f, h)
        \/ ReverifyStale(target, selector, f, h)
        \/ ReverifyInstall(target, selector, f, h)
  BY DEF Reverify
<1>2. Commitments(Candidates(target, selector)) = {<<f, h>>}
  BY <1>1 DEF ReverifyRebind, ReverifyStale, ReverifyInstall
<1>3. \A n \in Range(Candidates(target, selector)) : n.handle = h
  <2>1. ASSUME NEW n \in Range(Candidates(target, selector)) PROVE n.handle = h
    <3>1. <<n.fp, n.handle>> \in Commitments(Candidates(target, selector))
      BY Zenon DEF Commitments
    <3> QED BY <1>2, <3>1
  <2> QED BY <2>1
<1> DEFINE cands == Candidates(target, selector)
<1>4. \/ notices' = NoticesAfter(cands, f, h)
      \/ notices' = Only(notices, Range(notices) \ Range(cands))
  BY <1>1 DEF ReverifyRebind, ReverifyStale, ReverifyInstall
<1>7. \A n \in Range(cands) : n.handle = h
  BY <1>3
<1> HIDE DEF cands
<1>5. CASE notices' = NoticesAfter(cands, f, h)
  <2>1. \A n \in Range(notices) : n \in (Range(notices) \ NoticesAt(h)) \ Range(cands) \/ n.handle = h
    BY <1>7 DEF NoticesAt
  <2> QED BY <1>5, <2>1, DropFacts DEF NoticesAfter
<1>6. CASE notices' = Only(notices, Range(notices) \ Range(cands))
  <2>1. \A n \in Range(notices) : n \in Range(notices) \ Range(cands) \/ n.handle = h
    BY <1>7
  <2> QED BY <1>6, <2>1, DropFacts
<1> QED BY <1>4, <1>5, <1>6

\* Whatever happens, warnings are retired for one handle at a time, but for a
\* restart.
LEMMA NextNotices ==
  ASSUME TrustInv, NoticesOK, [Next]_vars
  PROVE  NoticesOK' /\ (Restart \/ OneHandle)
<1>1. ASSUME NEW f \in Fps, NEW h \in Handles, NEW c \in Channels, Message(f, h, c)
      PROVE  NoticesOK' /\ OneHandle
  <2>1. CASE KeyreqRefused(f, h)
    BY <2>1, WarnFacts DEF KeyreqRefused, Refuse
  <2>2. ASSUME NEW t \in Targets, Keyrsp(f, h, c, t) PROVE NoticesOK' /\ OneHandle
    <3>1. CASE Refuse(f, h)
      BY <3>1, WarnFacts DEF Refuse
    <3>2. CASE UNCHANGED notices
      BY <3>2, SameNotices
    <3>3. CASE ~CanInstall(f, h, c) /\ notices' = WithNotice(Changed(h, sessions[h][c].fp, f))
      <4>1. sessions[h][c].fp \in Fps
        BY <3>3 DEF CanInstall, TrustInv, TablesTypeOK
      <4>2. Changed(h, sessions[h][c].fp, f) \in Notice
        BY <4>1 DEF Changed, Notice
      <4> QED BY <3>3, <4>2, WithNoticeFacts
    <3> QED BY <2>2, <3>1, <3>2, <3>3 DEF Keyrsp
  <2> QED BY <1>1, <2>1, <2>2, SameNotices
          DEF Message, KeyreqServed, KeyreqCached, KeyreqDropped, Rekey
<1>2. ASSUME NEW h \in Handles, NEW c \in Channels,
             Command(h, c) \/ AutoKeyreq(h, c) \/ InboundExpires(h, c)
      PROVE  NoticesOK' /\ OneHandle
  BY <1>2, SameNotices DEF Command, Accept, AcceptSession, Decline, Revoke, Unrevoke,
     ForgetOnChannel, AutoKeyreq, InboundExpires
<1>3. ASSUME NEW c \in Channels,
             Encrypt(c) \/ Rotate(c) \/ Handshake(c) \/ \E t \in Targets : PendingExpires(c, t)
      PROVE  NoticesOK' /\ OneHandle
  BY <1>3, SameNotices DEF Encrypt, Rotate, Handshake, PendingExpires
<1>4. ASSUME NEW h \in Handles, ForgetEverywhere(h) PROVE NoticesOK' /\ OneHandle
  <2>1. \A n \in Range(notices) : n \in Range(notices) \ NoticesAt(h) \/ n.handle = h
    BY DEF NoticesAt
  <2>2. notices' = Only(notices, Range(notices) \ NoticesAt(h))
    BY <1>4 DEF ForgetEverywhere, WithoutNoticesAt
  <2> QED BY <2>1, <2>2, DropFacts
<1>5. ASSUME NEW h \in Handles, ReverifyPurge(h) PROVE NoticesOK' /\ OneHandle
  BY <1>5, SameNotices DEF ReverifyPurge
<1>6. CASE Restart
  BY <1>6, MaxNoticesAssumption DEF Restart, NoticesOK
<1>7. CASE UNCHANGED vars
  BY <1>7, SameNotices DEF vars
<1> QED BY <1>1, <1>2, <1>3, <1>4, <1>5, <1>6, <1>7, ReverifyNotices DEF Next

\* Our requests are about conversations there are.
PendingOK == pending \subseteq Channels \X Targets

LEMMA NextPending ==
  ASSUME PendingOK, [Next]_vars
  PROVE  PendingOK'
<1>1. \A c \in Channels : NoHandle \in Targets /\ \A h \in Handles : h \in Targets
  BY DEF Targets
<1>2. ASSUME NEW c \in Channels, NEW t \in Targets, Ask(c, t) PROVE PendingOK'
  BY <1>2 DEF Ask, PendingOK
<1>3. ASSUME pending' \subseteq pending PROVE PendingOK'
  BY <1>3 DEF PendingOK
<1>4. ASSUME NEW f, NEW h \in Handles, NEW c \in Channels, Serve(f, h, c) PROVE PendingOK'
  BY <1>1, <1>2, <1>3, <1>4 DEF Serve
<1>5. ASSUME NEW f \in Fps, NEW h \in Handles, NEW c \in Channels, Message(f, h, c)
      PROVE  PendingOK'
  BY <1>3, <1>4, <1>5 DEF Message, KeyreqServed, KeyreqCached, KeyreqDropped, KeyreqRefused,
     Refuse, Keyrsp, Rekey
<1>6. ASSUME NEW h \in Handles, NEW c \in Channels,
             Command(h, c) \/ AutoKeyreq(h, c) \/ InboundExpires(h, c)
      PROVE  PendingOK'
  <2>1. CASE Accept(h, c)
    BY <1>4, <2>1 DEF Accept
  <2>2. CASE AutoKeyreq(h, c)
    BY <1>1, <1>2, <2>2 DEF AutoKeyreq
  <2> QED BY <1>3, <1>6, <2>1, <2>2 DEF Command, AcceptSession, Decline, Revoke, Unrevoke,
     ForgetOnChannel, InboundExpires
<1>7. ASSUME NEW c \in Channels,
             Encrypt(c) \/ Rotate(c) \/ Handshake(c) \/ \E t \in Targets : PendingExpires(c, t)
      PROVE  PendingOK'
  BY <1>1, <1>2, <1>3, <1>7 DEF Encrypt, Rotate, Handshake, PendingExpires
<1>8. ASSUME NEW hs, ClearHandleState(hs) PROVE PendingOK'
  BY <1>3, <1>8 DEF ClearHandleState
<1>9. ASSUME NEW h \in Handles, ForgetEverywhere(h) \/ ReverifyPurge(h) PROVE PendingOK'
  BY <1>8, <1>9 DEF ForgetEverywhere, ReverifyPurge
<1>10. CASE Reverify
  BY <1>3, <1>8, <1>10 DEF Reverify, ReverifyRebind, ReverifyStale, ReverifyInstall
<1>11. CASE Restart \/ UNCHANGED vars
  BY <1>3, <1>11 DEF Restart, vars
<1> QED BY <1>5, <1>6, <1>7, <1>9, <1>10, <1>11 DEF Next

\* A bound key whose move awaits an answer is not forgotten by a step that
\* gives its handle to another key.
Survives ==
  \A f, g \in Fps :
    /\ Known(f) /\ Moving(f) /\ peers[f].handle # NoHandle
    /\ peers'[g].handle = peers[f].handle /\ g # f
    => peers'[f].status # "absent"

\* Steps that leave everybody known, or nobody with another key's handle.
LEMMA StandingKept ==
  ASSUME \A f \in Fps : Known(f) => peers'[f].status # "absent"
  PROVE  Survives
  BY DEF Survives

LEMMA BindKeepsStanding ==
  ASSUME TrustInv, NEW f \in Fps, NEW h, NEW st \in {"pending", "trusted"},
         peers' = Bind(f, h, st)
  PROVE  Survives
<1>1. /\ peers'[f].status = st /\ \A g \in Fps \ {f} : peers'[g] = peers[g]
  BY DEF Bind, TrustInv, TablesTypeOK
<1> QED BY <1>1, StandingKept DEF Known

LEMMA DeleteSurvives ==
  ASSUME TrustInv, NEW h \in Handles, DeletePeerAt(h)
  PROVE  Survives
<1>1. CASE UNCHANGED peers
  BY <1>1, StandingKept DEF Known
<1>2. ASSUME NEW e \in BoundAt(h), peers' = [peers EXCEPT ![e] = Absent] PROVE Survives
  <2>1. e \in Fps /\ peers[e].handle = h
    BY <1>2 DEF BoundAt
  <2>2. peers'[e].handle = NoHandle /\ \A g \in Fps \ {e} : peers'[g] = peers[g]
    BY <1>2, <2>1 DEF TrustInv, TablesTypeOK, Absent
  <2>3. OneKeyPerHandle
    BY DEF TrustInv
  <2> SUFFICES ASSUME NEW f \in Fps, NEW g \in Fps, Known(f), peers[f].handle # NoHandle,
                      peers'[g].handle = peers[f].handle, g # f
               PROVE  peers'[f].status # "absent"
    BY DEF Survives
  <2>4. g # e
    BY <2>2
  <2>5. peers[g].handle = peers[f].handle
    BY <2>2, <2>4
  <2> QED BY <2>3, <2>5 DEF OneKeyPerHandle
<1> QED BY <1>1, <1>2 DEF DeletePeerAt

LEMMA RebindSurvives ==
  ASSUME TrustInv, NEW target, NEW selector, NEW f \in Fps, NEW h \in Handles,
         ReverifyRebind(target, selector, f, h)
  PROVE  Survives
<1> DEFINE ps == [peers EXCEPT ![f].handle = h]
<1>1. peers' = Detached(ps, f, h)
  BY DEF ReverifyRebind
<1>2. ps \in PeersType /\ \A g \in Fps : ps[g].status = peers[g].status
  BY DEF TrustInv, TablesTypeOK, PeersType, Targets
<1> HIDE DEF ps
<1>3. \A g \in Fps : peers'[g].status = ps[g].status
  BY <1>1, <1>2 DEF Detached, PeersType
<1> QED BY <1>2, <1>3, StandingKept DEF Known

\* evict_replaced_identity spares a key that moves.
LEMMA InstallSurvives ==
  ASSUME TrustInv, NEW target, NEW selector, NEW f \in Fps, NEW h \in Handles,
         ReverifyInstall(target, selector, f, h)
  PROVE  Survives
<1> DEFINE old == Head(Candidates(target, selector)).from
           ev == Evict(old, h)
           ps == [ev EXCEPT ![f] = [status |-> "trusted", handle |-> h]]
<1>1. peers' = Detached(ps, f, h)
  BY DEF ReverifyInstall
<1>2. peers \in PeersType
  BY DEF TrustInv, TablesTypeOK, PeersType
<1>3. ev \in PeersType
  BY EvictFacts
<1>4. \A g \in Fps : Known(g) /\ Moving(g) => ev[g].status # "absent"
  <2> HIDE DEF old
  <2>1. CASE ev = peers
    BY <2>1 DEF Known
  <2>2. CASE old \in Fps /\ Moving(old) /\ ev = [peers EXCEPT ![old].handle = NoHandle]
    <3>1. \A g \in Fps : ev[g].status = peers[g].status
      BY <1>2, <2>2 DEF PeersType
    <3> QED BY <3>1 DEF Known
  <2>3. CASE old \in Fps /\ ~Moving(old) /\ ev = [peers EXCEPT ![old] = Absent]
    <3>1. \A g \in Fps : g = old \/ ev[g] = peers[g]
      BY <1>2, <2>3 DEF PeersType
    <3> QED BY <2>3, <3>1 DEF Known
  <2> QED BY <2>1, <2>2, <2>3 DEF Evict
<1> HIDE DEF ev
<1>5. ps \in PeersType /\ \A g \in Fps : g # f => ps[g] = ev[g]
  BY <1>3 DEF PeersType, Targets
<1>6. ps[f].status = "trusted"
  BY <1>3 DEF PeersType
<1> HIDE DEF ps
<1>7. \A g \in Fps : peers'[g].status = ps[g].status
  BY <1>1, <1>5 DEF Detached, PeersType
<1> QED BY <1>4, <1>5, <1>6, <1>7 DEF Survives

LEMMA NextSurvives ==
  ASSUME TrustInv, [Next]_vars
  PROVE  Survives
<1>0. CASE UNCHANGED peers
  BY <1>0, StandingKept DEF Known
<1>1. ASSUME NEW f \in Fps, NEW h \in Handles, NEW c \in Channels, Message(f, h, c)
      PROVE  Survives
  BY <1>0, <1>1, BindKeepsStanding, KeyreqStanding DEF Message, KeyreqServed, KeyreqCached,
     KeyreqDropped, KeyreqRefused, Keyrsp, Refuse, Rekey
<1>2. ASSUME NEW h \in Handles, NEW c \in Channels,
             Command(h, c) \/ AutoKeyreq(h, c) \/ InboundExpires(h, c)
      PROVE  Survives
  <2>1. CASE Accept(h, c)
    <3>1. inbound[h][c] \in Fps
      BY <2>1 DEF Accept, TrustInv, TablesTypeOK
    <3> QED BY <2>1, <3>1, BindKeepsStanding DEF Accept
  <2> QED BY <1>0, <1>2, <2>1 DEF Command, AcceptSession, Decline, Revoke, Unrevoke,
     ForgetOnChannel, AutoKeyreq, InboundExpires
<1>3. ASSUME NEW c \in Channels,
             Encrypt(c) \/ Rotate(c) \/ Handshake(c) \/ \E t \in Targets : PendingExpires(c, t)
      PROVE  Survives
  BY <1>0, <1>3 DEF Encrypt, Rotate, Handshake, PendingExpires
<1>4. ASSUME NEW h \in Handles, ForgetEverywhere(h) \/ ReverifyPurge(h) PROVE Survives
  BY <1>4, DeleteSurvives DEF ForgetEverywhere, ReverifyPurge
<1>5. CASE Reverify
  BY <1>0, <1>5, RebindSurvives, InstallSurvives DEF Reverify, ReverifyStale
<1>6. CASE Restart \/ UNCHANGED vars
  BY <1>0, <1>6 DEF Restart, vars
<1> QED BY <1>1, <1>2, <1>3, <1>4, <1>5, <1>6 DEF Next

-----------------------------------------------------------------------------
\* The invariant the theorems below are read off from.
THEOREM TrustInvariant == Spec => []TrustInv
<1>1. Init => TrustInv
  BY InitTrustInv
<1>2. TrustInv /\ [Next]_vars => TrustInv'
  BY NextTrustInv
<1> QED
  BY <1>1, <1>2, PTL DEF Spec

\* Two keys are never bound to one ident@host (detach_other_peers_from_handle).
THEOREM TrustOneKeyPerHandle == Spec => []OneKeyPerHandle
<1>1. TrustInv => OneKeyPerHandle
  BY DEF TrustInv
<1> QED
  BY <1>1, TrustInvariant, PTL

\* No session, recipient or cached request outlives the binding of its key, so
\* decrypt_incoming and the rotation, which look only at the row, honour nobody
\* else's (clear_handle_state in apply_rebind and apply_install).
THEOREM TrustRowsBound == Spec => []RowsBound
<1>1. TrustInv => RowsBound
  BY DEF TrustInv
<1> QED
  BY <1>1, TrustInvariant, PTL

\* While a key of ours is live every recipient has been given it
\* (get_or_generate_outgoing_key).
THEOREM TrustRecipientsCurrent == Spec => []RecipientsCurrent
<1>1. TrustInv => RecipientsCurrent
  BY DEF TrustInv
<1> QED
  BY <1>1, TrustInvariant, PTL

\* A bound key gets another handle by /e2e reverify and in no other way
\* (classify_peer_change).
THEOREM TrustMovesByConsent == Spec => MovesByConsent
<1>1. TrustInv /\ [Next]_vars =>
        [(\E f \in Fps : /\ peers[f].handle # NoHandle
                         /\ peers'[f].handle \notin {NoHandle, peers[f].handle})
           => Reverify]_vars
  BY NextTrustInv DEF BindingsStay
<1> QED
  BY <1>1, TrustInvariant, PTL DEF Spec, MovesByConsent

\* At most MAX_UNRESOLVED_TRUST_CHANGES warnings are kept, and every table
\* holds what it is for (record_trust_change).
THEOREM TrustTypeOK == Spec => []TypeOK
<1>1. Init => NoticesOK /\ PendingOK
  BY MaxNoticesAssumption DEF Init, NoticesOK, PendingOK
<1>2. TrustInv /\ NoticesOK /\ PendingOK /\ [Next]_vars => NoticesOK' /\ PendingOK'
  BY NextNotices, NextPending
<1>3. TrustInv /\ NoticesOK /\ PendingOK => TypeOK
  BY DEF TrustInv, NoticesOK, PendingOK, TypeOK
<1> QED
  BY <1>1, <1>2, <1>3, TrustInvariant, PTL DEF Spec

\* Deciding one warning is not deciding the rest (drop_trust_notices,
\* clear_trust_notices_for_handle).
THEOREM TrustOneDecision == Spec => OneDecisionAtATime
<1>1. TrustInv /\ TypeOK /\ [Next]_vars =>
        [~Restart => \A m, n \in Range(notices) \ Range(notices') : m.handle = n.handle]_vars
  <2>1. TypeOK => NoticesOK
    BY DEF TypeOK, NoticesOK
  <2> QED
    BY <2>1, NextNotices DEF OneHandle
<1> QED
  BY <1>1, TrustInvariant, TrustTypeOK, PTL DEF Spec, OneDecisionAtATime

\* A key whose move awaits an answer survives the loss of its handle
\* (evict_replaced_identity).
THEOREM TrustMovingKeysSurvive == Spec => MovingKeysSurvive
<1>1. TrustInv /\ [Next]_vars =>
        [\A f, g \in Fps :
           /\ Known(f) /\ Moving(f) /\ peers[f].handle # NoHandle
           /\ peers'[g].handle = peers[f].handle /\ g # f
           => peers'[f].status # "absent"]_vars
  BY NextSurvives DEF Survives
<1> QED
  BY <1>1, TrustInvariant, PTL DEF Spec, MovingKeysSurvive
=============================================================================
