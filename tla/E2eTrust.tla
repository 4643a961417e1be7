------------------------------- MODULE E2eTrust -------------------------------
(***************************************************************************)
(* Who is trusted to be whom in RPE2E: src/src/e2e/manager.rs over the     *)
(* tables of src/src/e2e/keyring.rs, driven by the handshake messages that *)
(* src/src/irc/events.rs dispatches and the /e2e commands of               *)
(* src/src/commands/handlers_e2e.rs.                                       *)
(*                                                                         *)
(* A peer is its key (fingerprint); a handle is the ident@host the server  *)
(* shows.  Signatures hold: a message that carries key f was made by f,    *)
(* but may arrive from any handle at any time, again and again.  Session   *)
(* keys are "real" or the zero-filled placeholder.  Conversations are      *)
(* channels; the rate limiter and autotrust are free choices here.         *)
(***************************************************************************)
EXTENDS Integers, Sequences, FiniteSets, SequencesExt

CONSTANTS Fps, Handles, Channels,
          NoFp, NoHandle,
          MaxNotices,    \* MAX_UNRESOLVED_TRUST_CHANGES
          MaxPending     \* bound: our KEYREQs awaiting an answer, one per target

ASSUME NoneAssumption == NoFp \notin Fps /\ NoHandle \notin Handles
ASSUME MaxNoticesAssumption == MaxNotices \in Nat \ {0}
ASSUME MaxPendingAssumption == MaxPending \in Nat

VARIABLES
  peers,       \* e2e_peers: standing and last_handle of each key
  sessions,    \* e2e_incoming_sessions, by handle and channel
  recipients,  \* e2e_outgoing_recipients, by handle and channel
  outgoing,    \* e2e_outgoing_sessions: no key yet, a live one, one to rotate
  inbound,     \* pending_inbound: KEYREQs kept for /e2e accept
  pending,     \* pending: channel and target of our KEYREQs without an answer
  notices,     \* unresolved_trust_changes
  holders      \* history: keys whose owners were given our live key

vars == <<peers, sessions, recipients, outgoing, inbound, pending, notices, holders>>

Absent    == [status |-> "absent", handle |-> NoHandle]
NoSession == [fp |-> NoFp, status |-> "none", real |-> FALSE]
Targets   == Handles \cup {NoHandle}

Moved(h, old, f)   == [kind |-> "moved", handle |-> h, from |-> old, fp |-> f]
Changed(h, old, f) == [kind |-> "changed", handle |-> h, from |-> old, fp |-> f]

Init ==
  /\ peers = [f \in Fps |-> Absent]
  /\ sessions = [h \in Handles |-> [c \in Channels |-> NoSession]]
  /\ recipients = [h \in Handles |-> [c \in Channels |-> NoFp]]
  /\ outgoing = [c \in Channels |-> "none"]
  /\ inbound = [h \in Handles |-> [c \in Channels |-> NoFp]]
  /\ pending = {}
  /\ notices = <<>>
  /\ holders = [c \in Channels |-> {}]

-----------------------------------------------------------------------------
Known(f)     == peers[f].status # "absent"
BoundAt(h)   == {f \in Fps : peers[f].handle = h}
Trusted(h, c) == sessions[h][c].status = "trusted"

\* Mutant of IsMoved: the handle is not looked at.
NeverMoved(f, h) == FALSE

\* classify_peer_change: HandleChanged, FingerprintChanged, else New or Known.
\* (No command gives a peer row the status Revoked.)
IsMoved(f, h)   == Known(f) /\ peers[f].handle # h
IsChanged(f, h) == ~Known(f) /\ BoundAt(h) # {}

\* The warnings of `ns` that are in `kept`, in order (retain, filter).
KeepOne(acc, n) == IF n \in acc.kept THEN [acc EXCEPT !.ns = Append(@, n)] ELSE acc
Only(ns, kept)  == FoldLeft(KeepOne, [ns |-> <<>>, kept |-> kept], ns).ns

\* The warnings filed under h.
NoticesAt(h) == {n \in Range(notices) : n.handle = h}

\* Mutant of WithNotice: nothing gives way.
EveryNotice(n) == Append(Only(notices, Range(notices) \ {n}), n)

\* record_trust_change: an equal warning moves to the end, the oldest gives way.
WithNotice(n) ==
  LET rest == Only(notices, Range(notices) \ {n})
      kept == IF Len(rest) >= MaxNotices THEN Tail(rest) ELSE rest
  IN  Append(kept, n)

\* The warning a handshake from f at h gives rise to.
Warn(f, h) ==
  \/ /\ IsMoved(f, h)
     /\ notices' = WithNotice(Moved(h, peers[f].handle, f))
  \/ /\ IsChanged(f, h)
     /\ \E old \in BoundAt(h) : notices' = WithNotice(Changed(h, old, f))

Refuse(f, h) ==
  /\ Warn(f, h)
  /\ UNCHANGED <<peers, sessions, recipients, outgoing, inbound, holders>>

Bind(f, h, status) == [peers EXCEPT ![f] = [status |-> status, handle |-> h]]

\* install_incoming_session_strict: never over another key's session.
CanInstall(f, h, c) == sessions[h][c].fp \in {f, NoFp}
Install(f, h, c, status, real) ==
  [sessions EXCEPT ![h][c] = [fp |-> f, status |-> status, real |-> real]]

\* Keys our outgoing key is sent to when it is rotated.
RecipientsOn(c) == {recipients[h][c] : h \in Handles} \ {NoFp}

\* Mutant of HoldersAfterUse: a rotated key is sent to nobody.
RotatedInSilence(c) == IF outgoing[c] = "live" THEN holders[c] ELSE {}

\* get_or_generate_outgoing_key: a rotated key goes to every recipient that
\* still has a peer row.
HoldersAfterUse(c) ==
  IF outgoing[c] = "live" THEN holders[c]
  ELSE IF outgoing[c] = "rotate" THEN {f \in RecipientsOn(c) : Known(f)}
  ELSE {}

\* build_keyreq_for_peer
Ask(c, t) ==
  /\ Cardinality(pending) < MaxPending
  /\ pending' = pending \cup {<<c, t>>}

\* The KEYRSP of handle_keyreq and of /e2e accept, and the reciprocal KEYREQ
\* unless we can read the peer already or the rate limiter is against it.
Serve(f, h, c) ==
  /\ outgoing' = [outgoing EXCEPT ![c] = "live"]
  /\ holders' = [holders EXCEPT ![c] = HoldersAfterUse(c) \cup {f}]
  /\ recipients' = [recipients EXCEPT ![h][c] = f]
  /\ \/ UNCHANGED pending
     \/ ~Trusted(h, c) /\ Ask(c, h)

-----------------------------------------------------------------------------
(* Handshake messages.                                                     *)

\* handle_keyreq on an enabled channel.  The mode is the channel's or, by an
\* autotrust rule, "auto".
KeyreqServed(f, h, c) ==
  /\ ~IsMoved(f, h) /\ ~IsChanged(f, h)
  /\ peers' = Bind(f, h, IF Known(f) THEN peers[f].status ELSE "pending")
  /\ Serve(f, h, c)
  /\ UNCHANGED <<sessions, inbound, notices>>

\* cache_pending_inbound_normal_mode
KeyreqCached(f, h, c) ==
  /\ ~IsMoved(f, h) /\ ~IsChanged(f, h) /\ ~Trusted(h, c)
  /\ peers' = Bind(f, h, IF Known(f) THEN peers[f].status ELSE "pending")
  /\ sessions' = IF CanInstall(f, h, c) THEN Install(f, h, c, "pending", FALSE) ELSE sessions
  /\ inbound' = [inbound EXCEPT ![h][c] = f]
  /\ UNCHANGED <<recipients, outgoing, pending, notices, holders>>

\* Quiet mode drops the request after the peer row is written.
KeyreqDropped(f, h, c) ==
  /\ ~IsMoved(f, h) /\ ~IsChanged(f, h) /\ ~Trusted(h, c)
  /\ peers' = Bind(f, h, IF Known(f) THEN peers[f].status ELSE "pending")
  /\ UNCHANGED <<sessions, recipients, outgoing, inbound, pending, notices, holders>>

KeyreqRefused(f, h) == Refuse(f, h) /\ UNCHANGED pending

\* handle_keyrsp: whichever of our KEYREQs it answers is used up first.
Keyrsp(f, h, c, t) ==
  /\ <<c, t>> \in pending
  /\ pending' = pending \ {<<c, t>>}
  /\ \/ Refuse(f, h)
     \/ /\ ~IsMoved(f, h) /\ ~IsChanged(f, h)
        /\ peers' = Bind(f, h, "trusted")
        /\ IF CanInstall(f, h, c)
             THEN sessions' = Install(f, h, c, "trusted", TRUE) /\ UNCHANGED notices
             ELSE /\ notices' = WithNotice(Changed(h, sessions[h][c].fp, f))
                  /\ UNCHANGED sessions
        /\ UNCHANGED <<recipients, outgoing, inbound, holders>>

\* handle_rekey with a nonce that was not used: only from a key known at h.
Rekey(f, h, c) ==
  /\ Known(f) /\ ~IsMoved(f, h)
  /\ CanInstall(f, h, c)
  /\ sessions' = Install(f, h, c, "trusted", TRUE)
  /\ UNCHANGED <<peers, recipients, outgoing, inbound, pending, notices, holders>>

\* decrypt_incoming found no session: a KEYREQ goes to the sender.
AutoKeyreq(h, c) ==
  /\ sessions[h][c] = NoSession
  /\ Ask(c, h)
  /\ UNCHANGED <<peers, sessions, recipients, outgoing, inbound, notices, holders>>

\* encrypt_outgoing
Encrypt(c) ==
  /\ outgoing' = [outgoing EXCEPT ![c] = "live"]
  /\ holders' = [holders EXCEPT ![c] = HoldersAfterUse(c)]
  /\ UNCHANGED <<peers, sessions, recipients, inbound, pending, notices>>

\* prune_expired_pending
PendingExpires(c, t) ==
  /\ <<c, t>> \in pending
  /\ pending' = pending \ {<<c, t>>}
  /\ UNCHANGED <<peers, sessions, recipients, outgoing, inbound, notices, holders>>

InboundExpires(h, c) ==
  /\ inbound[h][c] # NoFp
  /\ inbound' = [inbound EXCEPT ![h][c] = NoFp]
  /\ UNCHANGED <<peers, sessions, recipients, outgoing, pending, notices, holders>>

\* The tables are on disk, everything else is not.
Restart ==
  /\ inbound' = [h \in Handles |-> [c \in Channels |-> NoFp]]
  /\ pending' = {}
  /\ notices' = <<>>
  /\ UNCHANGED <<peers, sessions, recipients, outgoing, holders>>

-----------------------------------------------------------------------------
(* /e2e handshake, accept, decline, revoke, unrevoke, rotate.              *)

Handshake(c) ==
  /\ Ask(c, NoHandle)
  /\ UNCHANGED <<peers, sessions, recipients, outgoing, inbound, notices, holders>>

\* accept_pending_inbound: the peer row is written without another look.
Accept(h, c) ==
  /\ inbound[h][c] # NoFp
  /\ inbound' = [inbound EXCEPT ![h][c] = NoFp]
  /\ peers' = Bind(inbound[h][c], h, "trusted")
  /\ Serve(inbound[h][c], h, c)
  /\ UNCHANGED <<sessions, notices>>

SetStatus(h, c, status) == [sessions EXCEPT ![h][c].status = status]

\* e2e_accept without a request: a session with key material is trusted again.
AcceptSession(h, c) ==
  /\ inbound[h][c] = NoFp
  /\ sessions[h][c] # NoSession
  /\ ~(sessions[h][c].status = "pending" /\ ~sessions[h][c].real)
  /\ sessions' = SetStatus(h, c, "trusted")
  /\ UNCHANGED <<peers, recipients, outgoing, inbound, pending, notices, holders>>

Decline(h, c) ==
  /\ sessions[h][c] # NoSession
  /\ sessions' = SetStatus(h, c, "revoked")
  /\ UNCHANGED <<peers, recipients, outgoing, inbound, pending, notices, holders>>

\* mark_outgoing_pending_rotation
Retire(c) ==
  /\ outgoing' = [outgoing EXCEPT ![c] = IF @ = "none" THEN @ ELSE "rotate"]
  /\ holders' = [holders EXCEPT ![c] = {}]

\* e2e_revoke, whether or not there is a session row.
Revoke(h, c) ==
  /\ sessions' = IF sessions[h][c] = NoSession THEN sessions ELSE SetStatus(h, c, "revoked")
  /\ recipients' = [recipients EXCEPT ![h][c] = NoFp]
  /\ Retire(c)
  /\ UNCHANGED <<peers, inbound, pending, notices>>

Unrevoke(h, c) ==
  /\ sessions[h][c] # NoSession
  /\ sessions' = SetStatus(h, c, "trusted")
  /\ UNCHANGED <<peers, recipients, outgoing, inbound, pending, notices, holders>>

Rotate(c) ==
  /\ Retire(c)
  /\ UNCHANGED <<peers, sessions, recipients, inbound, pending, notices>>

-----------------------------------------------------------------------------
(* /e2e forget and /e2e reverify.                                          *)

\* clear_handle_state
ClearHandleState(hs) ==
  /\ sessions' = [h \in Handles |-> IF h \in hs THEN [c \in Channels |-> NoSession] ELSE sessions[h]]
  /\ recipients' = [h \in Handles |-> IF h \in hs THEN [c \in Channels |-> NoFp] ELSE recipients[h]]
  /\ inbound' = [h \in Handles |-> IF h \in hs THEN [c \in Channels |-> NoFp] ELSE inbound[h]]
  /\ pending' = {p \in pending : p[2] \notin hs}

\* The peer row found at h is deleted, if there is one.
DeletePeerAt(h) ==
  IF BoundAt(h) = {} THEN UNCHANGED peers
  ELSE \E f \in BoundAt(h) : peers' = [peers EXCEPT ![f] = Absent]

\* forget_peer_on_channel
ForgetOnChannel(h, c) ==
  /\ sessions' = [sessions EXCEPT ![h][c] = NoSession]
  /\ inbound' = [inbound EXCEPT ![h][c] = NoFp]
  /\ pending' = pending \ {<<c, h>>}
  /\ UNCHANGED <<peers, recipients, outgoing, notices, holders>>

WithoutNoticesAt(h) == Only(notices, Range(notices) \ NoticesAt(h))

\* forget_peer_everywhere
ForgetEverywhere(h) ==
  /\ DeletePeerAt(h)
  /\ ClearHandleState({h})
  /\ notices' = WithoutNoticesAt(h)
  /\ UNCHANGED <<outgoing, holders>>

\* The warnings reverify_peer considers for what the user typed: those filed
\* under the handle, else those that name it as the old one; narrowed by the
\* fingerprint if one was given.
Candidates(target, selector) ==
  LET exact == NoticesAt(target)
      named == {n \in Range(notices) : n.kind = "moved" /\ n.from = target}
      all   == IF exact # {} THEN exact ELSE named
  IN  Only(notices, IF selector = NoFp THEN all ELSE {n \in all : n.fp = selector})

\* What accepting them would commit to: keys at handles.
Commitments(cands) == {<<n.fp, n.handle>> : n \in Range(cands)}

\* Mutant of ReboundHandles: only the new handle's rows go.
OnlyNewHandle(f, h) == {h}

\* Handles whose rows go when f is moved to h.
ReboundHandles(f, h) == {h} \cup ({peers[f].handle} \ {NoHandle})

\* Mutant of Detached: the key that had the handle keeps it.
StillAttached(ps, f, h) == ps

\* detach_other_peers_from_handle
Detached(ps, f, h) ==
  [g \in Fps |-> IF g # f /\ ps[g].handle = h THEN [ps[g] EXCEPT !.handle = NoHandle] ELSE ps[g]]

\* Mutant of NoticesAfter: every warning about the key is answered at once.
NoticesNotAbout(cands, f, h) == Only(notices, {n \in Range(notices) : n.fp # f /\ n.handle # h})

\* clear_trust_notices_for_handle, then drop_trust_notices
NoticesAfter(cands, f, h) == Only(notices, (Range(notices) \ NoticesAt(h)) \ Range(cands))

\* apply_rebind: the key keeps its standing.
ReverifyRebind(target, selector, f, h) ==
  LET cands == Candidates(target, selector)
  IN  /\ Commitments(cands) = {<<f, h>>} /\ Head(cands).kind = "moved"
      /\ Known(f)
      /\ peers' = Detached([peers EXCEPT ![f].handle = h], f, h)
      /\ ClearHandleState(ReboundHandles(f, h))
      /\ notices' = NoticesAfter(cands, f, h)
      /\ UNCHANGED <<outgoing, holders>>

\* The key the warning is about was forgotten.
ReverifyStale(target, selector, f, h) ==
  LET cands == Candidates(target, selector)
  IN  /\ Commitments(cands) = {<<f, h>>} /\ Head(cands).kind = "moved"
      /\ ~Known(f)
      /\ notices' = Only(notices, Range(notices) \ Range(cands))
      /\ UNCHANGED <<peers, sessions, recipients, outgoing, inbound, pending, holders>>

\* A key with a move the user has not answered.
Moving(f) == \E n \in Range(notices) : n.kind = "moved" /\ n.fp = f

\* Mutant of Evict: the replaced key is always deleted.
EvictDelete(old, h) ==
  IF old \notin Fps \/ peers[old].handle # h THEN peers ELSE [peers EXCEPT ![old] = Absent]

\* evict_replaced_identity
Evict(old, h) ==
  IF old \notin Fps \/ peers[old].handle # h THEN peers
  ELSE IF Moving(old) THEN [peers EXCEPT ![old].handle = NoHandle]
  ELSE [peers EXCEPT ![old] = Absent]

\* apply_install
ReverifyInstall(target, selector, f, h) ==
  LET cands == Candidates(target, selector)
  IN  /\ Commitments(cands) = {<<f, h>>} /\ Head(cands).kind = "changed"
      /\ peers' = Detached([Evict(Head(cands).from, h) EXCEPT
                              ![f] = [status |-> "trusted", handle |-> h]], f, h)
      /\ ClearHandleState(ReboundHandles(f, h))
      /\ notices' = NoticesAfter(cands, f, h)
      /\ UNCHANGED <<outgoing, holders>>

\* purge_handle: no warning applies and no fingerprint was given.  With more
\* than one commitment, or a fingerprint that selects none, nothing happens.
ReverifyPurge(h) ==
  /\ Candidates(h, NoFp) = <<>>
  /\ DeletePeerAt(h)
  /\ ClearHandleState({h})
  /\ UNCHANGED <<outgoing, notices, holders>>

Reverify ==
  \E target \in Handles, selector \in Fps \cup {NoFp}, f \in Fps, h \in Handles :
    \/ ReverifyRebind(target, selector, f, h)
    \/ ReverifyStale(target, selector, f, h)
    \/ ReverifyInstall(target, selector, f, h)

-----------------------------------------------------------------------------
Message(f, h, c) ==
  \/ KeyreqServed(f, h, c) \/ KeyreqCached(f, h, c) \/ KeyreqDropped(f, h, c)
  \/ KeyreqRefused(f, h)
  \/ \E t \in Targets : Keyrsp(f, h, c, t)
  \/ Rekey(f, h, c)

Command(h, c) ==
  \/ Accept(h, c) \/ AcceptSession(h, c) \/ Decline(h, c)
  \/ Revoke(h, c) \/ Unrevoke(h, c) \/ ForgetOnChannel(h, c)

Next ==
  \/ \E f \in Fps, h \in Handles, c \in Channels : Message(f, h, c)
  \/ \E h \in Handles, c \in Channels : Command(h, c) \/ AutoKeyreq(h, c) \/ InboundExpires(h, c)
  \/ \E c \in Channels : Encrypt(c) \/ Rotate(c) \/ Handshake(c)
  \/ \E c \in Channels, t \in Targets : PendingExpires(c, t)
  \/ \E h \in Handles : ForgetEverywhere(h) \/ ReverifyPurge(h)
  \/ Reverify
  \/ Restart

Spec == Init /\ [][Next]_vars

-----------------------------------------------------------------------------
Notice ==
  [kind : {"moved"}, handle : Handles, from : Targets, fp : Fps]
  \cup [kind : {"changed"}, handle : Handles, from : Fps, fp : Fps]

TablesTypeOK ==
  /\ peers \in [Fps -> [status : {"absent", "pending", "trusted"}, handle : Targets]]
  /\ sessions \in [Handles -> [Channels -> [fp : Fps \cup {NoFp},
                                            status : {"none", "pending", "trusted", "revoked"},
                                            real : BOOLEAN]]]
  /\ recipients \in [Handles -> [Channels -> Fps \cup {NoFp}]]
  /\ outgoing \in [Channels -> {"none", "live", "rotate"}]
  /\ inbound \in [Handles -> [Channels -> Fps \cup {NoFp}]]
  /\ holders \in [Channels -> SUBSET Fps]

TypeOK ==
  /\ TablesTypeOK
  /\ pending \subseteq Channels \X Targets
  /\ notices \in Seq(Notice) /\ Len(notices) <= MaxNotices

\* detach_other_peers_from_handle: one key per ident@host, which
\* classify_peer_change depends on.
OneKeyPerHandle ==
  \A f, g \in Fps : peers[f].handle = peers[g].handle /\ peers[f].handle # NoHandle => f = g

\* A row filed under a handle is about the key bound to it.  decrypt_incoming
\* and the rotation look only at the row, so one that outlived its binding
\* would go on being honoured for somebody else.
RowsBound ==
  \A h \in Handles, c \in Channels :
    \A f \in {sessions[h][c].fp, recipients[h][c], inbound[h][c]} \ {NoFp} : peers[f].handle = h

\* get_or_generate_outgoing_key: no recipient is left on an old key, through
\* rotations, revocations and keys that move or are replaced.
RecipientsCurrent ==
  \A c \in Channels : outgoing[c] = "live" => RecipientsOn(c) \subseteq holders[c]

\* What makes the above inductive: a forgotten key is bound nowhere, and
\* nobody was given a key that was never made.
AbsentUnbound == \A f \in Fps : ~Known(f) => peers[f].handle = NoHandle
NoKeyNoRecipients == \A c \in Channels : outgoing[c] = "none" => RecipientsOn(c) = {}

TrustInv ==
  /\ TablesTypeOK
  /\ AbsentUnbound
  /\ OneKeyPerHandle
  /\ RowsBound
  /\ NoKeyNoRecipients
  /\ RecipientsCurrent

\* classify_peer_change: a key that is bound to a handle moves to another one
\* only when the user reverifies it.
MovesByConsent ==
  [][(\E f \in Fps : /\ peers[f].handle # NoHandle
                     /\ peers'[f].handle \notin {NoHandle, peers[f].handle})
       => Reverify]_vars

\* "Deciding one is not deciding the rest": a step that retires warnings
\* retires those filed under one handle.  (A restart forgets them all.)
OneDecisionAtATime ==
  [][~Restart =>
       \A m, n \in Range(notices) \ Range(notices') : m.handle = n.handle]_vars

\* evict_replaced_identity: giving the handle of a key to another key does not
\* delete a key whose move the user has yet to answer.
MovingKeysSurvive ==
  [][\A f, g \in Fps :
       /\ Known(f) /\ Moving(f) /\ peers[f].handle # NoHandle
       /\ peers'[g].handle = peers[f].handle /\ g # f
       => peers'[f].status # "absent"]_vars

\* e2e_accept: a zero-filled placeholder is never trusted.
PlaceholderNeverTrusted ==
  \A h \in Handles, c \in Channels : Trusted(h, c) => sessions[h][c].real

\* TrustChange::Revoked: a handshake does not trust a revoked peer again.
RevokedStaysRevoked ==
  [][\A f \in Fps, h \in Handles, c \in Channels :
       Message(f, h, c) /\ sessions[h][c].status = "revoked" => ~Trusted(h, c)']_vars
=============================================================================
