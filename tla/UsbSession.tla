----------------------------- MODULE UsbSession -----------------------------
(***************************************************************************)
(* The session of firmware/src/usb_session.c under the connection edges of *)
(* the main loop.  A host is challenged when the loop sees it connected,   *)
(* authenticates, has frames signed and sends them; the cable keeps no     *)
(* promise: a signed frame may arrive once, many times, late or never, and *)
(* also in a later session.                                                *)
(*                                                                         *)
(* The challenge is a hash of the tick it was issued at and stands for     *)
(* that tick; before any, its length is zero and the response is the hash  *)
(* of nothing.  A mac is what it is computed from.  The hash is taken not  *)
(* to collide, and the crypto engine not to halt.                          *)
(***************************************************************************)
EXTENDS Naturals, FiniteSets

CONSTANTS
    Ticks,        \* values of HAL_GetTick() at which sessions start
    NoChallenge,
    Payloads,     \* lengths of payloads
    ScratchSize,  \* sizeof(scratch), 32
    TagSize,      \* what the secure element wants on top of the payload, 16
    MaxFrames     \* bound on the frames of one session

ASSUME SessionAssumption ==
    /\ NoChallenge \notin Ticks
    /\ Payloads \subseteq Nat /\ {ScratchSize, TagSize, MaxFrames} \subseteq Nat

VARIABLES
    plugged,   \* a host is there
    prev,      \* usb_connected_prev of the main loop
    session,   \* g_session
    counter,   \* g_expected_client_counter
    challenge, \* g_challenge
    signed,    \* frames that the host holds, whichever session signed them
    answered,  \* auxiliary: the challenge last answered in this session
    accepted   \* auxiliary: frames verified since the session state was reset

cable == <<plugged, prev>>

state == <<session, counter, challenge>>

vars == <<cable, state, signed, answered, accepted>>

Challenges == Ticks \cup {NoChallenge}

ZeroSession == [authenticated |-> FALSE, session_id |-> 0, verified_frames |-> 0]

\* build_session_aad: the id and the counter are all that ties a frame to a session.
Frame(payload) ==
    [payload |-> payload, session_id |-> session.session_id, counter |-> counter]

Frames ==
    [payload : Payloads, session_id : {0, 1}, counter : 0..MaxFrames + 1]

\* A mac is computed by encrypting into the scratch buffer, tag included.
MacComputable(payload) == payload + TagSize <= ScratchSize

Reset(id, first, tick) ==
    /\ session' = [ZeroSession EXCEPT !.session_id = id]
    /\ counter' = first /\ challenge' = tick
    /\ answered' = NoChallenge /\ accepted' = {}

Init ==
    /\ plugged = FALSE /\ prev = FALSE
    /\ session = ZeroSession /\ counter = 0 /\ challenge = NoChallenge
    /\ signed = {} /\ answered = NoChallenge /\ accepted = {}

\* Mutant: a new session inherits the authentication.
UsbSessionStartKept(tick) ==
    /\ session' = [session EXCEPT !.session_id = 1]
    /\ counter' = 1 /\ challenge' = tick
    /\ UNCHANGED answered /\ accepted' = {}

UsbSessionStart(tick) == Reset(1, 1, tick)

\* usb_session_end, and usb_session_init.
UsbSessionEnd == Reset(0, 0, NoChallenge)

----------------------------------------------------------------------------
\* The host and the cable.

Plug == ~plugged /\ plugged' = TRUE /\ UNCHANGED <<prev, state, signed, answered, accepted>>

Unplug == plugged /\ plugged' = FALSE /\ UNCHANGED <<prev, state, signed, answered, accepted>>

\* usb_session_authenticate with the response to the challenge given: it may be
\* repeated, and is answered before usb_session_start too.
Authenticate(answer) ==
    /\ plugged
    /\ answer = challenge
    /\ session' = [session EXCEPT !.authenticated = TRUE]
    /\ answered' = answer
    /\ UNCHANGED <<cable, counter, challenge, signed, accepted>>

\* Mutant: signing uses the counter up.
SignPayloadCounting(payload) ==
    /\ plugged
    /\ session.authenticated /\ MacComputable(payload)
    /\ signed' = signed \cup {Frame(payload)}
    /\ counter' = counter + 1
    /\ UNCHANGED <<cable, session, challenge, answered, accepted>>

\* usb_session_sign_payload does not use the counter up.
SignPayload(payload) ==
    /\ plugged
    /\ session.authenticated /\ MacComputable(payload)
    /\ signed' = signed \cup {Frame(payload)}
    /\ UNCHANGED <<cable, state, answered, accepted>>

\* Mutant: the frame is counted and its counter may be used again.
VerifyPayloadAgain(frame) ==
    /\ plugged
    /\ session.authenticated /\ MacComputable(frame.payload)
    /\ frame = Frame(frame.payload)
    /\ session.verified_frames < MaxFrames
    /\ session' = [session EXCEPT !.verified_frames = @ + 1]
    /\ accepted' = accepted \cup {frame}
    /\ UNCHANGED <<cable, counter, challenge, signed, answered>>

VerifyPayload(frame) ==
    /\ plugged
    /\ session.authenticated /\ MacComputable(frame.payload)
    /\ frame = Frame(frame.payload)
    /\ counter <= MaxFrames
    /\ counter' = counter + 1
    /\ session' = [session EXCEPT !.verified_frames = counter' - 1]
    /\ accepted' = accepted \cup {frame}
    /\ UNCHANGED <<cable, challenge, signed, answered>>

\* usb_session_start called again while the host stays connected.
Restart(tick) == prev /\ UsbSessionStart(tick) /\ UNCHANGED <<cable, signed>>

----------------------------------------------------------------------------
\* The connection edges of the main loop.  A cable that is pulled and put back
\* between two looks makes no edge: the session goes on.

SeeConnected(tick) ==
    /\ plugged /\ ~prev
    /\ prev' = TRUE
    /\ UsbSessionStart(tick)
    /\ UNCHANGED <<plugged, signed>>

\* Mutant: a session in use is not ended.
SeeDisconnectedIdle ==
    /\ ~plugged /\ prev /\ ~session.authenticated
    /\ prev' = FALSE
    /\ UsbSessionEnd
    /\ UNCHANGED <<plugged, signed>>

SeeDisconnected ==
    /\ ~plugged /\ prev
    /\ prev' = FALSE
    /\ UsbSessionEnd
    /\ UNCHANGED <<plugged, signed>>

Look == SeeDisconnected \/ \E tick \in Ticks : SeeConnected(tick)

Next ==
    \/ Plug \/ Unplug \/ Look
    \/ \E tick \in Ticks : Restart(tick)
    \/ \E answer \in Challenges : Authenticate(answer)
    \/ \E payload \in Payloads : SignPayload(payload)
    \/ \E frame \in signed : VerifyPayload(frame)

Spec == Init /\ [][Next]_vars /\ WF_vars(Look)

----------------------------------------------------------------------------
\* The state keeps its shape, and every accepted frame was signed.
SessionTypeOK ==
    /\ plugged \in BOOLEAN /\ prev \in BOOLEAN
    /\ session \in [authenticated : BOOLEAN, session_id : {0, 1},
                    verified_frames : 0..MaxFrames]
    /\ counter \in 0..MaxFrames + 1 /\ challenge \in Challenges
    /\ signed \subseteq Frames /\ accepted \subseteq signed
    /\ answered \in Challenges

\* However often, late or out of order frames arrive, an open session accepts
\* each of them at most once and reports exactly how many it has accepted.
FramesCounted ==
    challenge # NoChallenge => session.verified_frames = Cardinality(accepted)

\* While the loop has a host connected, that host counts as authenticated, and
\* its frames are accepted, only once the challenge issued to it is answered: an
\* answer given before usb_session_start, or in an earlier session, is void.
AnswersItsChallenge ==
    prev /\ (session.authenticated \/ accepted # {}) =>
        challenge # NoChallenge /\ answered = challenge

\* production/SECURITY_BASELINE.md:31 asks for "session authentication via
\* usb_session_start() and usb_session_authenticate()": nobody is authenticated
\* to whom no challenge was issued.
AuthenticatedAfterStart == session.authenticated => challenge # NoChallenge

\* A session opened by the loop does not outlast its host: once the cable stays
\* out, the loop ends it.
SessionEnds == ~plugged ~> (plugged \/ challenge = NoChallenge)

=============================================================================
