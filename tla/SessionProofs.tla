---------------------------- MODULE SessionProofs ----------------------------
(***************************************************************************)
(* Proofs about the USB session for every set of ticks and payloads and    *)
(* every number of frames: what it counts, and whom it takes for           *)
(* authenticated, over a cable that repeats, delays and loses frames.      *)
(***************************************************************************)
EXTENDS UsbSession, FiniteSetTheorems, TLAPS

\* In an open session the counter is one ahead of the frames accepted, and all
\* of these were signed under a smaller one: none of them can come again.
CounterAhead ==
    challenge # NoChallenge =>
        /\ IsFiniteSet(accepted)
        /\ counter = Cardinality(accepted) + 1
        /\ session.verified_frames = Cardinality(accepted)
        /\ \A frame \in accepted : frame.counter < counter

\* A challenge stands while the loop has a host connected, and nothing is
\* accepted under it before it is answered.
ChallengeStands ==
    /\ prev <=> challenge # NoChallenge
    /\ prev /\ (session.authenticated \/ accepted # {}) => answered = challenge

SessionInv == SessionTypeOK /\ CounterAhead /\ ChallengeStands

-----------------------------------------------------------------------------
LEMMA MaxFramesType == MaxFrames \in Nat
BY SessionAssumption

\* A session without authentication or frames is a session.
LEMMA FreshSession ==
  ASSUME NEW id \in {0, 1}
  PROVE  /\ [ZeroSession EXCEPT !.session_id = id] \in
              [authenticated : BOOLEAN, session_id : {0, 1}, verified_frames : 0..MaxFrames]
         /\ ZeroSession \in
              [authenticated : BOOLEAN, session_id : {0, 1}, verified_frames : 0..MaxFrames]
<1>1. 0 \in 0..MaxFrames
  BY MaxFramesType
<1>2. QED
  BY <1>1 DEF ZeroSession

LEMMA SessionInit == Init => SessionInv
<1> SUFFICES ASSUME Init PROVE SessionInv
  OBVIOUS
<1>1. SessionTypeOK
  <2>1. session \in [authenticated : BOOLEAN, session_id : {0, 1},
                    verified_frames : 0..MaxFrames]
    BY FreshSession DEF Init
  <2>2. plugged \in BOOLEAN /\ prev \in BOOLEAN
    BY DEF Init
  <2>3. QED
    BY <2>1, <2>2, MaxFramesType DEF Init, SessionTypeOK, Challenges
<1>2. CounterAhead /\ ChallengeStands
  BY DEF Init, CounterAhead, ChallengeStands, ZeroSession
<1>3. QED
  BY <1>1, <1>2 DEF SessionInv

\* A session that starts or ends has accepted nothing and authenticated nobody.
LEMMA ResetInv ==
  ASSUME SessionInv, plugged' = plugged, signed' = signed,
         NEW id \in {0, 1}, NEW tick \in Challenges, Reset(id, id, tick),
         tick # NoChallenge => id = 1,
         prev' \in BOOLEAN, prev' <=> tick # NoChallenge
  PROVE  SessionInv'
<1>1. /\ session' = [ZeroSession EXCEPT !.session_id = id]
      /\ counter' = id /\ challenge' = tick
      /\ answered' = NoChallenge /\ accepted' = {}
  BY DEF Reset
<1>2. SessionTypeOK'
  <2>1. plugged' \in BOOLEAN /\ prev' \in BOOLEAN
    BY DEF SessionInv, SessionTypeOK
  <2>2. /\ session' \in [authenticated : BOOLEAN, session_id : {0, 1},
                         verified_frames : 0..MaxFrames]
        /\ counter' \in 0..MaxFrames + 1 /\ challenge' \in Challenges
        /\ signed' \subseteq Frames /\ accepted' \subseteq signed'
        /\ answered' \in Challenges
    BY <1>1, MaxFramesType, FreshSession DEF SessionInv, SessionTypeOK, Challenges
  <2>3. QED
    BY <2>1, <2>2 DEF SessionTypeOK
<1>3. IsFiniteSet({}) /\ Cardinality({}) = 0
  BY FS_EmptySet
<1>4. CounterAhead'
  BY <1>1, <1>3 DEF CounterAhead, ZeroSession
<1>5. ~session'.authenticated
  BY <1>1 DEF ZeroSession
<1>6. ChallengeStands'
  BY <1>1, <1>5 DEF ChallengeStands
<1>7. QED
  BY <1>2, <1>4, <1>6 DEF SessionInv

LEMMA LookInv ==
  ASSUME SessionInv, Look \/ \E tick \in Ticks : Restart(tick)
  PROVE  SessionInv'
<1>1. CASE SeeDisconnected
  BY <1>1, ResetInv DEF SeeDisconnected, UsbSessionEnd, Challenges
<1>2. ASSUME NEW tick \in Ticks, SeeConnected(tick) PROVE SessionInv'
  BY <1>2, ResetInv, SessionAssumption DEF SeeConnected, UsbSessionStart, Challenges
<1>3. ASSUME NEW tick \in Ticks, Restart(tick) PROVE SessionInv'
  <2>1. prev = TRUE
    BY <1>3 DEF Restart, SessionInv, SessionTypeOK
  <2>2. QED
    BY <1>3, <2>1, ResetInv, SessionAssumption
       DEF Restart, UsbSessionStart, Challenges, cable
<1>4. QED
  BY <1>1, <1>2, <1>3 DEF Look

\* Plugging and unplugging between two looks changes nothing the session keeps.
LEMMA CableInv ==
  ASSUME SessionInv, Plug \/ Unplug
  PROVE  SessionInv'
<1>1. /\ plugged' \in BOOLEAN
      /\ UNCHANGED <<prev, session, counter, challenge, signed, answered, accepted>>
  BY DEF Plug, Unplug, state, SessionInv, SessionTypeOK
<1>2. QED
  BY <1>1 DEF SessionInv, SessionTypeOK, CounterAhead, ChallengeStands

LEMMA AuthenticateInv ==
  ASSUME SessionInv, NEW answer \in Challenges, Authenticate(answer)
  PROVE  SessionInv'
<1>1. /\ session' = [session EXCEPT !.authenticated = TRUE] /\ answered' = answer
      /\ answer = challenge
      /\ UNCHANGED <<plugged, prev, counter, challenge, signed, accepted>>
  BY DEF Authenticate, cable
<1>2. session'.verified_frames = session.verified_frames
  BY <1>1 DEF SessionInv, SessionTypeOK
<1>3. QED
  BY <1>1, <1>2 DEF SessionInv, SessionTypeOK, CounterAhead, ChallengeStands

LEMMA SignInv ==
  ASSUME SessionInv, NEW payload \in Payloads, SignPayload(payload)
  PROVE  SessionInv'
<1>1. /\ signed' = signed \cup {Frame(payload)}
      /\ UNCHANGED <<plugged, prev, session, counter, challenge, answered, accepted>>
  BY DEF SignPayload, cable, state
<1>2. Frame(payload) \in Frames
  BY DEF Frame, Frames, SessionInv, SessionTypeOK
<1>3. QED
  BY <1>1, <1>2 DEF SessionInv, SessionTypeOK, CounterAhead, ChallengeStands

\* The frame accepted carries the counter, so it was not accepted before.
LEMMA VerifyInv ==
  ASSUME SessionInv, NEW frame \in signed, VerifyPayload(frame)
  PROVE  SessionInv'
<1>1. /\ frame.counter = counter /\ counter \in 0..MaxFrames
      /\ counter' = counter + 1
      /\ session' = [session EXCEPT !.verified_frames = counter]
      /\ accepted' = accepted \cup {frame}
      /\ UNCHANGED <<plugged, prev, challenge, signed, answered>>
  BY SessionAssumption DEF VerifyPayload, Frame, cable, SessionInv, SessionTypeOK
<1>2. SessionTypeOK'
  BY <1>1, SessionAssumption DEF SessionInv, SessionTypeOK
<1>3. CounterAhead'
  <2>1. SUFFICES ASSUME challenge # NoChallenge PROVE CounterAhead'
    BY <1>1 DEF CounterAhead
  <2>2. /\ IsFiniteSet(accepted)
        /\ counter = Cardinality(accepted) + 1
        /\ \A f \in accepted : f.counter < counter
    BY <2>1 DEF SessionInv, CounterAhead
  <2>3. frame \notin accepted
    BY <1>1, <2>2
  <2>4. IsFiniteSet(accepted') /\ Cardinality(accepted') = Cardinality(accepted) + 1
    BY <1>1, <2>2, <2>3, FS_AddElement
  <2>5. \A f \in accepted : f.counter \in Nat
    BY DEF SessionInv, SessionTypeOK, Frames
  <2>6. \A f \in accepted' : f.counter < counter'
    BY <1>1, <2>2, <2>5
  <2>7. session'.verified_frames = counter
    BY <1>1 DEF SessionInv, SessionTypeOK
  <2>8. QED
    BY <1>1, <2>2, <2>4, <2>6, <2>7 DEF CounterAhead
<1>4. ChallengeStands'
  <2>1. session.authenticated
    BY DEF VerifyPayload
  <2>2. QED
    BY <1>1, <2>1 DEF SessionInv, SessionTypeOK, ChallengeStands
<1>5. QED
  BY <1>2, <1>3, <1>4 DEF SessionInv

LEMMA SessionStep == SessionInv /\ [Next]_vars => SessionInv'
<1> SUFFICES ASSUME SessionInv, [Next]_vars PROVE SessionInv'
  OBVIOUS
<1>1. CASE UNCHANGED vars
  BY <1>1 DEF vars, cable, state, SessionInv, SessionTypeOK, CounterAhead,
              ChallengeStands
<1>2. QED
  BY <1>1, LookInv, CableInv, AuthenticateInv, SignInv, VerifyInv DEF Next

LEMMA SessionInvariant == Spec => []SessionInv
BY SessionInit, SessionStep, PTL DEF Spec

-----------------------------------------------------------------------------
\* Session, counter, challenge and frames keep their types; only frames that
\* were signed are accepted.
THEOREM SessionTypeCorrect == Spec => []SessionTypeOK
<1>1. SessionInv => SessionTypeOK
  BY DEF SessionInv
<1>2. QED
  BY <1>1, SessionInvariant, PTL

\* usb_session_verify_payload accepts each frame at most once in a session and
\* reports the number of those it accepted.
THEOREM FramesCountedOnce == Spec => []FramesCounted
<1>1. SessionInv => FramesCounted
  BY DEF SessionInv, CounterAhead, FramesCounted
<1>2. QED
  BY <1>1, SessionInvariant, PTL

\* While the main loop has a host connected, it counts as authenticated, and its
\* frames are accepted, only after usb_session_start challenged it and it
\* answered: what was answered before the start, or in an earlier session, does
\* not carry over.
THEOREM ChallengeAnswered == Spec => []AnswersItsChallenge
<1>1. SessionInv => AnswersItsChallenge
  BY DEF SessionInv, ChallengeStands, AnswersItsChallenge
<1>2. QED
  BY <1>1, SessionInvariant, PTL

=============================================================================
