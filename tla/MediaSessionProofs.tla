--------------------------- MODULE MediaSessionProofs ---------------------------
(* The playback state machine, for any duration, any media and any number of    *)
(* events.                                                                      *)
EXTENDS MediaSession, FiniteSetTheorems, WellFoundedInduction, TLAPS

(* The records that a session can be. *)
States ==
    [state : {"Empty", "Opening", "Ready", "Error"}, intent : {"Playing", "Paused", "Stopped"},
     audioIntent : BOOLEAN, input : {"none", "local", "remote"},
     seeking : BOOLEAN, ended : BOOLEAN, requested : Positions,
     anchor : Positions, anchored : BOOLEAN, elapsed : Positions,
     established : BOOLEAN, tail : BOOLEAN, interruption : {"None", "Buffering"},
     hold : Graces, unavailable : Graces, timer : BOOLEAN,
     device : Devices, active : Devices, fallback : BOOLEAN,
     reopen : BOOLEAN, recoverAt : Positions, recoverSeeking : BOOLEAN,
     known : BOOLEAN, tracks : BOOLEAN,
     operation : {"none", "running"}, next : Positions, discovered : BOOLEAN,
     described : BOOLEAN, drained : BOOLEAN, queue : SUBSET Frames, woken : BOOLEAN,
     last : Frames \cup {NoFrame}, shown : Frames \cup {NoFrame},
     audio : Outputs, heard : Positions]

(* The same in four parts, which are easier to establish. *)
Fields ==
    {"state", "intent", "audioIntent", "input", "seeking", "ended", "requested", "anchor",
     "anchored", "elapsed", "established", "tail", "interruption", "hold", "unavailable",
     "timer", "device", "active", "fallback", "reopen", "recoverAt", "recoverSeeking", "known",
     "tracks", "operation", "next", "discovered", "described", "drained", "queue", "woken",
     "last", "shown", "audio", "heard"}
Shape(s) == s = [f \in DOMAIN s |-> s[f]] /\ DOMAIN s = Fields
Flags(s) ==
    /\ s.audioIntent \in BOOLEAN /\ s.seeking \in BOOLEAN /\ s.ended \in BOOLEAN
    /\ s.anchored \in BOOLEAN /\ s.established \in BOOLEAN /\ s.tail \in BOOLEAN
    /\ s.timer \in BOOLEAN /\ s.fallback \in BOOLEAN /\ s.reopen \in BOOLEAN
    /\ s.recoverSeeking \in BOOLEAN /\ s.known \in BOOLEAN /\ s.tracks \in BOOLEAN
    /\ s.discovered \in BOOLEAN /\ s.described \in BOOLEAN /\ s.drained \in BOOLEAN
    /\ s.woken \in BOOLEAN
Times(s) ==
    /\ s.requested \in Positions /\ s.anchor \in Positions /\ s.elapsed \in Positions
    /\ s.recoverAt \in Positions /\ s.next \in Positions /\ s.heard \in Positions
Kinds(s) ==
    /\ s.state \in {"Empty", "Opening", "Ready", "Error"}
    /\ s.intent \in {"Playing", "Paused", "Stopped"}
    /\ s.input \in {"none", "local", "remote"} /\ s.interruption \in {"None", "Buffering"}
    /\ s.hold \in Graces /\ s.unavailable \in Graces
    /\ s.device \in Devices /\ s.active \in Devices /\ s.operation \in {"none", "running"}
    /\ s.queue \in SUBSET Frames
    /\ s.last \in Frames \cup {NoFrame} /\ s.shown \in Frames \cup {NoFrame}
    /\ s.audio \in Outputs

(* A record is a state when its parts are. *)
LEMMA InParts == \A s : s \in States <=> Shape(s) /\ Flags(s) /\ Times(s) /\ Kinds(s)
BY DEF States, Shape, Flags, Times, Kinds, Fields

(* The bounds of media time. *)
LEMMA Bounds ==
    /\ Duration \in Nat /\ Duration > 0 /\ 0 \in Positions /\ Duration \in Positions
    /\ \A p \in Positions : p \in Int /\ 0 <= p /\ p <= Duration
    /\ \A f \in Frames : f \in Int /\ 0 <= f /\ f < Duration /\ f # NoFrame /\ f + 1 \in Positions
BY SessionAssumption DEF Positions, Frames, NoFrame

(* The smaller of two. *)
LEMMA SmallerOf ==
    ASSUME NEW x \in Int, NEW y \in Int
    PROVE  Min({x, y}) = IF x <= y THEN x ELSE y
<1>1. PICK m \in {x, y} : \A z \in {x, y} : m <= z
  OBVIOUS
<1>2. Min({x, y}) \in {x, y} /\ \A z \in {x, y} : Min({x, y}) <= z
  BY <1>1 DEF Min
<1> QED BY <1>2

(* The newest of the frames that are due. *)
LEMMA NewestOf ==
    ASSUME NEW S, S \subseteq Frames, S # {}
    PROVE  Max(S) \in S
<1>1. S \subseteq Int /\ IsFiniteSet(S)
  <2>1. Frames \subseteq Int /\ IsFiniteSet(Frames)
    BY FS_Interval, SessionAssumption DEF Frames
  <2> QED BY <2>1, FS_Subset
<1> DEFINE Above(x) == {y \in S : y > x}
           Family == {Above(x) : x \in S}
<1>2. Family \subseteq FiniteSubsetsOf(S) /\ Family # {}
  <2>1. \A x \in S : Above(x) \in SUBSET S /\ IsFiniteSet(Above(x))
    BY <1>1, FS_Subset
  <2> QED BY <2>1 DEF FiniteSubsetsOf
<1>3. IsWellFoundedOn(StrictSubsetOrdering(S), FiniteSubsetsOf(S))
  BY FS_StrictSubsetOrderingWellFounded
<1>4. PICK A \in Family : \A B \in Family : ~(<<B, A>> \in StrictSubsetOrdering(S))
  BY <1>2, <1>3, WFMin
<1>5. PICK x \in S : A = Above(x)
  OBVIOUS
<1>6. \A y \in S : ~(y > x)
  <2> SUFFICES ASSUME NEW y \in S, y > x PROVE FALSE
    OBVIOUS
  <2>1. x \in Int /\ y \in Int
    BY <1>1
  <2>2. \A z \in S : z \in Int /\ (z > y => z > x)
    BY <1>1, <2>1
  <2>3. Above(y) \subseteq Above(x)
    BY <2>2
  <2>4. y \in Above(x) /\ y \notin Above(y)
    BY <2>1
  <2>5. <<Above(y), A>> \in StrictSubsetOrdering(S)
    BY <1>5, <2>3, <2>4 DEF StrictSubsetOrdering
  <2> QED BY <1>4, <2>5
<1>7. \A y \in S : x >= y
  BY <1>1, <1>6
<1> QED BY <1>7 DEF Max

-------------------------------------------------------------------------------
(* The inductive invariant, of a session record.                                *)

(* Only a session that is Ready and seeks no more shows something. *)
Showing(s) == s.shown # NoFrame => s.state = "Ready" /\ ~s.seeking

(* A seek is under way in an open session only, and an open session has a medium. *)
Closed(s) ==
    /\ s.seeking => Open(s)
    /\ Open(s) => s.input # "none"

(* Hardware is used only while the device offers it; after the fallback it is   *)
(* not, although the device would.                                              *)
Software(s) ==
    /\ s.active = "hardware" => s.device = "hardware"
    /\ s.reopen => ~s.fallback
    /\ s.fallback /\ Open(s) => s.active = "unavailable" /\ s.device = "hardware"

(* The anchor follows what is heard until the tail carries the clock. *)
Heard(s) ==
    /\ s.audio = "none" => ~s.established
    /\ s.established /\ ~s.tail => s.anchor <= s.heard
    /\ s.tail => s.established /\ s.audio \in {"drained", "failed"} /\ s.interruption = "None"
    /\ s.audio # "none" => s.requested <= s.heard

Sound(s) == s \in States /\ Showing(s) /\ Closed(s) /\ Software(s) /\ Heard(s)

(* Without a change of track while the device is away: what waits for the       *)
(* device does nothing else, an open session that does not wait decodes or has  *)
(* decoded everything, and a playing one has its timer.                         *)
Paced(s) ==
    /\ s.reopen => /\ s.state = "Opening" /\ s.operation = "none" /\ s.requested = s.recoverAt
                   /\ s.audio = "none" /\ s.queue = {} /\ ~s.discovered /\ ~s.woken
    /\ Open(s) /\ ~s.reopen /\ s.operation = "none" => s.drained
    /\ s.drained => s.discovered
    /\ s.seeking /\ s.drained => s.queue # {}
    /\ s.state = "Ready" => s.anchored
    /\ Open(s) /\ PlayRequested(s) /\ ~s.reopen => s.timer

-------------------------------------------------------------------------------
(* What the operators do to a session.                                          *)

(* What neither a cancelled pipeline nor a reset touches. *)
Chosen(s, r) ==
    /\ r.state = s.state /\ r.intent = s.intent /\ r.audioIntent = s.audioIntent
    /\ r.input = s.input /\ r.device = s.device /\ r.active = s.active
    /\ r.fallback = s.fallback /\ r.reopen = s.reopen /\ r.recoverAt = s.recoverAt
    /\ r.recoverSeeking = s.recoverSeeking /\ r.known = s.known /\ r.tracks = s.tracks

(* The pipeline is cancelled: nothing is shown, queued or heard. *)
LEMMA Cancels ==
    ASSUME NEW s \in States, NEW r, r = CancelPipeline(s)
    PROVE  /\ r \in States /\ Chosen(s, r)
           /\ r.operation = "none" /\ r.queue = {} /\ ~r.woken /\ r.shown = NoFrame
           /\ r.audio = "none"
<1>1. Shape(r)
  <2>1. Shape(s)
    BY InParts
  <2> QED BY <2>1, Zenon DEF Shape, CancelPipeline
<1>2. Flags(r)
  BY DEF States, Flags, CancelPipeline
<1>3. Times(r)
  BY Bounds DEF States, Times, CancelPipeline
<1>4. Kinds(r)
  BY DEF States, Kinds, CancelPipeline, Graces, Outputs
<1>5. r \in States
  BY <1>1, <1>2, <1>3, <1>4, InParts
<1>6. Chosen(s, r)
  BY DEF States, Chosen, CancelPipeline
<1>7. /\ r.operation = "none" /\ r.queue = {} /\ ~r.woken /\ r.shown = NoFrame
      /\ r.audio = "none"
  BY DEF States, CancelPipeline
<1> QED BY <1>5, <1>6, <1>7

(* The playback is reset: what it had learnt of the medium is forgotten. *)
LEMMA Resets ==
    ASSUME NEW s \in States, NEW p \in Positions, NEW r, r = ResetPlayback(s, p)
    PROVE  /\ r \in States /\ Chosen(s, r)
           /\ r.operation = s.operation /\ r.queue = s.queue /\ r.woken = s.woken
           /\ r.shown = s.shown /\ r.audio = s.audio /\ r.heard = s.heard
           /\ ~r.seeking /\ ~r.ended /\ r.requested = p /\ ~r.established /\ ~r.tail
           /\ r.interruption = "None" /\ ~r.timer /\ r.last = NoFrame
           /\ ~r.discovered /\ ~r.drained
<1>1. Shape(r)
  <2>1. Shape(s)
    BY InParts
  <2> QED BY <2>1, ZenonT(60) DEF Shape, ResetPlayback
<1>2. Flags(r)
  BY DEF States, Flags, ResetPlayback
<1>3. Times(r)
  BY Bounds DEF States, Times, ResetPlayback
<1>4. Kinds(r)
  BY DEF States, Kinds, ResetPlayback, Graces
<1>5. r \in States
  BY <1>1, <1>2, <1>3, <1>4, InParts
<1>6. Chosen(s, r)
  BY DEF States, Chosen, ResetPlayback
<1>7. /\ r.operation = s.operation /\ r.queue = s.queue /\ r.woken = s.woken
      /\ r.shown = s.shown /\ r.audio = s.audio /\ r.heard = s.heard
  BY DEF States, ResetPlayback
<1>8. /\ ~r.seeking /\ ~r.ended /\ r.requested = p /\ ~r.established /\ ~r.tail
      /\ r.interruption = "None" /\ ~r.timer /\ r.last = NoFrame
      /\ ~r.discovered /\ ~r.drained
  BY DEF States, ResetPlayback
<1> QED BY <1>5, <1>6, <1>7, <1>8

(* Both: the session of another operation. *)
Renewed(s, p, r) ==
    /\ r \in States /\ Chosen(s, r)
    /\ r.operation = "none" /\ r.queue = {} /\ ~r.woken /\ r.shown = NoFrame
    /\ r.audio = "none" /\ ~r.seeking /\ ~r.ended /\ r.requested = p
    /\ ~r.established /\ ~r.tail /\ r.interruption = "None" /\ ~r.timer
    /\ r.last = NoFrame /\ ~r.discovered /\ ~r.drained

(* The pipeline is cancelled and the playback reset. *)
LEMMA Renews ==
    ASSUME NEW s \in States, NEW p \in Positions
    PROVE  Renewed(s, p, ResetPlayback(CancelPipeline(s), p))
<1>1. PICK c : c = CancelPipeline(s)
  OBVIOUS
<1>2. PICK r : r = ResetPlayback(c, p)
  OBVIOUS
<1>3. /\ c \in States /\ Chosen(s, c) /\ c.operation = "none" /\ c.queue = {} /\ ~c.woken
      /\ c.shown = NoFrame /\ c.audio = "none"
  BY <1>1, Cancels
<1>4. /\ r \in States /\ Chosen(c, r)
      /\ r.operation = c.operation /\ r.queue = c.queue /\ r.woken = c.woken
      /\ r.shown = c.shown /\ r.audio = c.audio
      /\ ~r.seeking /\ ~r.ended /\ r.requested = p /\ ~r.established /\ ~r.tail
      /\ r.interruption = "None" /\ ~r.timer /\ r.last = NoFrame
      /\ ~r.discovered /\ ~r.drained
  BY <1>2, <1>3, Resets
<1>5. Chosen(s, r)
  BY <1>3, <1>4 DEF Chosen
<1> QED BY <1>1, <1>2, <1>3, <1>4, <1>5 DEF Renewed

(* The intent at the end of a medium: a stop stays a stop. *)
LEMMA Rests ==
    ASSUME NEW s \in States, NEW r, r = Rest(s)
    PROVE  /\ r \in States
           /\ r = [s EXCEPT !.intent = IF s.intent = "Stopped" THEN "Stopped" ELSE "Paused",
                            !.audioIntent = FALSE]
<1>1. Shape(r)
  <2>1. Shape(s)
    BY InParts
  <2> QED BY <2>1, Zenon DEF Shape, Rest
<1>2. Flags(r)
  BY DEF States, Flags, Rest
<1>3. Times(r)
  BY DEF States, Times, Rest
<1>4. Kinds(r)
  BY DEF States, Kinds, Rest
<1>5. r = [s EXCEPT !.intent = IF s.intent = "Stopped" THEN "Stopped" ELSE "Paused",
                    !.audioIntent = FALSE]
  BY Zenon DEF Rest, Stopped
<1> QED BY <1>1, <1>2, <1>3, <1>4, <1>5, InParts

(* What decodes from a position on. *)
LEMMA Decodes ==
    ASSUME NEW s \in States, NEW p \in Positions, NEW d \in Devices, NEW k \in BOOLEAN,
           NEW r, r = StartDecode(s, p, d, k)
    PROVE  /\ r \in States
           /\ r.state = "Opening" /\ r.intent = s.intent /\ r.input = s.input
           /\ r.device = s.device /\ r.active = d /\ r.fallback = s.fallback
           /\ r.reopen = s.reopen /\ r.seeking = k /\ r.requested = p /\ ~r.ended
           /\ r.operation = "running" /\ (r.timer <=> s.intent = "Playing")
           /\ r.shown = NoFrame /\ r.queue = {} /\ r.audio = "none" /\ ~r.established
           /\ ~r.tail /\ ~r.drained /\ ~r.discovered
<1>1. PICK c : c = ResetPlayback(CancelPipeline(s), p)
  OBVIOUS
<1>2. Renewed(s, p, c)
  BY <1>1, Renews
<1>3. r = [c EXCEPT !.state = "Opening", !.active = d, !.seeking = k,
                    !.audioIntent = s.intent = "Playing", !.operation = "running",
                    !.next = Min({p, Duration - 1}), !.timer = s.intent = "Playing"]
  BY <1>1 DEF StartDecode
<1>4. PICK n \in Positions : n = Min({p, Duration - 1})
  <2>1. p \in Int /\ Duration - 1 \in Int /\ p \in Positions /\ Duration - 1 \in Positions
    BY SessionAssumption DEF Positions
  <2> QED BY <2>1, SmallerOf
<1>5. PICK b \in BOOLEAN : b = (s.intent = "Playing")
  OBVIOUS
<1>6. r = [c EXCEPT !.state = "Opening", !.active = d, !.seeking = k, !.audioIntent = b,
                    !.operation = "running", !.next = n, !.timer = b]
  BY <1>3, <1>4, <1>5
<1>7. c \in States
  BY <1>2 DEF Renewed
<1>8. Shape(r)
  <2>1. Shape(c)
    BY <1>7, InParts
  <2> QED BY <1>6, <2>1, Zenon DEF Shape
<1>9. Flags(r)
  BY <1>6, <1>7 DEF States, Flags
<1>10. Times(r)
  BY <1>6, <1>7 DEF States, Times
<1>11. Kinds(r)
  BY <1>6, <1>7 DEF States, Kinds
<1>12. r \in States
  BY <1>8, <1>9, <1>10, <1>11, InParts
<1>13. /\ r.state = "Opening" /\ r.intent = c.intent /\ r.input = c.input
       /\ r.device = c.device /\ r.active = d /\ r.fallback = c.fallback
       /\ r.reopen = c.reopen /\ r.seeking = k /\ r.requested = c.requested
       /\ r.operation = "running" /\ r.timer = b
  BY <1>6, <1>7 DEF States
<1>14. /\ r.ended = c.ended /\ r.shown = c.shown /\ r.queue = c.queue /\ r.audio = c.audio
       /\ r.established = c.established /\ r.tail = c.tail /\ r.drained = c.drained
       /\ r.discovered = c.discovered
  BY <1>6, <1>7 DEF States
<1>15. /\ c.intent = s.intent /\ c.input = s.input /\ c.device = s.device
       /\ c.fallback = s.fallback /\ c.reopen = s.reopen
  BY <1>2 DEF Renewed, Chosen
<1>16. /\ c.requested = p /\ ~c.ended /\ c.shown = NoFrame /\ c.queue = {}
       /\ c.audio = "none" /\ ~c.established /\ ~c.tail /\ ~c.drained /\ ~c.discovered
  BY <1>2 DEF Renewed
<1> QED BY <1>5, <1>12, <1>13, <1>14, <1>15, <1>16

(* What a failed session keeps. *)
Failed(s, r) ==
    /\ r \in States /\ r.state = "Error" /\ r.device = s.device /\ r.active = s.active
    /\ r.fallback = s.fallback /\ r.reopen = s.reopen
    /\ (s.intent = "Stopped" => r.intent = "Stopped")
    /\ r.shown = NoFrame /\ ~r.seeking /\ r.audio = "none" /\ ~r.established /\ ~r.tail
    /\ ~r.drained

(* A failure closes the session and keeps the choice of the decoder. *)
LEMMA FailTo ==
    ASSUME NEW s \in States
    PROVE  Failed(s, Fail(s))
<1>1. PICK c : c = ResetPlayback(CancelPipeline(s), 0)
  OBVIOUS
<1>2. Renewed(s, 0, c) /\ c \in States
  BY <1>1, Bounds, Renews DEF Renewed
<1>3. PICK r : r = [c EXCEPT !.state = "Error"]
  OBVIOUS
<1>4. r \in States
  BY <1>2, <1>3 DEF States
<1>5. /\ r.state = "Error" /\ r.device = c.device /\ r.active = c.active
      /\ r.fallback = c.fallback /\ r.reopen = c.reopen /\ r.intent = c.intent
      /\ r.shown = c.shown /\ r.seeking = c.seeking /\ r.audio = c.audio
      /\ r.established = c.established /\ r.tail = c.tail /\ r.drained = c.drained
  BY <1>2, <1>3 DEF States
<1>6. r = Fail(s)
  BY <1>1, <1>3 DEF Fail
<1> QED BY <1>2, <1>4, <1>5, <1>6 DEF Failed, Renewed, Chosen

(* So does a failure of the audio output. *)
LEMMA FailAudioTo ==
    ASSUME NEW s \in States
    PROVE  Failed(s, FailAudio(s))
<1>1. PICK f : f = Fail(s)
  OBVIOUS
<1>2. Failed(s, f) /\ f \in States
  BY <1>1, FailTo DEF Failed
<1>3. PICK r : r = Rest(f)
  OBVIOUS
<1>4. /\ r \in States
      /\ r = [f EXCEPT !.intent = IF f.intent = "Stopped" THEN "Stopped" ELSE "Paused",
                       !.audioIntent = FALSE]
  BY <1>2, <1>3, Rests
<1>5. /\ r.state = f.state /\ r.device = f.device /\ r.active = f.active
      /\ r.fallback = f.fallback /\ r.reopen = f.reopen
      /\ (f.intent = "Stopped" => r.intent = "Stopped")
      /\ r.shown = f.shown /\ r.seeking = f.seeking /\ r.audio = f.audio
      /\ r.established = f.established /\ r.tail = f.tail /\ r.drained = f.drained
  BY <1>2, <1>4 DEF States
<1>6. r = FailAudio(s)
  BY <1>1, <1>3 DEF FailAudio
<1> QED BY <1>2, <1>4, <1>5, <1>6 DEF Failed

-------------------------------------------------------------------------------
(* The audio output is observed.                                                *)

(* What an observation leaves alone. *)
Listened(s, r) ==
    /\ r \in States
    /\ r.state = s.state /\ r.intent = s.intent /\ r.input = s.input
    /\ r.seeking = s.seeking /\ r.ended = s.ended /\ r.requested = s.requested
    /\ r.timer = s.timer /\ r.device = s.device /\ r.active = s.active
    /\ r.fallback = s.fallback /\ r.reopen = s.reopen /\ r.recoverAt = s.recoverAt
    /\ r.operation = s.operation /\ r.discovered = s.discovered
    /\ r.described = s.described /\ r.drained = s.drained /\ r.queue = s.queue
    /\ r.woken = s.woken /\ r.last = s.last /\ r.shown = s.shown
    /\ r.audio = s.audio /\ r.heard = s.heard

(* Where the clock of the session stands. *)
Clocked(s, r) ==
    /\ r.anchor = s.anchor /\ r.anchored = s.anchored /\ r.elapsed = s.elapsed
    /\ r.established = s.established /\ r.tail = s.tail

(* An anchor moves the clock and nothing else. *)
LEMMA AnchorsAt ==
    ASSUME NEW s \in States, NEW p \in Positions, NEW r, r = AnchorAt(s, p)
    PROVE  /\ Listened(s, r) /\ r.anchor = p /\ r.anchored /\ r.elapsed = 0
           /\ r.established = s.established /\ r.tail = s.tail
           /\ r.interruption = s.interruption /\ r.hold = s.hold
           /\ r.unavailable = s.unavailable
<1>1. Shape(r)
  <2>1. Shape(s)
    BY InParts
  <2> QED BY <2>1, Zenon DEF Shape, AnchorAt
<1>2. Flags(r) /\ Times(r) /\ Kinds(r)
  BY Bounds DEF States, Flags, Times, Kinds, AnchorAt
<1>3. r \in States
  BY <1>1, <1>2, InParts
<1>4. Listened(s, r)
  BY <1>3 DEF States, Listened, AnchorAt
<1> QED BY <1>4 DEF States, AnchorAt

(* What is left of an underrun. *)
LEMMA ObservesHold ==
    ASSUME NEW s \in States, NEW r, r = ObserveHold(s)
    PROVE  /\ Listened(s, r) /\ Clocked(s, r) /\ r.unavailable = s.unavailable
           /\ r.interruption = s.interruption \/ r.interruption = "None" \/ s.audio = "held"
           /\ s.audio # "held" => r.hold = "off"
           /\ r.interruption = "None"
                \/ s.audio \notin {"live", "drained"} \/ ~ActivePlayback(s)
<1>1. CASE ActivePlayback(s) /\ s.established /\ s.audio = "held"
  <2>1. PICK h \in Graces : h = IF s.hold = "off" THEN "late" ELSE s.hold
    BY DEF States, Graces
  <2>2. PICK i \in {"None", "Buffering"} :
            i = IF s.hold = "due" THEN "Buffering" ELSE s.interruption
    BY DEF States
  <2>3. r = [s EXCEPT !.hold = h, !.interruption = i]
    BY <1>1, <2>1, <2>2 DEF ObserveHold
  <2>4. Shape(r)
    <3>1. Shape(s)
      BY InParts
    <3> QED BY <2>3, <3>1, Zenon DEF Shape
  <2>5. Flags(r) /\ Times(r) /\ Kinds(r)
    BY <2>3 DEF States, Flags, Times, Kinds
  <2>6. r \in States
    BY <2>4, <2>5, InParts
  <2>7. Listened(s, r) /\ Clocked(s, r) /\ r.unavailable = s.unavailable
    BY <2>3, <2>6 DEF States, Listened, Clocked
  <2> QED BY <1>1, <2>7
<1>2. CASE ~(ActivePlayback(s) /\ s.established /\ s.audio = "held")
  <2>1. PICK i \in {"None", "Buffering"} :
            i = IF ActivePlayback(s) /\ AudioPosition(s) THEN "None" ELSE s.interruption
    BY DEF States
  <2>2. r = [s EXCEPT !.hold = "off", !.interruption = i]
    BY <1>2, <2>1 DEF ObserveHold
  <2>3. Shape(r)
    <3>1. Shape(s)
      BY InParts
    <3> QED BY <2>2, <3>1, Zenon DEF Shape
  <2>4. Flags(r) /\ Times(r) /\ Kinds(r)
    BY <2>2 DEF States, Flags, Times, Kinds, Graces
  <2>5. r \in States
    BY <2>3, <2>4, InParts
  <2>6. Listened(s, r) /\ Clocked(s, r) /\ r.unavailable = s.unavailable
    BY <2>2, <2>5 DEF States, Listened, Clocked
  <2>7. r.interruption = i /\ r.hold = "off"
    BY <2>2 DEF States
  <2> QED BY <2>1, <2>6, <2>7 DEF AudioPosition
<1> QED BY <1>1, <1>2

(* A clock that is lost for too long fails the output. *)
LEMMA ObservesLoss ==
    ASSUME NEW s \in States, NEW r, r = ObserveLoss(s)
    PROVE  \/ /\ r = FailAudio(s) /\ s.unavailable = "due" /\ ~AudioPosition(s)
              /\ s.state = "Ready"
           \/ /\ Listened(s, r) /\ Clocked(s, r) /\ r.hold = s.hold
              /\ r.interruption = s.interruption
              /\ r.unavailable = IF AudioPosition(s) \/ ~ActivePlayback(s) \/ ~s.established
                                 THEN "off" ELSE "late"
<1>1. CASE ~(AudioPosition(s) \/ ~ActivePlayback(s) \/ ~s.established) /\ s.unavailable = "due"
  BY <1>1 DEF ObserveLoss, ActivePlayback
<1>2. CASE ~(~(AudioPosition(s) \/ ~ActivePlayback(s) \/ ~s.established) /\ s.unavailable = "due")
  <2>1. PICK u \in Graces : u = IF AudioPosition(s) \/ ~ActivePlayback(s) \/ ~s.established
                                THEN "off" ELSE "late"
    BY DEF Graces
  <2>2. r = [s EXCEPT !.unavailable = u]
    BY <1>2, <2>1 DEF ObserveLoss
  <2>3. Shape(r)
    <3>1. Shape(s)
      BY InParts
    <3> QED BY <2>2, <3>1, Zenon DEF Shape
  <2>4. Flags(r) /\ Times(r) /\ Kinds(r)
    BY <2>2 DEF States, Flags, Times, Kinds
  <2>5. r \in States
    BY <2>3, <2>4, InParts
  <2>6. Listened(s, r) /\ Clocked(s, r)
    BY <2>2, <2>5 DEF States, Listened, Clocked
  <2>7. r.unavailable = u /\ r.hold = s.hold /\ r.interruption = s.interruption
    BY <2>2 DEF States
  <2> QED BY <2>1, <2>6, <2>7
<1> QED BY <1>1, <1>2

(* The clock goes over to the video that is left when all sound is out. *)
LEMMA StartsTail ==
    ASSUME NEW s \in States, NEW r, r = StartTail(s)
    PROVE  \/ r = s /\ (s.audio # "drained" \/ s.tail)
           \/ /\ s.audio = "drained" /\ ~s.tail /\ Listened(s, r)
              /\ r.anchor = s.heard /\ r.anchored /\ r.elapsed = 0
              /\ r.established = s.established /\ r.tail /\ r.interruption = "None"
<1>1. CASE s.audio = "drained" /\ ~s.tail
  <2>1. PICK a : a = AnchorAt(s, s.heard)
    OBVIOUS
  <2>2. s.heard \in Positions
    BY DEF States
  <2>3. /\ Listened(s, a) /\ a.anchor = s.heard /\ a.anchored /\ a.elapsed = 0
        /\ a.established = s.established /\ a \in States
    BY <2>1, <2>2, AnchorsAt DEF Listened
  <2>4. r = [a EXCEPT !.tail = TRUE, !.hold = "off", !.unavailable = "off",
                      !.interruption = "None"]
    BY <1>1, <2>1 DEF StartTail
  <2>5. Shape(r)
    <3>1. Shape(a)
      BY <2>3, InParts
    <3> QED BY <2>4, <3>1, Zenon DEF Shape
  <2>6. Flags(r) /\ Times(r) /\ Kinds(r)
    BY <2>3, <2>4 DEF States, Flags, Times, Kinds, Graces
  <2>7. r \in States
    BY <2>5, <2>6, InParts
  <2>8. Listened(a, r)
    BY <2>3, <2>4, <2>7 DEF States, Listened
  <2>9. /\ r.anchor = a.anchor /\ r.anchored = a.anchored /\ r.elapsed = a.elapsed
        /\ r.established = a.established
    <3>1. a \in States
      BY <2>3
    <3> QED BY <2>4, <3>1 DEF States
  <2>11. r.interruption = "None"
    BY <2>3, <2>4 DEF States
  <2>12. r.tail
    BY <2>3, <2>4 DEF States
  <2>10. Listened(s, r)
    BY <2>3, <2>8 DEF Listened
  <2> QED BY <1>1, <2>3, <2>9, <2>10, <2>11, <2>12
<1>2. CASE ~(s.audio = "drained" /\ ~s.tail)
  BY <1>2 DEF StartTail, States
<1> QED BY <1>1, <1>2

(* The position in terms of the fields. *)
LEMMA PositionOf ==
    ASSUME NEW s \in States
    PROVE  /\ Position(s) \in Positions
           /\ Position(s) =
                IF ~s.tail /\ s.audio \in {"live", "held", "drained"} THEN s.heard
                ELSE IF ~s.tail /\ s.audio # "none" /\ s.established THEN s.anchor
                ELSE IF s.anchored /\ s.state = "Ready" /\ s.intent = "Playing" /\ ~s.ended
                          /\ s.interruption = "None"
                THEN IF s.anchor + s.elapsed <= Duration THEN s.anchor + s.elapsed ELSE Duration
                ELSE s.anchor
<1>1. /\ s.anchor \in Positions /\ s.elapsed \in Positions /\ s.heard \in Positions
      /\ Duration \in Positions
  BY Bounds DEF States
<1>2. s.anchor + s.elapsed \in Int /\ 0 <= s.anchor + s.elapsed /\ Duration \in Int
  <2>1. s.anchor \in Int /\ s.elapsed \in Int /\ 0 <= s.anchor /\ 0 <= s.elapsed
    BY <1>1, Bounds
  <2> QED BY <2>1, Bounds
<1>3. Min({s.anchor + s.elapsed, Duration})
        = IF s.anchor + s.elapsed <= Duration THEN s.anchor + s.elapsed ELSE Duration
  BY <1>2, SmallerOf
<1>4. Min({s.anchor + s.elapsed, Duration}) \in Positions
  BY <1>1, <1>2, <1>3, Bounds DEF Positions
<1>5. Advancing(s) <=> s.anchored /\ s.state = "Ready" /\ s.intent = "Playing" /\ ~s.ended
                          /\ s.interruption = "None"
  BY DEF Advancing, IsPlaying, PlayRequested
<1>6. /\ AudioPosition(s) <=> s.audio \in {"live", "held", "drained"}
      /\ UsesAudioClock(s) <=> s.audio # "none"
  BY DEF AudioPosition, UsesAudioClock
<1>7. Position(s) =
        IF ~s.tail /\ s.audio \in {"live", "held", "drained"} THEN s.heard
        ELSE IF ~s.tail /\ s.audio # "none" /\ s.established THEN s.anchor
        ELSE IF s.anchored /\ s.state = "Ready" /\ s.intent = "Playing" /\ ~s.ended
                  /\ s.interruption = "None"
        THEN Min({s.anchor + s.elapsed, Duration})
        ELSE s.anchor
  BY <1>5, <1>6, Zenon DEF Position
<1> QED BY <1>1, <1>3, <1>4, <1>7

(* The position depends on these fields only; what the output says of itself     *)
(* does not count after the hand-over of the clock.                              *)
LEMMA SamePosition ==
    ASSUME NEW s \in States, NEW r \in States,
           r.state = s.state, r.intent = s.intent, r.ended = s.ended,
           r.anchor = s.anchor, r.anchored = s.anchored, r.elapsed = s.elapsed,
           r.tail = s.tail, r.interruption = s.interruption,
           s.tail \/ (r.audio = s.audio /\ r.heard = s.heard /\ r.established = s.established)
    PROVE  Position(r) = Position(s)
<1>1. CASE s.tail
  BY <1>1, PositionOf
<1>2. CASE ~s.tail
  BY <1>2, PositionOf
<1> QED BY <1>1, <1>2

(* What an observation that succeeds tells. *)
Heeded(s, o) ==
    /\ Listened(s, o) /\ Heard(o) /\ s.audio # "failed"
    /\ (s.anchored => o.anchored) /\ (s.established => o.established)
    /\ (s.state = "Ready" /\ s.established => Observed(o) >= Observed(s))
    /\ (s.audio = "none" => o = s)
    /\ (s.audio \in {"live", "held", "drained"} => o.established)
    /\ (s.audio \in {"live", "held"} /\ ~s.tail => o.anchor = s.heard)
    /\ (s.audio = "drained" => o.tail)
    /\ (s.audio = "drained" /\ ~s.tail => o.anchor = s.heard /\ o.elapsed = 0)
    /\ (s.tail => Clocked(s, o))
    /\ (s.audio \in {"none", "silent"} =>
          o.anchor = s.anchor /\ o.tail = s.tail /\ o.established = s.established)
    /\ (s.audio = "silent" /\ s.established /\ ActivePlayback(s) => o.unavailable = "late")

(* An observation either fails the session or tells where it is. *)
LEMMA Observes ==
    ASSUME NEW s \in States, Heard(s), s.state # "Error", NEW o, o = Observe(s)
    PROVE  \/ Heeded(s, o)
           \/ /\ Failed(s, o) /\ s.audio # "none"
              /\ s.audio = "failed" \/ (s.state = "Ready" /\ s.unavailable = "due")
<1>1. CASE ~UsesAudioClock(s)
  <2>1. o = s /\ s.audio = "none"
    BY <1>1 DEF Observe, UsesAudioClock
  <2>2. Listened(s, s) /\ Clocked(s, s)
    BY DEF Listened, Clocked
  <2>3. Observed(s) \in Int
    BY PositionOf, Bounds DEF Observed, States
  <2> QED BY <2>1, <2>2, <2>3 DEF Heeded, Heard
<1>2. CASE s.audio = "failed"
  <2>1. o = FailAudio(s)
    BY <1>2 DEF Observe, UsesAudioClock
  <2> QED BY <1>2, <2>1, FailAudioTo
<1>3. CASE UsesAudioClock(s) /\ s.audio # "failed"
  <2> DEFINE a == IF AudioPosition(s) /\ ~s.tail
                  THEN [AnchorAt(s, s.heard) EXCEPT !.established = TRUE] ELSE s
             h == ObserveHold(a)
             l == ObserveLoss(h)
             t == StartTail(l)
  <2>1. o = IF l.state = "Error" THEN l ELSE t
    BY <1>3 DEF Observe
  <2> HIDE DEF h, l, t
  <2>2. /\ Listened(s, a) /\ a.hold = s.hold /\ a.unavailable = s.unavailable
        /\ a.interruption = s.interruption /\ a.tail = s.tail
        /\ IF AudioPosition(s) /\ ~s.tail
           THEN a.anchor = s.heard /\ a.anchored /\ a.elapsed = 0 /\ a.established
           ELSE a = s
    <3>1. CASE AudioPosition(s) /\ ~s.tail
      <4>1. PICK b : b = AnchorAt(s, s.heard)
        OBVIOUS
      <4>2. s.heard \in Positions
        BY DEF States
      <4>3. /\ Listened(s, b) /\ b.anchor = s.heard /\ b.anchored /\ b.elapsed = 0
            /\ b.tail = s.tail /\ b.interruption = s.interruption /\ b.hold = s.hold
            /\ b.unavailable = s.unavailable /\ b \in States
        BY <4>1, <4>2, AnchorsAt DEF Listened
      <4>4. a = [b EXCEPT !.established = TRUE]
        BY <3>1, <4>1
      <4> HIDE DEF a
      <4>5. Shape(a)
        <5>1. Shape(b)
          BY <4>3, InParts
        <5> QED BY <4>4, <5>1, Zenon DEF Shape
      <4>6. Flags(a) /\ Times(a) /\ Kinds(a)
        BY <4>3, <4>4 DEF States, Flags, Times, Kinds
      <4>7. a \in States
        BY <4>5, <4>6, InParts
      <4>8. Listened(b, a)
        BY <4>3, <4>4, <4>7 DEF States, Listened
      <4>9. /\ a.anchor = b.anchor /\ a.anchored = b.anchored /\ a.elapsed = b.elapsed
            /\ a.tail = b.tail /\ a.interruption = b.interruption /\ a.hold = b.hold
            /\ a.unavailable = b.unavailable
        BY <4>3, <4>4 DEF States
      <4>10. a.established
        BY <4>3, <4>4 DEF States
      <4>11. Listened(s, a)
        BY <4>3, <4>8 DEF Listened
      <4> QED BY <3>1, <4>3, <4>9, <4>10, <4>11
    <3>2. CASE ~(AudioPosition(s) /\ ~s.tail)
      BY <3>2 DEF Listened
    <3> QED BY <3>1, <3>2
  <2> HIDE DEF a
  <2>3. a \in States
    BY <2>2 DEF Listened
  <2>4. /\ Listened(a, h) /\ Clocked(a, h) /\ h.unavailable = a.unavailable /\ h \in States
        /\ h.interruption = a.interruption \/ h.interruption = "None" \/ a.audio = "held"
    BY <2>3, ObservesHold DEF h, Listened
  <2>5. \/ /\ l = FailAudio(h) /\ h.unavailable = "due" /\ h.state = "Ready"
        \/ /\ Listened(h, l) /\ Clocked(h, l) /\ l.interruption = h.interruption
           /\ l.unavailable = IF AudioPosition(h) \/ ~ActivePlayback(h) \/ ~h.established
                              THEN "off" ELSE "late"
    BY <2>4, ObservesLoss DEF l
  <2>6. CASE l = FailAudio(h) /\ h.unavailable = "due" /\ h.state = "Ready"
    <3>1. Failed(h, l)
      BY <2>4, <2>6, FailAudioTo
    <3>2. o = l
      BY <2>1, <3>1 DEF Failed
    <3>3. Failed(s, l)
      BY <2>2, <2>4, <3>1 DEF Failed, Listened
    <3> QED BY <1>3, <2>2, <2>4, <2>6, <3>2, <3>3 DEF Listened, UsesAudioClock
  <2>7. CASE /\ Listened(h, l) /\ Clocked(h, l) /\ l.interruption = h.interruption
             /\ l.unavailable = IF AudioPosition(h) \/ ~ActivePlayback(h) \/ ~h.established
                                THEN "off" ELSE "late"
    <3>1. l \in States
      BY <2>7 DEF Listened
    <3>3. Listened(s, l)
      BY <2>2, <2>4, <2>7 DEF Listened
    <3>2. o = t
      BY <2>1, <3>3 DEF Listened
    <3>4. /\ l.anchor = a.anchor /\ l.anchored = a.anchored /\ l.elapsed = a.elapsed
          /\ l.established = a.established /\ l.tail = s.tail
          /\ l.interruption = s.interruption \/ l.interruption = "None" \/ s.audio = "held"
      BY <2>2, <2>4, <2>7 DEF Clocked, Listened
    <3>5. \/ t = l /\ (s.audio # "drained" \/ s.tail)
          \/ /\ s.audio = "drained" /\ ~s.tail /\ Listened(l, t)
             /\ t.anchor = s.heard /\ t.anchored /\ t.elapsed = 0
             /\ t.established = l.established /\ t.tail /\ t.interruption = "None"
      BY <3>1, <3>3, <3>4, StartsTail DEF t, Listened
    <3>6. Listened(s, t) /\ s.audio # "none" /\ s.audio # "failed"
      BY <1>3, <3>3, <3>5 DEF Listened, UsesAudioClock
    <3>7. s.anchor \in Int /\ s.heard \in Int /\ 0 <= s.heard /\ s.heard <= Duration
      <4>1. s.anchor \in Positions /\ s.heard \in Positions
        BY DEF States
      <4> QED BY <4>1, Bounds
    <3>8. CASE /\ s.audio = "drained" /\ ~s.tail /\ Listened(l, t)
               /\ t.anchor = s.heard /\ t.anchored /\ t.elapsed = 0
               /\ t.established = l.established /\ t.tail /\ t.interruption = "None"
      <4>1. t.established
        BY <2>2, <3>4, <3>8 DEF AudioPosition
      <4>2. Heard(t)
        BY <3>6, <3>8, <4>1 DEF Heard, Listened
      <4>3. s.established => s.anchor <= s.heard
        BY <3>8 DEF Heard
      <4>4. Position(t) = s.heard
        <5>1. t \in States /\ s.heard <= Duration /\ s.heard + 0 = s.heard
          BY <3>6, <3>7 DEF Listened
        <5> QED BY <3>8, <5>1, PositionOf
      <4>5. s.state = "Ready" /\ s.established => Observed(t) >= Observed(s)
        BY <3>7, <3>8, <4>3, <4>4 DEF Observed
      <4> QED BY <3>2, <3>6, <3>8, <4>1, <4>2, <4>5 DEF Heeded
    <3>9. CASE t = l /\ (s.audio # "drained" \/ s.tail)
      <4>1. /\ t.anchor = a.anchor /\ t.anchored = a.anchored /\ t.elapsed = a.elapsed
            /\ t.established = a.established /\ t.tail = s.tail
            /\ t.interruption = s.interruption \/ t.interruption = "None" \/ s.audio = "held"
        BY <3>4, <3>9
      <4>2. CASE s.tail
        <5>1. /\ Clocked(s, t) /\ s.audio = "drained" /\ s.established /\ t.tail
              /\ t.interruption = "None" /\ s.interruption = "None"
          BY <2>2, <3>6, <4>1, <4>2 DEF Heard, Clocked
        <5>2. Heard(t)
          <6>1. /\ t.audio = "drained" /\ t.requested = s.requested /\ t.heard = s.heard
                /\ t.established
            BY <3>6, <5>1 DEF Listened, Clocked
          <6>2. s.requested <= s.heard
            BY <5>1 DEF Heard
          <6> QED BY <5>1, <6>1, <6>2 DEF Heard
        <5>3. Position(t) = Position(s)
          BY <3>6, <4>2, <5>1, PositionOf DEF Listened, Clocked
        <5>4. Observed(t) >= Observed(s)
          <6>1. Position(s) \in Int
            BY PositionOf, Bounds
          <6> QED BY <4>2, <5>1, <5>3, <6>1 DEF Observed
        <5> QED BY <3>2, <3>6, <4>2, <5>1, <5>2, <5>4 DEF Heeded, Clocked
      <4>3. CASE ~s.tail
        <5>1. IF s.audio \in {"live", "held"}
              THEN t.anchor = s.heard /\ t.anchored /\ t.elapsed = 0 /\ t.established
              ELSE Clocked(s, t) /\ s.audio = "silent"
          <6>1. s.audio \in {"silent", "live", "held"}
            BY <3>6, <3>9, <4>3 DEF States, Outputs
          <6> QED BY <2>2, <4>1, <4>3, <6>1 DEF AudioPosition, Clocked
        <5>2. ~t.tail
          BY <4>1, <4>3
        <5>3. Heard(t)
          BY <3>6, <3>7, <5>1, <5>2 DEF Heard, Listened, Clocked
        <5>4. s.state = "Ready" /\ s.established => Observed(t) >= Observed(s)
          <6>1. Observed(t) = t.anchor /\ Observed(s) = s.anchor
            BY <4>3, <5>2 DEF Observed
          <6>2. s.established => s.anchor <= s.heard
            BY <4>3 DEF Heard
          <6>3. t.anchor = s.heard \/ t.anchor = s.anchor
            BY <5>1, Zenon DEF Clocked
          <6>4. s.established => t.anchor >= s.anchor
            BY <3>7, <6>2, <6>3
          <6> QED BY <6>1, <6>4
        <5>5. s.audio = "silent" /\ s.established /\ ActivePlayback(s) => t.unavailable = "late"
          <6>1. s.audio = "silent" => ~AudioPosition(h)
            BY <2>2, <2>4 DEF AudioPosition, Listened
          <6>2. ActivePlayback(s) => ActivePlayback(h)
            BY <2>2, <2>4 DEF ActivePlayback, PlayRequested, Listened
          <6>3. s.audio = "silent" => h.established = s.established
            BY <2>2, <2>4 DEF AudioPosition, Clocked
          <6> QED BY <2>7, <3>9, <6>1, <6>2, <6>3
        <5> QED BY <3>2, <3>6, <3>9, <4>3, <5>1, <5>2, <5>3, <5>4, <5>5 DEF Heeded, Clocked
      <4> QED BY <4>2, <4>3
    <3> QED BY <3>5, <3>8, <3>9
  <2> QED BY <2>5, <2>6, <2>7
<1> QED BY <1>1, <1>2, <1>3

-------------------------------------------------------------------------------
(* A frame is selected.                                                         *)

(* What no selection of a frame changes in a session that is ready. *)
Kept(s, r) ==
    /\ r \in States
    /\ r.state = s.state /\ r.input = s.input /\ r.requested = s.requested
    /\ r.timer = s.timer /\ r.device = s.device /\ r.active = s.active
    /\ r.fallback = s.fallback /\ r.reopen = s.reopen /\ r.recoverAt = s.recoverAt
    /\ r.operation = s.operation /\ r.discovered = s.discovered /\ r.drained = s.drained
    /\ r.woken = s.woken /\ r.audio = s.audio /\ r.heard = s.heard
    /\ r.established = s.established /\ r.tail = s.tail

(* The frames that are due leave the queue and the newest is shown. *)
Took(s, clock, r) ==
    LET due == {f \in s.queue : f <= clock}
    IN /\ r.queue = s.queue \ due
       /\ IF due = {} THEN r.last = s.last /\ r.shown = s.shown
          ELSE r.last \in due /\ r.shown = r.last /\ ~r.seeking
       /\ r.seeking => s.seeking

(* The clock stands where it stood. *)
Timed(s, r) ==
    /\ r.anchor = s.anchor /\ r.anchored = s.anchored /\ r.elapsed = s.elapsed
    /\ r.interruption = s.interruption /\ r.intent = s.intent /\ r.ended = s.ended
    /\ r.unavailable = s.unavailable

(* The medium is over. *)
Over(s, clock, advancing, r) ==
    /\ advancing /\ s.drained /\ (s.audio = "none" \/ s.tail)
    /\ r.queue = {} /\ r.last # NoFrame /\ clock >= Duration

(* The scheduler takes what is due, and ends the medium when it is over. *)
LEMMA Schedules ==
    ASSUME NEW s \in States, NEW clock \in Positions, NEW advancing \in BOOLEAN,
           NEW r, r = Schedule(s, clock, advancing)
    PROVE  /\ Kept(s, r) /\ Took(s, clock, r)
           /\ IF Over(s, clock, advancing, r)
              THEN /\ r.anchor = Duration /\ r.anchored /\ r.elapsed = 0 /\ r.ended
                   /\ ~r.seeking /\ r.interruption = s.interruption
                   /\ (s.intent = "Stopped" => r.intent = "Stopped")
              ELSE Timed(s, r)
<1> DEFINE due == {f \in s.queue : f <= clock}
           t == IF due = {} THEN s
                ELSE [s EXCEPT !.queue = @ \ due, !.last = Max(due), !.shown = Max(due)]
           over == /\ advancing /\ (t.drained /\ (~UsesAudioClock(t) \/ t.tail))
                   /\ t.queue = {} /\ t.last # NoFrame /\ clock >= Duration
           k == s.seeking /\ due = {} /\ ~over
           u == [t EXCEPT !.seeking = k]
<1>1. /\ due \in SUBSET Frames /\ s.queue \ due \in SUBSET Frames /\ due \subseteq s.queue
      /\ k \in BOOLEAN
  BY DEF States
<1>2. due # {} => Max(due) \in due /\ Max(due) \in Frames \cup {NoFrame}
  BY <1>1, NewestOf
<1>3. t.seeking = s.seeking
  BY DEF States
<1>4. r = IF over THEN Rest([AnchorAt(u, Duration) EXCEPT !.ended = TRUE]) ELSE u
  BY <1>3 DEF Schedule
<1>5. /\ Kept(s, u) /\ Timed(s, u) /\ u.seeking = k /\ u.queue = s.queue \ due
      /\ IF due = {} THEN u.last = s.last /\ u.shown = s.shown
         ELSE u.last = Max(due) /\ u.shown = Max(due)
      /\ u.drained = t.drained /\ u.audio = t.audio /\ u.tail = t.tail /\ u.queue = t.queue
      /\ u.last = t.last
  <2>1. CASE due = {}
    <3>1. u = [s EXCEPT !.seeking = k] /\ t = s /\ s.queue \ due = s.queue
      BY <2>1
    <3> HIDE DEF u, t, k, over, due
    <3>2. u \in States
      BY <1>1, <3>1 DEF States
    <3>3. Kept(s, u) /\ Timed(s, u)
      BY <3>1, <3>2 DEF States, Kept, Timed
    <3>4. u.seeking = k
      BY <3>1 DEF States
    <3>5. u.queue = s.queue /\ u.last = s.last /\ u.shown = s.shown
      BY <3>1 DEF States
    <3>6. u.drained = s.drained /\ u.audio = s.audio /\ u.tail = s.tail
      BY <3>1 DEF States
    <3> QED BY <2>1, <3>1, <3>3, <3>4, <3>5, <3>6
  <2>2. CASE due # {}
    <3>1. PICK q \in SUBSET Frames : q = s.queue \ due
      BY <1>1
    <3>2. PICK m \in Frames \cup {NoFrame} : m = Max(due)
      BY <1>2, <2>2
    <3>3. t = [s EXCEPT !.queue = q, !.last = m, !.shown = m]
      BY <2>2, <3>1, <3>2
    <3>4. u = [t EXCEPT !.seeking = k]
      OBVIOUS
    <3> HIDE DEF u, t, k, over, due
    <3>5. Shape(t)
      <4>1. Shape(s)
        BY InParts
      <4> QED BY <3>3, <4>1, Zenon DEF Shape
    <3>6. Flags(t) /\ Times(t) /\ Kinds(t)
      BY <3>3 DEF States, Flags, Times, Kinds
    <3>7. t \in States
      BY <3>5, <3>6, InParts
    <3>8. Kept(s, t) /\ Timed(s, t)
      BY <3>3, <3>7 DEF States, Kept, Timed
    <3>9. t.queue = q /\ t.last = m /\ t.shown = m
      BY <3>3 DEF States
    <3>10. u \in States
      BY <1>1, <3>4, <3>7 DEF States
    <3>11. Kept(t, u) /\ Timed(t, u)
      BY <3>4, <3>7, <3>10 DEF States, Kept, Timed
    <3>12. u.seeking = k
      BY <3>4, <3>7 DEF States
    <3>13. u.queue = t.queue /\ u.last = t.last /\ u.shown = t.shown
      BY <3>4, <3>7 DEF States
    <3>14. Kept(s, u) /\ Timed(s, u)
      BY <3>8, <3>11 DEF Kept, Timed
    <3>15. u.drained = t.drained /\ u.audio = t.audio /\ u.tail = t.tail
      BY <3>11 DEF Kept
    <3> QED BY <2>2, <3>1, <3>2, <3>9, <3>12, <3>13, <3>14, <3>15
  <2> QED BY <2>1, <2>2
<1>6. k => s.seeking /\ due = {} /\ ~over
  OBVIOUS
<1>7. over <=> Over(s, clock, advancing, u)
  <2>1. /\ u.drained = s.drained /\ u.audio = s.audio /\ u.tail = s.tail
    BY <1>5 DEF Kept
  <2>2. UsesAudioClock(t) <=> u.audio # "none"
    BY <1>5 DEF UsesAudioClock
  <2> HIDE DEF u, t, k, due
  <2> QED BY <1>5, <2>1, <2>2 DEF Over
<1> HIDE DEF u, t, k, over
<1>8. CASE ~over
  <2>1. r = u
    BY <1>4, <1>8
  <2> QED BY <1>2, <1>5, <1>6, <1>7, <1>8, <2>1 DEF Took
<1>9. CASE over
  <2>1. PICK a : a = AnchorAt(u, Duration)
    OBVIOUS
  <2>2. u \in States
    BY <1>5 DEF Kept
  <2>3. /\ Listened(u, a) /\ a.anchor = Duration /\ a.anchored /\ a.elapsed = 0
        /\ a.established = u.established /\ a.tail = u.tail
        /\ a.interruption = u.interruption
    BY <2>1, <2>2, AnchorsAt, Bounds
  <2>4. PICK e : e = [a EXCEPT !.ended = TRUE]
    OBVIOUS
  <2>5. e \in States
    <3>1. a \in States /\ Shape(a)
      BY <2>3, InParts DEF Listened
    <3>2. Shape(e)
      BY <2>4, <3>1, Zenon DEF Shape
    <3>3. Flags(e) /\ Times(e) /\ Kinds(e)
      BY <2>4, <3>1 DEF States, Flags, Times, Kinds
    <3> QED BY <3>2, <3>3, InParts
  <2>6. /\ r \in States
        /\ r = [e EXCEPT !.intent = IF e.intent = "Stopped" THEN "Stopped" ELSE "Paused",
                         !.audioIntent = FALSE]
    BY <1>4, <1>9, <2>1, <2>4, <2>5, Rests
  <2>7. /\ Kept(a, e) /\ e.queue = a.queue /\ e.last = a.last /\ e.shown = a.shown
        /\ e.seeking = a.seeking /\ e.intent = a.intent /\ e.interruption = a.interruption
        /\ e.anchor = a.anchor /\ e.anchored = a.anchored /\ e.elapsed = a.elapsed
    <3>1. a \in States
      BY <2>3 DEF Listened
    <3> QED BY <2>4, <2>5, <3>1 DEF States, Kept
  <2>8. e.ended
    <3>1. a \in States
      BY <2>3 DEF Listened
    <3> QED BY <2>4, <3>1 DEF States
  <2>9. /\ Kept(e, r) /\ r.queue = e.queue /\ r.last = e.last /\ r.shown = e.shown
        /\ r.seeking = e.seeking /\ r.interruption = e.interruption
        /\ r.anchor = e.anchor /\ r.anchored = e.anchored /\ r.elapsed = e.elapsed
        /\ r.ended = e.ended
    BY <2>5, <2>6 DEF States, Kept
  <2>10. e.intent = "Stopped" => r.intent = "Stopped"
    BY <2>5, <2>6 DEF States
  <2>11. /\ r.queue = u.queue /\ r.last = u.last /\ r.shown = u.shown
         /\ r.seeking = u.seeking /\ r.interruption = u.interruption
         /\ r.anchor = Duration /\ r.anchored /\ r.elapsed = 0 /\ r.ended
         /\ (u.intent = "Stopped" => r.intent = "Stopped")
    BY <2>3, <2>7, <2>8, <2>9, <2>10 DEF Listened
  <2>12. Kept(s, r)
    BY <1>5, <2>3, <2>7, <2>9 DEF Kept, Listened
  <2>13. Over(s, clock, advancing, r)
    BY <1>7, <1>9, <2>11 DEF Over
  <2>14. ~u.seeking
    BY <1>5, <1>6, <1>9
  <2>15. Took(s, clock, r)
    BY <1>2, <1>5, <2>11, <2>14 DEF Took
  <2>16. r.interruption = s.interruption /\ (s.intent = "Stopped" => r.intent = "Stopped")
    BY <1>5, <2>11 DEF Timed
  <2> QED BY <2>11, <2>12, <2>13, <2>14, <2>15, <2>16
<1> QED BY <1>8, <1>9

(* What resumes or freezes is a silent source: only its clock moves. *)
LEMMA Waits ==
    ASSUME NEW s \in States, s.audio = "none"
    PROVE  /\ LET r == Resume(s)
              IN /\ Kept(s, r) /\ r.anchor = s.anchor /\ r.anchored /\ r.elapsed = 0
                 /\ r.interruption = "None" /\ r.intent = s.intent /\ r.ended = s.ended
                 /\ r.queue = s.queue /\ r.last = s.last /\ r.shown = s.shown
                 /\ r.seeking = s.seeking
           /\ s.last # NoFrame =>
                LET r == Starve(s)
                IN /\ Kept(s, r) /\ r.anchor \in Positions /\ r.anchored /\ r.elapsed = 0
                   /\ r.interruption = "Buffering" /\ r.intent = s.intent /\ r.ended = s.ended
                   /\ r.queue = s.queue /\ r.last = s.last /\ r.shown = s.shown
                   /\ r.seeking = s.seeking
<1>1. PICK r : r = Resume(s)
  OBVIOUS
<1>2. Shape(r)
  <2>1. Shape(s)
    BY InParts
  <2> QED BY <1>1, <2>1, Zenon DEF Shape, Resume
<1>3. Flags(r) /\ Times(r) /\ Kinds(r)
  BY <1>1, Bounds DEF States, Flags, Times, Kinds, Resume
<1>4. r \in States
  BY <1>2, <1>3, InParts
<1>5. Kept(s, r)
  BY <1>1, <1>4 DEF States, Kept, Resume
<1>6. /\ r.anchor = s.anchor /\ r.elapsed = 0
      /\ r.interruption = "None" /\ r.intent = s.intent /\ r.ended = s.ended
      /\ r.queue = s.queue /\ r.last = s.last /\ r.shown = s.shown
      /\ r.seeking = s.seeking
  BY <1>1 DEF States, Resume
<1>7. r.anchored
  BY <1>1 DEF States, Resume
<1>8. ASSUME s.last # NoFrame
      PROVE LET z == Starve(s)
            IN /\ Kept(s, z) /\ z.anchor \in Positions /\ z.anchored /\ z.elapsed = 0
               /\ z.interruption = "Buffering" /\ z.intent = s.intent /\ z.ended = s.ended
               /\ z.queue = s.queue /\ z.last = s.last /\ z.shown = s.shown
               /\ z.seeking = s.seeking
  <2>1. FrameEnd(s) \in Positions
    <3>1. s.last \in Frames
      BY <1>8 DEF States
    <3> QED BY <3>1, Bounds DEF FrameEnd
  <2>2. PICK a : a = AnchorAt(s, FrameEnd(s))
    OBVIOUS
  <2>3. /\ Listened(s, a) /\ a.anchor = FrameEnd(s) /\ a.anchored /\ a.elapsed = 0
        /\ a.established = s.established /\ a.tail = s.tail
    BY <2>1, <2>2, AnchorsAt
  <2>4. PICK z : z = Starve(s)
    OBVIOUS
  <2>5. z = [a EXCEPT !.interruption = "Buffering"]
    BY <2>2, <2>4 DEF Starve
  <2>6. a \in States
    BY <2>3 DEF Listened
  <2>7. Shape(z)
    <3>1. Shape(a)
      BY <2>6, InParts
    <3> QED BY <2>5, <3>1, Zenon DEF Shape
  <2>8. Flags(z) /\ Times(z) /\ Kinds(z)
    BY <2>5, <2>6 DEF States, Flags, Times, Kinds
  <2>9. z \in States
    BY <2>7, <2>8, InParts
  <2>10. Kept(a, z)
    BY <2>5, <2>6, <2>9 DEF States, Kept
  <2>11. /\ z.anchor = a.anchor /\ z.anchored = a.anchored /\ z.elapsed = a.elapsed
         /\ z.interruption = "Buffering" /\ z.intent = a.intent /\ z.ended = a.ended
         /\ z.queue = a.queue /\ z.last = a.last /\ z.shown = a.shown
         /\ z.seeking = a.seeking
    BY <2>5, <2>6 DEF States
  <2>12. Kept(s, z)
    BY <2>3, <2>10 DEF Kept, Listened
  <2> QED BY <2>1, <2>3, <2>4, <2>11, <2>12 DEF Listened
<1> QED BY <1>1, <1>5, <1>6, <1>7, <1>8

(* The position of an established clock never goes back, and a stop stays. *)
Forward(s, r) ==
    s.state = "Ready" /\ r.state = "Ready" /\ s.established /\ r.established
        => Observed(r) >= Observed(s)

(* A stop stays a stop, and no hardware is taken up. *)
Stays(s, r) ==
    /\ s.intent = "Stopped" => r.intent = "Stopped"
    /\ r.active = "hardware" => s.active = "hardware"

(* What is observed is a number. *)
LEMMA ObservedIsInt ==
    ASSUME NEW s \in States
    PROVE  Observed(s) \in Int /\ Observed(s) <= Duration
<1>1. Position(s) \in Positions /\ s.anchor \in Positions
  BY PositionOf DEF States
<1> QED BY <1>1, Bounds DEF Observed

(* Going forward twice. *)
LEMMA ForwardTwice ==
    ASSUME NEW s \in States, NEW t \in States, NEW r \in States,
           Forward(s, t), Forward(t, r), t.state = "Ready",
           s.established => t.established
    PROVE  Forward(s, r)
<1>1. Observed(s) \in Int /\ Observed(t) \in Int /\ Observed(r) \in Int
  BY ObservedIsInt
<1> QED BY <1>1 DEF Forward

(* What a selection leaves of a session that is ready. *)
Selected(s, r) ==
    /\ Kept(s, r) /\ Heard(r) /\ Forward(s, r) /\ Stays(s, r)
    /\ r.seeking => s.seeking /\ r.queue = s.queue /\ r.shown = s.shown
    /\ (r.intent = "Playing" /\ ~r.ended) => (s.intent = "Playing" /\ ~s.ended)
    /\ s.anchored => r.anchored

(* Freezing, resuming and scheduling are all that a selection does. *)
LEMMA SelectsReady ==
    ASSUME NEW s \in States, Heard(s), s.state = "Ready", NEW r, r = SelectReady(s)
    PROVE  Selected(s, r)
<1>1. s.audio = "none" => ~s.established /\ ~s.tail
  BY DEF Heard
<1>2. CASE r = s
  BY <1>2, ObservedIsInt DEF Selected, Kept, Forward, Stays, Heard
<1>3. CASE r = Starve(s) /\ s.audio = "none" /\ s.last # NoFrame
  <2>1. /\ Kept(s, r) /\ r.anchored /\ r.intent = s.intent /\ r.ended = s.ended
        /\ r.queue = s.queue /\ r.shown = s.shown /\ r.seeking = s.seeking
    BY <1>3, Waits
  <2>2. ~r.established /\ ~r.tail /\ r.audio = "none"
    BY <1>1, <1>3, <2>1 DEF Kept
  <2>3. Heard(r) /\ Forward(s, r)
    BY <2>2 DEF Heard, Forward
  <2> QED BY <2>1, <2>3 DEF Selected, Stays, Kept
<1>4. CASE \E t : /\ t = s \/ (t = Resume(s) /\ s.audio = "none")
                  /\ r = Schedule(t, Position(s), Advancing(s))
  <2>1. PICK t : /\ t = s \/ (t = Resume(s) /\ s.audio = "none")
                 /\ r = Schedule(t, Position(s), Advancing(s))
    BY <1>4
  <2>2. /\ Kept(s, t) /\ t.anchor = s.anchor /\ (s.anchored => t.anchored)
        /\ t.intent = s.intent /\ t.ended = s.ended /\ t.queue = s.queue
        /\ t.shown = s.shown /\ t.seeking = s.seeking
        /\ (s.audio # "none" => Timed(s, t))
    <3>1. CASE t = s
      BY <3>1 DEF Kept, Timed
    <3>2. CASE t = Resume(s) /\ s.audio = "none"
      BY <3>2, Waits
    <3> QED BY <2>1, <3>1, <3>2
  <2>3. /\ Kept(t, r) /\ Took(t, Position(s), r)
        /\ IF Over(t, Position(s), Advancing(s), r)
           THEN /\ r.anchor = Duration /\ r.anchored /\ r.elapsed = 0 /\ r.ended
                /\ ~r.seeking /\ r.interruption = t.interruption
                /\ (t.intent = "Stopped" => r.intent = "Stopped")
           ELSE Timed(t, r)
    <3>1. Position(s) \in Positions /\ Advancing(s) \in BOOLEAN /\ t \in States
      BY <2>2, PositionOf DEF Advancing, Kept
    <3> QED BY <2>1, <3>1, Schedules
  <2>4. Kept(s, r)
    BY <2>2, <2>3 DEF Kept
  <2>5. r.seeking => s.seeking /\ r.queue = s.queue /\ r.shown = s.shown
    BY <2>2, <2>3 DEF Took
  <2>6. Stays(s, r) /\ (s.anchored => r.anchored)
    BY <2>2, <2>3 DEF Stays, Timed, Kept
  <2>7. (r.intent = "Playing" /\ ~r.ended) => (s.intent = "Playing" /\ ~s.ended)
    BY <2>2, <2>3 DEF Timed
  <2>8. s.audio # "none" => r.interruption = s.interruption
    BY <2>2, <2>3 DEF Timed
  <2>9. CASE s.audio = "none"
    <3>1. ~r.established /\ ~r.tail /\ r.audio = "none"
      BY <1>1, <2>4, <2>9 DEF Kept
    <3>2. Heard(r) /\ Forward(s, r)
      BY <3>1 DEF Heard, Forward
    <3> QED BY <2>4, <2>5, <2>6, <2>7, <3>2 DEF Selected
  <2>10. CASE s.audio # "none" /\ Over(t, Position(s), Advancing(s), r)
    <3>1. r.tail /\ s.tail
      BY <2>2, <2>3, <2>10 DEF Over, Kept
    <3>2. Heard(r)
      <4>1. /\ r.audio = s.audio /\ r.heard = s.heard /\ r.requested = s.requested
            /\ r.established = s.established
        BY <2>4 DEF Kept
      <4> QED BY <2>8, <2>10, <3>1, <4>1 DEF Heard
    <3>3. Position(r) = Duration
      <4>1. r \in States
        BY <2>4 DEF Kept
      <4> QED BY <2>3, <2>10, <3>1, <4>1, PositionOf
    <3>4. Forward(s, r)
      BY <3>1, <3>3, ObservedIsInt, Bounds DEF Forward, Observed
    <3> QED BY <2>4, <2>5, <2>6, <2>7, <3>2, <3>4 DEF Selected
  <2>11. CASE s.audio # "none" /\ ~Over(t, Position(s), Advancing(s), r)
    <3>1. Timed(s, r)
      BY <2>2, <2>3, <2>11 DEF Timed
    <3>2. /\ r.audio = s.audio /\ r.heard = s.heard /\ r.requested = s.requested
          /\ r.established = s.established /\ r.tail = s.tail /\ r.state = s.state
          /\ r \in States
      BY <2>4 DEF Kept
    <3>3. Heard(r)
      BY <3>1, <3>2 DEF Heard, Timed
    <3>4. Position(r) = Position(s)
      BY <3>1, <3>2, SamePosition DEF Timed
    <3>5. Observed(r) = Observed(s)
      BY <3>1, <3>2, <3>4 DEF Timed, Observed
    <3>6. Forward(s, r)
      BY <3>5, ObservedIsInt DEF Forward
    <3> QED BY <2>4, <2>5, <2>6, <2>7, <3>3, <3>6 DEF Selected
  <2> QED BY <2>9, <2>10, <2>11
<1> QED
  <2>1. CASE WatchesStarvation(s) /\ Starved(s)
    <3>1. s.audio = "none"
      BY <2>1 DEF WatchesStarvation, UsesAudioClock
    <3>2. CASE s.interruption = "Buffering"
      BY <1>2, <2>1, <3>2 DEF SelectReady
    <3>3. CASE s.interruption # "Buffering"
      BY <1>3, <2>1, <3>1, <3>3 DEF SelectReady, Starved
    <3> QED BY <3>2, <3>3
  <2>2. CASE ~(WatchesStarvation(s) /\ Starved(s))
    BY <1>4, <2>2 DEF SelectReady, UsesAudioClock
  <2> QED BY <2>1, <2>2

(* What a session that becomes ready keeps. *)
Entered(s, r) ==
    /\ r \in States /\ r.state = "Ready"
    /\ r.input = s.input /\ r.requested = s.requested /\ r.device = s.device
    /\ r.active = s.active /\ r.fallback = s.fallback /\ r.reopen = s.reopen
    /\ r.recoverAt = s.recoverAt /\ r.operation = s.operation
    /\ r.discovered = s.discovered /\ r.drained = s.drained /\ r.woken = s.woken
    /\ r.audio = s.audio /\ r.heard = s.heard /\ r.established = s.established
    /\ r.tail = s.tail /\ r.queue = s.queue /\ r.last = s.last /\ r.shown = s.shown
    /\ r.seeking = s.seeking /\ r.interruption = s.interruption
    /\ r.anchor = s.requested /\ r.anchored

(* A session becomes ready at the position that was asked for. *)
LEMMA Enters ==
    ASSUME NEW s \in States, NEW r, r = EnterReady(s)
    PROVE  /\ Entered(s, r) /\ Stays(s, r)
           /\ r.intent = "Playing" /\ ~r.ended => s.intent = "Playing" /\ ~s.ended /\ r.timer
<1>1. PICK a : a = AnchorAt(s, s.requested)
  OBVIOUS
<1>2. /\ Listened(s, a) /\ a.anchor = s.requested /\ a.anchored
      /\ a.established = s.established /\ a.tail = s.tail
      /\ a.interruption = s.interruption /\ a \in States
  <2>1. s.requested \in Positions
    BY DEF States
  <2> QED BY <1>1, <2>1, AnchorsAt DEF Listened
<1>3. PICK b : b = [a EXCEPT !.state = "Ready", !.known = TRUE]
  OBVIOUS
<1>4. /\ b \in States /\ Entered(s, b) /\ b.intent = s.intent /\ b.ended = s.ended
  <2>1. Shape(a)
    BY <1>2, InParts
  <2>2. Shape(b)
    BY <1>3, <2>1, Zenon DEF Shape
  <2>3. Flags(b) /\ Times(b) /\ Kinds(b)
    BY <1>2, <1>3 DEF States, Flags, Times, Kinds
  <2>4. b \in States
    BY <2>2, <2>3, InParts
  <2>5. /\ b.state = "Ready" /\ b.input = a.input /\ b.requested = a.requested
        /\ b.device = a.device /\ b.active = a.active /\ b.fallback = a.fallback
        /\ b.reopen = a.reopen /\ b.recoverAt = a.recoverAt /\ b.operation = a.operation
        /\ b.discovered = a.discovered /\ b.drained = a.drained /\ b.woken = a.woken
        /\ b.audio = a.audio /\ b.heard = a.heard
    BY <1>2, <1>3 DEF States
  <2>6. /\ b.established = a.established /\ b.tail = a.tail /\ b.queue = a.queue
        /\ b.last = a.last /\ b.shown = a.shown /\ b.seeking = a.seeking
        /\ b.interruption = a.interruption /\ b.anchor = a.anchor
        /\ b.intent = a.intent /\ b.ended = a.ended /\ b.anchored = a.anchored
    BY <1>2, <1>3 DEF States
  <2> QED BY <1>2, <2>4, <2>5, <2>6 DEF Entered, Listened
<1>5. PICK e : e = IF s.requested >= Duration THEN Rest([b EXCEPT !.ended = TRUE]) ELSE b
  OBVIOUS
<1>6. /\ Entered(s, e) /\ Stays(s, e)
      /\ e.intent = "Playing" /\ ~e.ended => s.intent = "Playing" /\ ~s.ended
  <2>1. CASE e = b
    BY <1>4, <2>1 DEF Stays, Entered
  <2>2. CASE e = Rest([b EXCEPT !.ended = TRUE])
    <3>1. PICK c : c = [b EXCEPT !.ended = TRUE]
      OBVIOUS
    <3>2. c \in States
      <4>1. Shape(b)
        BY <1>4, InParts
      <4>2. Shape(c)
        BY <3>1, <4>1, Zenon DEF Shape
      <4>3. Flags(c) /\ Times(c) /\ Kinds(c)
        BY <1>4, <3>1 DEF States, Flags, Times, Kinds
      <4> QED BY <4>2, <4>3, InParts
    <3>3. /\ e \in States
          /\ e = [c EXCEPT !.intent = IF c.intent = "Stopped" THEN "Stopped" ELSE "Paused",
                           !.audioIntent = FALSE]
      BY <2>2, <3>1, <3>2, Rests
    <3>4. b \in States
      BY <1>4
    <3>5. /\ c.state = b.state /\ c.input = b.input /\ c.requested = b.requested
          /\ c.device = b.device /\ c.active = b.active /\ c.fallback = b.fallback
          /\ c.reopen = b.reopen /\ c.recoverAt = b.recoverAt /\ c.operation = b.operation
          /\ c.discovered = b.discovered /\ c.drained = b.drained /\ c.woken = b.woken
          /\ c.audio = b.audio /\ c.heard = b.heard
      BY <3>1, <3>4 DEF States
    <3>6. /\ c.established = b.established /\ c.tail = b.tail /\ c.queue = b.queue
          /\ c.last = b.last /\ c.shown = b.shown /\ c.seeking = b.seeking
          /\ c.interruption = b.interruption /\ c.anchor = b.anchor
          /\ c.intent = b.intent /\ c.anchored = b.anchored
      BY <3>1, <3>4 DEF States
    <3>7. /\ e.state = c.state /\ e.input = c.input /\ e.requested = c.requested
          /\ e.device = c.device /\ e.active = c.active /\ e.fallback = c.fallback
          /\ e.reopen = c.reopen /\ e.recoverAt = c.recoverAt /\ e.operation = c.operation
          /\ e.discovered = c.discovered /\ e.drained = c.drained /\ e.woken = c.woken
          /\ e.audio = c.audio /\ e.heard = c.heard
      BY <3>2, <3>3 DEF States
    <3>8. /\ e.established = c.established /\ e.tail = c.tail /\ e.queue = c.queue
          /\ e.last = c.last /\ e.shown = c.shown /\ e.seeking = c.seeking
          /\ e.interruption = c.interruption /\ e.anchor = c.anchor /\ e.anchored = c.anchored
      BY <3>2, <3>3 DEF States
    <3>9. e.intent = IF c.intent = "Stopped" THEN "Stopped" ELSE "Paused"
      BY <3>2, <3>3 DEF States
    <3>10. Entered(s, c)
      BY <1>4, <3>2, <3>5, <3>6 DEF Entered
    <3>11. Entered(s, e)
      BY <3>3, <3>7, <3>8, <3>10 DEF Entered
    <3> QED BY <1>4, <3>6, <3>9, <3>11 DEF Stays, Entered
  <2> QED BY <1>5, <2>1, <2>2
<1>7. PICK k \in BOOLEAN : k = (e.timer \/ NeedsMonitoring(e))
  OBVIOUS
<1>8. r = [e EXCEPT !.timer = k]
  <2>1. r = [e EXCEPT !.timer = @ \/ NeedsMonitoring(e)]
    BY <1>1, <1>3, <1>5 DEF EnterReady
  <2>2. [e EXCEPT !.timer = @ \/ NeedsMonitoring(e)]
          = [e EXCEPT !.timer = e.timer \/ NeedsMonitoring(e)]
    OBVIOUS
  <2> QED BY <1>7, <2>1, <2>2
<1>9. e \in States
  BY <1>6 DEF Entered
<1>10. r \in States
  <2>1. Shape(e)
    BY <1>9, InParts
  <2>2. Shape(r)
    BY <1>8, <2>1, Zenon DEF Shape
  <2>3. Flags(r) /\ Times(r) /\ Kinds(r)
    BY <1>8, <1>9 DEF States, Flags, Times, Kinds
  <2> QED BY <2>2, <2>3, InParts
<1>11. /\ r.state = e.state /\ r.input = e.input /\ r.requested = e.requested
       /\ r.device = e.device /\ r.active = e.active /\ r.fallback = e.fallback
       /\ r.reopen = e.reopen /\ r.recoverAt = e.recoverAt /\ r.operation = e.operation
       /\ r.discovered = e.discovered /\ r.drained = e.drained /\ r.woken = e.woken
       /\ r.audio = e.audio /\ r.heard = e.heard
  BY <1>8, <1>9 DEF States
<1>12. /\ r.established = e.established /\ r.tail = e.tail /\ r.queue = e.queue
       /\ r.last = e.last /\ r.shown = e.shown /\ r.seeking = e.seeking
       /\ r.interruption = e.interruption /\ r.anchor = e.anchor /\ r.anchored = e.anchored
       /\ r.intent = e.intent /\ r.ended = e.ended
  BY <1>8, <1>9 DEF States
<1>13. r.timer = k
  BY <1>8, <1>9 DEF States
<1>14. Entered(s, r)
  BY <1>6, <1>10, <1>11, <1>12 DEF Entered
<1>15. r.intent = "Playing" /\ ~r.ended => r.timer
  <2>1. r.intent = "Playing" /\ ~r.ended => NeedsMonitoring(e)
    BY <1>6, <1>12 DEF NeedsMonitoring, Open, PlayRequested, Entered
  <2>2. NeedsMonitoring(e) => k
    BY <1>7, Zenon
  <2> QED BY <1>13, <2>1, <2>2
<1> QED BY <1>6, <1>12, <1>14, <1>15 DEF Stays, Entered

(* What every step of the session leads to from a sound one. *)
Moved(s, r) == Sound(r) /\ Stays(s, r) /\ (Paced(s) => Paced(r))

(* A failed session is sound. *)
LEMMA FailedIsSound ==
    ASSUME NEW s \in States, Software(s), NEW r, Failed(s, r)
    PROVE  Sound(r) /\ Stays(s, r) /\ Forward(s, r) /\ (~s.reopen => Paced(r))
<1>1. Showing(r) /\ Closed(r) /\ Heard(r)
  BY DEF Failed, Showing, Closed, Heard, Open
<1>2. Software(r)
  BY DEF Failed, Software, Open
<1>3. ~s.reopen => Paced(r)
  BY DEF Failed, Paced, Open
<1>4. Stays(s, r) /\ Forward(s, r) /\ r \in States
  BY DEF Failed, Stays, Forward
<1> QED BY <1>1, <1>2, <1>3, <1>4 DEF Sound

(* What waits for the device has no output. *)
LEMMA WaitsSilently ==
    ASSUME NEW s, Paced(s), s.audio # "none"
    PROVE  ~s.reopen
BY DEF Paced

(* A selection keeps a session that is ready sound, and its pace. *)
LEMMA SelectedMoves ==
    ASSUME NEW s, Sound(s), s.state = "Ready", NEW r, Selected(s, r)
    PROVE  Moved(s, r) /\ Forward(s, r)
<1>1. r \in States /\ r.state = "Ready" /\ Heard(r)
  BY DEF Selected, Kept
<1>2. Showing(r) /\ Closed(r)
  BY <1>1 DEF Sound, Showing, Closed, Selected, Kept, Open
<1>3. Software(r)
  BY <1>1 DEF Sound, Software, Selected, Kept, Open
<1>4. Paced(s) => Paced(r)
  BY <1>1 DEF Paced, Selected, Kept, Open, PlayRequested
<1> QED BY <1>1, <1>2, <1>3, <1>4 DEF Selected, Moved, Sound

(* A selection, with the observation before it. *)
LEMMA Selects ==
    ASSUME NEW s, Sound(s), Open(s), NEW r, r = Select(s)
    PROVE  Moved(s, r) /\ Forward(s, r)
<1>1. PICK o : o = Observe(s)
  OBVIOUS
<1>2. s \in States /\ Heard(s) /\ Software(s) /\ Showing(s) /\ s.state # "Error"
  BY DEF Sound, Open
<1>3. CASE Failed(s, o) /\ s.audio # "none"
  <2>1. r = o
    BY <1>1, <1>3 DEF Select, Failed, Open
  <2> QED BY <1>2, <1>3, <2>1, FailedIsSound, WaitsSilently DEF Moved
<1>4. CASE Heeded(s, o)
  <2>1. o \in States /\ Heard(o) /\ Listened(s, o)
    BY <1>4 DEF Heeded, Listened
  <2>2. Sound(o) /\ Stays(s, o) /\ Forward(s, o) /\ Open(o)
    <3>1. Showing(o) /\ Closed(o) /\ Open(o)
      BY <1>2, <2>1 DEF Sound, Showing, Closed, Listened, Open
    <3>2. Software(o)
      BY <1>2, <2>1 DEF Software, Listened, Open
    <3>3. Stays(s, o)
      BY <2>1 DEF Stays, Listened
    <3>4. Forward(s, o)
      BY <1>4 DEF Heeded, Forward
    <3> QED BY <2>1, <3>1, <3>2, <3>3, <3>4 DEF Sound
  <2>3. Paced(s) => Paced(o)
    BY <1>4, <2>1 DEF Paced, Heeded, Listened, Open, PlayRequested
  <2>4. CASE o.state = "Opening" /\ ~CanEnterReady(o)
    <3>1. r = o
      BY <1>1, <2>2, <2>4 DEF Select
    <3> QED BY <2>2, <2>3, <3>1 DEF Moved
  <2>5. CASE CanEnterReady(o)
    <3>1. PICK e : e = EnterReady(o)
      OBVIOUS
    <3>2. /\ Entered(o, e) /\ Stays(o, e) /\ e \in States
          /\ e.intent = "Playing" /\ ~e.ended => o.intent = "Playing" /\ ~o.ended /\ e.timer
      BY <2>1, <3>1, Enters DEF Entered
    <3>3. Heard(e)
      BY <2>1, <3>2 DEF Heard, Entered
    <3>4. r = SelectReady(e)
      BY <1>1, <2>2, <2>5, <3>1 DEF Select
    <3>5. Selected(e, r)
      BY <3>2, <3>3, <3>4, SelectsReady DEF Entered
    <3>6. o.state = "Opening" /\ o.discovered
      BY <2>5 DEF CanEnterReady
    <3>7. Showing(e) /\ Closed(e)
      BY <2>2, <3>2, <3>6 DEF Sound, Showing, Closed, Entered, Open
    <3>8. Software(e)
      BY <2>2, <3>2 DEF Sound, Software, Entered, Open
    <3>9. Sound(e)
      BY <3>2, <3>3, <3>7, <3>8 DEF Sound
    <3>10. Paced(o) => Paced(e)
      BY <3>2, <3>6 DEF Paced, Entered, Open, PlayRequested
    <3>11. Moved(e, r)
      BY <3>2, <3>5, <3>9, SelectedMoves DEF Entered
    <3>12. Forward(s, r)
      BY <2>1, <3>6 DEF Forward, Listened
    <3> QED BY <2>2, <2>3, <3>2, <3>10, <3>11, <3>12 DEF Moved, Stays
  <2>6. CASE o.state = "Ready"
    <3>1. r = SelectReady(o)
      BY <1>1, <2>2, <2>6 DEF Select, CanEnterReady
    <3>2. Selected(o, r)
      BY <2>1, <2>6, <3>1, SelectsReady
    <3>3. Moved(o, r) /\ Forward(o, r)
      BY <2>2, <2>6, <3>2, SelectedMoves
    <3>4. Forward(s, r)
      <4>1. r \in States
        BY <3>3 DEF Moved, Sound
      <4>2. s.established => o.established
        BY <1>4 DEF Heeded
      <4> QED BY <1>2, <2>1, <2>2, <2>6, <3>3, <4>1, <4>2, ForwardTwice
    <3> QED BY <2>2, <2>3, <3>3, <3>4 DEF Moved, Stays
  <2> QED BY <2>2, <2>4, <2>5, <2>6 DEF Open
<1> QED BY <1>1, <1>2, <1>3, <1>4, Observes

-------------------------------------------------------------------------------
(* The actions.                                                                 *)

(* What every action guarantees. *)
Steps(s, r) == Sound(r) /\ Forward(s, r) /\ (~TracksInRecovery /\ Paced(s) => Paced(r))

(* What decodes afresh is sound when the choice of the decoder is. *)
LEMMA StartsSound ==
    ASSUME NEW s \in States, NEW p \in Positions, NEW d \in Devices, NEW k \in BOOLEAN,
           s.input # "none", s.reopen => ~s.fallback,
           d = "hardware" => s.device = "hardware",
           s.fallback => d = "unavailable" /\ s.device = "hardware"
    PROVE  LET r == StartDecode(s, p, d, k)
           IN /\ Sound(r) /\ r.state = "Opening" /\ r.intent = s.intent /\ r.active = d
              /\ (~s.reopen => Paced(r))
<1>1. PICK r : r = StartDecode(s, p, d, k)
  OBVIOUS
<1>2. /\ r \in States
      /\ r.state = "Opening" /\ r.intent = s.intent /\ r.input = s.input
      /\ r.device = s.device /\ r.active = d /\ r.fallback = s.fallback
      /\ r.reopen = s.reopen /\ r.operation = "running" /\ (r.timer <=> s.intent = "Playing")
      /\ r.shown = NoFrame /\ r.audio = "none" /\ ~r.established
      /\ ~r.tail /\ ~r.drained
  BY <1>1, Decodes
<1>3. Sound(r)
  BY <1>2 DEF Sound, Showing, Closed, Software, Heard, Open
<1>4. ~s.reopen => Paced(r)
  BY <1>2 DEF Paced, PlayRequested
<1> QED BY <1>1, <1>2, <1>3, <1>4

(* A restart in an open session, with the decoder in use or with another that   *)
(* the device offers.                                                           *)
LEMMA Restarts ==
    ASSUME NEW s \in States, NEW p \in Positions, NEW d \in Devices, NEW k \in BOOLEAN,
           s.input # "none", s.reopen => ~s.fallback,
           d = "hardware" => s.device = "hardware",
           s.fallback => d = "unavailable" /\ s.device = "hardware",
           NEW r, r = RestartAt(s, p, d, k)
    PROVE  /\ Sound(r) /\ r.state = "Opening" /\ r.intent = s.intent /\ r.active = d
           /\ (~s.reopen => Paced(r))
<1>1. r = StartDecode(s, p, d, k)
  BY DEF RestartAt
<1>2. PICK z : z = StartDecode(s, p, d, k)
  OBVIOUS
<1>3. /\ Sound(z) /\ z.state = "Opening" /\ z.intent = s.intent /\ z.active = d
      /\ (~s.reopen => Paced(z))
  BY <1>2, StartsSound
<1> QED BY <1>1, <1>2, <1>3

(* Nothing is ready after a restart, so nothing goes back. *)
LEMMA NotReady ==
    ASSUME NEW s, NEW r, r.state # "Ready"
    PROVE  Forward(s, r)
BY DEF Forward

(* The bounds of what the actions are given. *)
LEMMA Given ==
    /\ 0 \in Positions
    /\ \A s \in Sources : s \in {"local", "remote"}
    /\ \A s \in States : /\ Position(s) \in Positions /\ CurrentTarget(s) \in Positions
                         /\ s.requested \in Positions /\ s.device \in Devices
                         /\ s.active \in Devices /\ s.recoverAt \in Positions
                         /\ s.recoverSeeking \in BOOLEAN
<1>1. \A s \in States : /\ s.requested \in Positions /\ s.device \in Devices
                        /\ s.active \in Devices /\ s.recoverAt \in Positions
                        /\ s.recoverSeeking \in BOOLEAN
  BY DEF States
<1>2. \A s \in States : Position(s) \in Positions
  BY PositionOf
<1> QED BY <1>1, <1>2, SessionAssumption, Bounds DEF CurrentTarget

(* The session that the user opens, cancels or plays again starts from what it  *)
(* was with another choice and nothing to recover.                              *)
LEMMA OpenMediaSteps ==
    ASSUME Sound(session), NEW source \in Sources, NEW p \in Positions, OpenMedia(source, p)
    PROVE  Steps(session, session') /\ session'.intent = "Playing"
<1>1. PICK z : z = [session EXCEPT !.input = source, !.intent = "Playing", !.reopen = FALSE,
                                   !.recoverAt = 0, !.recoverSeeking = FALSE, !.fallback = FALSE,
                                   !.known = FALSE, !.tracks = FALSE]
  OBVIOUS
<1>2. session \in States /\ source \in {"none", "local", "remote"} /\ source # "none"
  BY Given DEF Sound
<1>3. z \in States
  <2>1. Shape(session)
    BY <1>2, InParts
  <2>2. Shape(z)
    BY <1>1, <2>1, Zenon DEF Shape
  <2>3. Flags(z) /\ Times(z) /\ Kinds(z)
    BY <1>1, <1>2, Given DEF States, Flags, Times, Kinds
  <2> QED BY <2>2, <2>3, InParts
<1>4. /\ z.input = source /\ z.intent = "Playing" /\ ~z.reopen /\ ~z.fallback
      /\ z.device = session.device
  BY <1>1, <1>2 DEF States
<1>5. PICK k \in BOOLEAN : k = (p > 0)
  <2>1. p > 0 \/ ~(p > 0)
    OBVIOUS
  <2>2. CASE p > 0
    <3>1. TRUE = (p > 0)
      BY <2>2
    <3> QED BY <3>1, Zenon
  <2>3. CASE ~(p > 0)
    <3>1. FALSE = (p > 0)
      BY <2>3
    <3> QED BY <3>1, Zenon
  <2> QED BY <2>1, <2>2, <2>3
<1>6. session' = StartDecode(z, p, session.device, k)
  BY <1>1, <1>5 DEF OpenMedia
<1>7. session.device \in Devices
  BY <1>2, Given
<1>8. Sound(session') /\ Paced(session') /\ session'.state = "Opening"
        /\ session'.intent = "Playing"
  BY <1>2, <1>3, <1>4, <1>6, <1>7, StartsSound
<1> QED BY <1>8, NotReady DEF Steps

(* A medium that is refused or closed leaves nothing to recover. *)
LEMMA CloseSteps ==
    ASSUME Sound(session), OpenFails \/ Cancel
    PROVE  /\ Steps(session, session')
           /\ Stays(session, session') \/ session'.intent = "Playing"
<1>1. session \in States
  BY DEF Sound
<1>2. PICK f : f = Fail(session)
  OBVIOUS
<1>3. Failed(session, f) /\ f \in States
  BY <1>1, <1>2, FailTo DEF Failed
<1>4. /\ session' \in States
      /\ session'.state \in {"Empty", "Error"} /\ ~session'.reopen /\ ~session'.fallback
      /\ session'.intent = "Playing" \/ session'.intent = f.intent
      /\ session'.shown = f.shown /\ session'.seeking = f.seeking
      /\ session'.audio = f.audio /\ session'.established = f.established
      /\ session'.tail = f.tail /\ session'.drained = f.drained
      /\ session'.device = f.device /\ session'.active = f.active
  <2>1. CASE OpenFails
    <3>1. session' = [f EXCEPT !.input = "none", !.reopen = FALSE, !.recoverAt = 0,
                               !.recoverSeeking = FALSE, !.fallback = FALSE,
                               !.known = FALSE, !.tracks = FALSE]
      BY <1>2, <2>1 DEF OpenFails
    <3>2. Shape(session')
      <4>1. Shape(f)
        BY <1>3, InParts
      <4> QED BY <3>1, <4>1, Zenon DEF Shape
    <3>3. Flags(session') /\ Times(session') /\ Kinds(session')
      BY <1>3, <3>1, Given DEF States, Flags, Times, Kinds
    <3>4. session' \in States
      BY <3>2, <3>3, InParts
    <3>5. /\ session'.state = f.state /\ ~session'.reopen /\ ~session'.fallback
          /\ session'.intent = f.intent
          /\ session'.shown = f.shown /\ session'.seeking = f.seeking
          /\ session'.audio = f.audio /\ session'.established = f.established
          /\ session'.tail = f.tail /\ session'.drained = f.drained
          /\ session'.device = f.device /\ session'.active = f.active
      BY <1>3, <3>1 DEF States
    <3> QED BY <1>3, <3>4, <3>5 DEF Failed
  <2>2. CASE Cancel
    <3>1. session' = [f EXCEPT !.state = "Empty", !.intent = "Playing", !.audioIntent = TRUE,
                               !.input = "none", !.reopen = FALSE, !.recoverAt = 0,
                               !.recoverSeeking = FALSE, !.fallback = FALSE,
                               !.known = FALSE, !.tracks = FALSE]
      BY <1>2, <2>2 DEF Cancel
    <3>2. Shape(session')
      <4>1. Shape(f)
        BY <1>3, InParts
      <4> QED BY <3>1, <4>1, Zenon DEF Shape
    <3>3. Flags(session') /\ Times(session') /\ Kinds(session')
      BY <1>3, <3>1, Given DEF States, Flags, Times, Kinds
    <3>4. session' \in States
      BY <3>2, <3>3, InParts
    <3>5. /\ session'.state = "Empty" /\ ~session'.reopen /\ ~session'.fallback
          /\ session'.intent = "Playing"
          /\ session'.shown = f.shown /\ session'.seeking = f.seeking
          /\ session'.audio = f.audio /\ session'.established = f.established
          /\ session'.tail = f.tail /\ session'.drained = f.drained
          /\ session'.device = f.device /\ session'.active = f.active
      BY <1>3, <3>1 DEF States
    <3> QED BY <3>4, <3>5
  <2> QED BY <2>1, <2>2
<1>8. Showing(session') /\ Closed(session') /\ Heard(session')
  BY <1>3, <1>4 DEF Failed, Showing, Closed, Heard, Open
<1>9. Software(session')
  BY <1>3, <1>4 DEF Failed, Software, Sound, Open
<1>10. Paced(session')
  BY <1>3, <1>4 DEF Failed, Paced, Open
<1> QED BY <1>3, <1>4, <1>8, <1>9, <1>10, NotReady DEF Sound, Steps, Stays, Failed

(* A retry starts from the beginning with what the device offers. *)
LEMMA RetrySteps ==
    ASSUME Sound(session), Retry
    PROVE  Steps(session, session') /\ session'.intent = "Playing"
<1>1. PICK z : z = [session EXCEPT !.intent = "Playing", !.reopen = FALSE, !.recoverAt = 0,
                                   !.recoverSeeking = FALSE, !.fallback = FALSE]
  OBVIOUS
<1>2. session \in States
  BY DEF Sound
<1>3. z \in States
  <2>1. Shape(session)
    BY <1>2, InParts
  <2>2. Shape(z)
    BY <1>1, <2>1, Zenon DEF Shape
  <2>3. Flags(z) /\ Times(z) /\ Kinds(z)
    BY <1>1, <1>2, Given DEF States, Flags, Times, Kinds
  <2> QED BY <2>2, <2>3, InParts
<1>4. /\ z.input = session.input /\ z.intent = "Playing" /\ ~z.reopen /\ ~z.fallback
      /\ z.device = session.device
  BY <1>1, <1>2 DEF States
<1>5. session' = RestartAt(z, 0, session.device, FALSE) /\ z.input # "none"
  BY <1>1, <1>4 DEF Retry
<1>6. Sound(session') /\ Paced(session') /\ session'.state = "Opening"
        /\ session'.intent = "Playing"
  <2>1. PICK k \in BOOLEAN : session' = RestartAt(z, 0, session.device, k)
    BY <1>5
  <2>2. PICK d \in Devices : d = session.device
    BY <1>2, Given
  <2>3. /\ 0 \in Positions /\ z.input # "none" /\ ~z.reopen
        /\ (d = "hardware" => z.device = "hardware")
        /\ (z.fallback => d = "unavailable" /\ z.device = "hardware")
    BY <1>4, <1>5, <2>2, Given
  <2>4. session' = RestartAt(z, 0, d, k)
    BY <2>1, <2>2
  <2>5. Sound(session') /\ Paced(session') /\ session'.state = "Opening"
          /\ session'.intent = z.intent
    BY <1>3, <2>3, <2>4, Restarts
  <2> QED BY <1>4, <2>5
<1> QED BY <1>6, NotReady DEF Steps

(* A seek restarts at the target, or moves it while the device is away. *)
LEMMA SeekSteps ==
    ASSUME Sound(session), NEW p \in Positions, Seek(p)
    PROVE  Steps(session, session') /\ Stays(session, session')
<1>1. session \in States /\ Open(session) /\ session.input # "none" /\ Software(session)
  BY DEF Sound, Seek, Seekable, Closed, Open
<1>2. CASE session.reopen
  <2>1. PICK c : c = ResetPlayback(CancelPipeline(session), p)
    OBVIOUS
  <2>2. Renewed(session, p, c) /\ c \in States
    BY <1>1, <2>1, Renews DEF Renewed
  <2>3. session' = [c EXCEPT !.state = "Opening", !.seeking = TRUE, !.recoverAt = p,
                             !.recoverSeeking = TRUE]
    BY <1>2, <2>1 DEF Seek
  <2>4. Shape(session')
    <3>1. Shape(c)
      BY <2>2, InParts
    <3> QED BY <2>3, <3>1, Zenon DEF Shape
  <2>5. Flags(session') /\ Times(session') /\ Kinds(session')
    BY <2>2, <2>3 DEF States, Flags, Times, Kinds
  <2>6. session' \in States
    BY <2>4, <2>5, InParts
  <2>7. /\ session'.state = "Opening" /\ session'.recoverAt = p
        /\ session'.intent = c.intent /\ session'.input = c.input
        /\ session'.device = c.device /\ session'.active = c.active
        /\ session'.fallback = c.fallback /\ session'.reopen = c.reopen
        /\ session'.operation = c.operation /\ session'.queue = c.queue
        /\ session'.woken = c.woken /\ session'.shown = c.shown
    BY <2>2, <2>3 DEF States
  <2>8. /\ session'.audio = c.audio /\ session'.requested = c.requested
        /\ session'.established = c.established /\ session'.tail = c.tail
        /\ session'.discovered = c.discovered /\ session'.drained = c.drained
    BY <2>2, <2>3 DEF States
  <2>9. Showing(session') /\ Closed(session') /\ Heard(session')
    BY <1>1, <2>2, <2>7, <2>8 DEF Renewed, Chosen, Showing, Closed, Heard, Open
  <2>10. Software(session')
    BY <1>1, <1>2, <2>2, <2>7 DEF Renewed, Chosen, Software
  <2>11. Paced(session')
    BY <1>2, <2>2, <2>7, <2>8 DEF Renewed, Chosen, Paced
  <2>12. Stays(session, session')
    BY <2>2, <2>7 DEF Stays, Renewed, Chosen
  <2> QED BY <2>6, <2>7, <2>9, <2>10, <2>11, <2>12, NotReady DEF Sound, Steps
<1>3. CASE ~session.reopen
  <2>1. PICK k \in BOOLEAN : k
    OBVIOUS
  <2>2. session' = RestartAt(session, p, session.active, k)
    BY <1>3, <2>1 DEF Seek
  <2>3. /\ session.active \in Devices
        /\ (session.active = "hardware" => session.device = "hardware")
        /\ (session.fallback => session.active = "unavailable" /\ session.device = "hardware")
    BY <1>1, Given DEF Software
  <2>4. /\ Sound(session') /\ session'.state = "Opening" /\ session'.intent = session.intent
        /\ Paced(session') /\ session'.active = session.active
    BY <1>1, <1>3, <2>2, <2>3, Restarts
  <2> QED BY <2>4, NotReady DEF Steps, Stays
<1> QED BY <1>2, <1>3

(* A change of track restarts where the session is. *)
LEMMA SelectStreamSteps ==
    ASSUME Sound(session), SelectStream
    PROVE  Steps(session, session') /\ Stays(session, session')
<1>1. session \in States /\ Open(session) /\ session.input # "none" /\ Software(session)
  BY DEF Sound, SelectStream, Closed
<1>2. PICK k \in BOOLEAN : ~k
  OBVIOUS
<1>3. session' = RestartAt(session, CurrentTarget(session), session.active, k)
  BY <1>2 DEF SelectStream
<1>4. /\ session.active \in Devices /\ CurrentTarget(session) \in Positions
      /\ (session.active = "hardware" => session.device = "hardware")
      /\ (session.fallback => session.active = "unavailable" /\ session.device = "hardware")
      /\ (session.reopen => ~session.fallback)
  BY <1>1, Given DEF Software
<1>5. /\ Sound(session') /\ session'.state = "Opening" /\ session'.intent = session.intent
      /\ session'.active = session.active /\ (~session.reopen => Paced(session'))
  BY <1>1, <1>3, <1>4, Restarts
<1>6. ~TracksInRecovery => ~session.reopen
  BY DEF SelectStream
<1> QED BY <1>5, <1>6, NotReady DEF Steps, Stays

(* The loss of the device closes the pipeline until the device is back. *)
LEMMA DeviceLostSteps ==
    ASSUME Sound(session), DeviceLost
    PROVE  Steps(session, session') /\ Stays(session, session')
<1>1. session \in States /\ Software(session) /\ Heard(session) /\ Showing(session)
        /\ Closed(session)
  BY DEF Sound
<1>2. PICK z : z = [session EXCEPT !.device = "unavailable", !.active = "unavailable"]
  OBVIOUS
<1>3. z \in States
  <2>1. Shape(session)
    BY <1>1, InParts
  <2>2. Shape(z)
    BY <1>2, <2>1, Zenon DEF Shape
  <2>3. Flags(z) /\ Times(z) /\ Kinds(z)
    BY <1>1, <1>2 DEF States, Flags, Times, Kinds, Devices
  <2> QED BY <2>2, <2>3, InParts
<1>4. /\ z.device = "unavailable" /\ z.active = "unavailable" /\ z.state = session.state
      /\ z.fallback = session.fallback /\ z.input = session.input /\ z.intent = session.intent
  BY <1>1, <1>2 DEF States
<1>5. CASE Open(session) /\ session.input # "none"
  <2>1. PICK p \in Positions : p = CurrentTarget(session)
    BY <1>1, Given
  <2>2. PICK c : c = ResetPlayback(CancelPipeline(z), p)
    OBVIOUS
  <2>3. Renewed(z, p, c) /\ c \in States
    BY <1>3, <2>2, Renews DEF Renewed
  <2>4. PICK k \in BOOLEAN : k = session.seeking
    BY <1>1 DEF States
  <2>5. session' = [c EXCEPT !.state = "Opening", !.reopen = TRUE, !.recoverAt = p,
                             !.recoverSeeking = k, !.seeking = k, !.fallback = FALSE]
    BY <1>2, <1>5, <2>1, <2>2, <2>4 DEF DeviceLost
  <2>6. Shape(session')
    <3>1. Shape(c)
      BY <2>3, InParts
    <3> QED BY <2>5, <3>1, Zenon DEF Shape
  <2>7. Flags(session') /\ Times(session') /\ Kinds(session')
    BY <2>3, <2>5 DEF States, Flags, Times, Kinds
  <2>8. session' \in States
    BY <2>6, <2>7, InParts
  <2>9. /\ session'.state = "Opening" /\ session'.recoverAt = p
        /\ session'.intent = c.intent /\ session'.input = c.input
        /\ session'.device = c.device /\ session'.active = c.active
        /\ ~session'.fallback
        /\ session'.operation = c.operation /\ session'.queue = c.queue
        /\ session'.woken = c.woken /\ session'.shown = c.shown
    BY <2>3, <2>5 DEF States
  <2>10. /\ session'.audio = c.audio /\ session'.requested = c.requested
         /\ session'.established = c.established /\ session'.tail = c.tail
         /\ session'.discovered = c.discovered /\ session'.drained = c.drained
    BY <2>3, <2>5 DEF States
  <2>11. session'.reopen
    BY <2>3, <2>5 DEF States
  <2>12. Showing(session') /\ Closed(session') /\ Heard(session')
    BY <1>4, <1>5, <2>3, <2>9, <2>10 DEF Renewed, Chosen, Showing, Closed, Heard, Open
  <2>13. Software(session')
    BY <1>4, <2>3, <2>9 DEF Renewed, Chosen, Software
  <2>14. Paced(session')
    BY <2>3, <2>9, <2>10, <2>11 DEF Renewed, Chosen, Paced
  <2>15. Stays(session, session')
    BY <1>4, <2>3, <2>9 DEF Stays, Renewed, Chosen
  <2> QED BY <2>8, <2>9, <2>12, <2>13, <2>14, <2>15, NotReady DEF Sound, Steps
<1>6. CASE ~(Open(session) /\ session.input # "none")
  <2>1. session' = z /\ ~Open(session)
    BY <1>1, <1>2, <1>6 DEF DeviceLost, Closed
  <2>2. /\ z.shown = session.shown /\ z.seeking = session.seeking /\ z.audio = session.audio
        /\ z.established = session.established /\ z.tail = session.tail
        /\ z.anchor = session.anchor /\ z.heard = session.heard
        /\ z.interruption = session.interruption /\ z.requested = session.requested
        /\ z.drained = session.drained /\ z.discovered = session.discovered
        /\ z.queue = session.queue /\ z.reopen = session.reopen
    BY <1>1, <1>2 DEF States
  <2>3. Showing(z) /\ Closed(z) /\ Heard(z)
    BY <1>1, <1>4, <2>1, <2>2 DEF Showing, Closed, Heard, Open
  <2>4. Software(z)
    BY <1>1, <1>4, <2>1, <2>2 DEF Software, Open
  <2>5. Paced(session) => Paced(z)
    BY <1>4, <2>1, <2>2 DEF Paced, Open
  <2>6. z.state # "Ready"
    BY <1>4, <2>1 DEF Open
  <2> QED BY <1>3, <1>4, <2>1, <2>3, <2>4, <2>5, <2>6, NotReady DEF Sound, Steps, Stays
<1> QED BY <1>5, <1>6

(* A device that is back decodes what waited for it. *)
LEMMA DeviceReturnsSteps ==
    ASSUME Sound(session), NEW d \in Devices, DeviceReturns(d)
    PROVE  /\ Steps(session, session')
           /\ session.intent = "Stopped" => session'.intent = "Stopped"
<1>1. session \in States /\ Software(session) /\ Heard(session) /\ Showing(session)
        /\ Closed(session) /\ session.device = "unavailable"
  BY DEF Sound, DeviceReturns
<1>2. CASE ~session.reopen
  <2>1. PICK b : b = [session EXCEPT !.device = d]
    OBVIOUS
  <2>2. session' = [b EXCEPT !.active = d]
    BY <1>2, <2>1 DEF DeviceReturns
  <2>3. session' = [session EXCEPT !.device = d, !.active = d]
    BY <2>1, <2>2
  <2>4. Shape(session')
    <3>1. Shape(session)
      BY <1>1, InParts
    <3> QED BY <2>3, <3>1, Zenon DEF Shape
  <2>5. Flags(session') /\ Times(session') /\ Kinds(session')
    BY <1>1, <2>3 DEF States, Flags, Times, Kinds
  <2>6. session' \in States
    BY <2>4, <2>5, InParts
  <2>8. /\ session'.device = d /\ session'.active = d /\ session'.state = session.state
        /\ session'.fallback = session.fallback /\ session'.input = session.input
        /\ session'.intent = session.intent /\ session'.shown = session.shown
        /\ session'.seeking = session.seeking /\ session'.audio = session.audio
        /\ session'.requested = session.requested /\ session'.ended = session.ended
    BY <1>1, <2>3 DEF States
  <2>9. /\ session'.established = session.established /\ session'.tail = session.tail
        /\ session'.anchor = session.anchor /\ session'.heard = session.heard
        /\ session'.interruption = session.interruption
        /\ session'.drained = session.drained /\ session'.discovered = session.discovered
        /\ session'.queue = session.queue /\ session'.reopen = session.reopen
        /\ session'.anchored = session.anchored /\ session'.elapsed = session.elapsed
        /\ session'.operation = session.operation /\ session'.timer = session.timer
    BY <1>1, <2>3 DEF States
  <2>10. Showing(session') /\ Closed(session') /\ Heard(session')
    BY <1>1, <2>8, <2>9 DEF Showing, Closed, Heard, Open
  <2>11. Software(session')
    BY <1>1, <1>2, <2>8, <2>9 DEF Software, Open
  <2>12. Paced(session) => Paced(session')
    BY <1>2, <2>8, <2>9 DEF Paced, Open, PlayRequested
  <2>13. Position(session') = Position(session)
    BY <1>1, <2>6, <2>8, <2>9, SamePosition
  <2>14. Forward(session, session')
    BY <1>1, <2>9, <2>13, ObservedIsInt DEF Forward, Observed
  <2> QED BY <2>6, <2>8, <2>10, <2>11, <2>12, <2>14 DEF Sound, Steps
<1>3. CASE session.reopen
  <2>1. PICK z : z = [session EXCEPT !.device = d, !.reopen = FALSE, !.recoverAt = 0,
                                     !.recoverSeeking = FALSE]
    OBVIOUS
  <2>2. z \in States
    <3>1. Shape(session)
      BY <1>1, InParts
    <3>2. Shape(z)
      BY <2>1, <3>1, Zenon DEF Shape
    <3>3. Flags(z) /\ Times(z) /\ Kinds(z)
      BY <1>1, <2>1, Given DEF States, Flags, Times, Kinds
    <3> QED BY <3>2, <3>3, InParts
  <2>3. /\ z.device = d /\ z.active = session.active /\ z.state = session.state
        /\ z.fallback = session.fallback /\ z.input = session.input
        /\ z.intent = session.intent /\ z.shown = session.shown
        /\ z.seeking = session.seeking /\ z.audio = session.audio
        /\ z.requested = session.requested /\ ~z.reopen
    BY <1>1, <2>1 DEF States
  <2>4. /\ z.established = session.established /\ z.tail = session.tail
        /\ z.anchor = session.anchor /\ z.heard = session.heard
        /\ z.interruption = session.interruption
        /\ z.drained = session.drained /\ z.discovered = session.discovered
        /\ z.queue = session.queue
    BY <1>1, <2>1 DEF States
  <2>5. session' = RestartAt(z, session.recoverAt, d, session.recoverSeeking)
    <3>1. z = [[session EXCEPT !.device = d] EXCEPT !.reopen = FALSE, !.recoverAt = 0,
                                                  !.recoverSeeking = FALSE]
      BY <2>1
    <3> QED BY <1>3, <3>1 DEF DeviceReturns
  <2>6. CASE z.input = "none"
    <3>1. session' = z
      BY <2>5, <2>6 DEF RestartAt
    <3>2. ~Open(z) /\ z.state # "Ready"
      BY <1>1, <2>3, <2>6 DEF Closed, Open
    <3>3. Showing(z) /\ Closed(z) /\ Heard(z) /\ Software(z)
      BY <1>1, <2>3, <2>4, <3>2 DEF Showing, Closed, Heard, Software, Open
    <3>4. Paced(session) => Paced(z)
      BY <2>3, <2>4, <3>2 DEF Paced, Open
    <3> QED BY <2>2, <2>3, <3>1, <3>2, <3>3, <3>4, NotReady DEF Sound, Steps
  <2>7. CASE z.input # "none"
    <3>1. ~z.fallback
      BY <1>1, <1>3, <2>3 DEF Software
    <3>2. session.recoverAt \in Positions /\ session.recoverSeeking \in BOOLEAN
      BY <1>1, Given
    <3>3. /\ Sound(session') /\ session'.state = "Opening" /\ session'.intent = z.intent
          /\ Paced(session')
      BY <2>2, <2>3, <2>5, <2>7, <3>1, <3>2, Restarts
    <3> QED BY <2>3, <3>3, NotReady DEF Steps
  <2> QED BY <2>6, <2>7
<1> QED BY <1>2, <1>3

(* A failure to show a frame closes the session, or restarts it in software. *)
LEMMA PresentationFailsSteps ==
    ASSUME Sound(session), NEW kind, PresentationFails(kind)
    PROVE  /\ Steps(session, session') /\ Stays(session, session')
           /\ kind = "import" => session'.active # "hardware"
<1>1. /\ session \in States /\ Open(session) /\ session.input # "none" /\ Software(session)
      /\ ~session.reopen
  BY DEF Sound, PresentationFails, Closed, Open, SeekInProgress
<1>2. CASE kind = "import" /\ ~session.fallback
  <2>1. PICK z : z = [session EXCEPT !.fallback = TRUE]
    OBVIOUS
  <2>2. z \in States
    <3>1. Shape(session)
      BY <1>1, InParts
    <3>2. Shape(z)
      BY <2>1, <3>1, Zenon DEF Shape
    <3>3. Flags(z) /\ Times(z) /\ Kinds(z)
      BY <1>1, <2>1 DEF States, Flags, Times, Kinds
    <3> QED BY <3>2, <3>3, InParts
  <2>3. /\ z.device = session.device /\ z.input = session.input /\ z.intent = session.intent
        /\ z.reopen = session.reopen
    BY <1>1, <2>1 DEF States
  <2>4. session.active = "hardware" /\ session.device = "hardware"
    BY <1>1, <1>2 DEF PresentationFails, Software
  <2>5. PICK k \in BOOLEAN : k = SeekInProgress(session)
    <3>1. SeekInProgress(session) \in BOOLEAN
      BY DEF SeekInProgress, Open
    <3> QED BY <3>1, Zenon
  <2>6. session' = RestartAt(z, Position(session), "unavailable", k)
    BY <1>2, <2>1, <2>5 DEF PresentationFails
  <2>7. Position(session) \in Positions /\ "unavailable" \in Devices
    BY <1>1, Given DEF Devices
  <2>8. PICK d \in Devices : d = "unavailable"
    BY <2>7
  <2>9. /\ Sound(session') /\ session'.state = "Opening" /\ session'.intent = z.intent
        /\ Paced(session') /\ session'.active = "unavailable"
    <3>1. session' = RestartAt(z, Position(session), d, k)
      BY <2>6, <2>8
    <3>2. /\ z.input # "none" /\ ~z.reopen
          /\ (d = "hardware" => z.device = "hardware")
          /\ (z.fallback => d = "unavailable" /\ z.device = "hardware")
      BY <1>1, <2>3, <2>4, <2>8
    <3> QED BY <2>2, <2>7, <2>8, <3>1, <3>2, Restarts
  <2> QED BY <2>3, <2>9, NotReady DEF Steps, Stays
<1>3. CASE ~(kind = "import" /\ ~session.fallback)
  <2>1. session' = Fail(session)
    BY <1>3 DEF PresentationFails
  <2>2. Failed(session, session')
    BY <1>1, <2>1, FailTo
  <2>3. kind # "import"
    BY <1>1, <1>3 DEF PresentationFails, Software
  <2> QED BY <1>1, <2>2, <2>3, FailedIsSound DEF Steps
<1> QED BY <1>2, <1>3

(* What the threads deliver leaves the session where it is. *)
Untouched(s, r) ==
    /\ r \in States
    /\ r.state = s.state /\ r.intent = s.intent /\ r.ended = s.ended /\ r.input = s.input
    /\ r.seeking = s.seeking /\ r.shown = s.shown /\ r.device = s.device
    /\ r.active = s.active /\ r.fallback = s.fallback /\ r.reopen = s.reopen
    /\ r.recoverAt = s.recoverAt /\ r.requested = s.requested
    /\ r.operation = s.operation /\ r.drained = s.drained
    /\ r.anchor = s.anchor /\ r.anchored = s.anchored /\ r.elapsed = s.elapsed
    /\ r.established = s.established /\ r.tail = s.tail /\ r.interruption = s.interruption

(* The frames and the sound of a running operation, or of its output, leave the *)
(* session sound: the output is there to stay, what is heard only advances, and *)
(* the timer stops only when there is nothing to monitor.                       *)
LEMMA Delivers ==
    ASSUME NEW s, Sound(s), NEW r, Untouched(s, r),
           IF s.audio = "none" THEN r.audio = "none" \/ r.heard = s.requested
           ELSE s.heard <= r.heard /\ r.audio # "none",
           s.tail => r.audio \in {"drained", "failed"},
           \/ s.operation = "running" \/ s.audio # "none"
           \/ /\ r.audio = s.audio /\ r.queue = s.queue /\ r.discovered = s.discovered
              /\ r.woken => s.woken,
           s.discovered => r.discovered, s.queue \subseteq r.queue,
           r.timer = s.timer \/ ~NeedsMonitoring(s)
    PROVE  Steps(s, r) /\ Stays(s, r)
<1>1. /\ s \in States /\ r \in States /\ Showing(s) /\ Closed(s) /\ Software(s) /\ Heard(s)
  BY DEF Sound, Untouched
<1>2. Showing(r) /\ Closed(r) /\ Stays(s, r)
  BY <1>1 DEF Untouched, Showing, Closed, Open, Stays
<1>3. Software(r)
  BY <1>1 DEF Untouched, Software, Open
<1>4. Heard(r)
  <2>1. /\ s.heard \in Int /\ r.heard \in Int /\ s.anchor \in Int /\ s.requested \in Int
    <3>1. /\ s.heard \in Positions /\ r.heard \in Positions /\ s.anchor \in Positions
          /\ s.requested \in Positions
      BY <1>1 DEF States
    <3> QED BY <3>1, Bounds
  <2>2. CASE s.audio = "none"
    <3>1. ~s.established /\ ~s.tail /\ ~r.established /\ ~r.tail
      BY <1>1, <2>2 DEF Heard, Untouched
    <3>2. r.audio # "none" => r.requested <= r.heard
      BY <2>1, <2>2 DEF Untouched
    <3> QED BY <3>1, <3>2 DEF Heard
  <2>3. CASE s.audio # "none"
    <3>1. s.heard <= r.heard /\ r.audio # "none" /\ s.requested <= s.heard
      BY <1>1, <2>3 DEF Heard
    <3>2. r.requested <= r.heard
      BY <2>1, <3>1 DEF Untouched
    <3>3. r.established /\ ~r.tail => r.anchor <= r.heard
      BY <1>1, <2>1, <3>1 DEF Untouched, Heard
    <3>4. r.tail => r.established /\ r.audio \in {"drained", "failed"} /\ r.interruption = "None"
      BY <1>1 DEF Untouched, Heard
    <3> QED BY <3>1, <3>2, <3>3, <3>4 DEF Heard
  <2> QED BY <2>2, <2>3
<1>5. Paced(s) => Paced(r)
  BY DEF Paced, Untouched, Open, PlayRequested, NeedsMonitoring
<1>6. Forward(s, r)
  <2>1. s.tail => Position(r) = Position(s)
    <3>1. /\ r.state = s.state /\ r.intent = s.intent /\ r.ended = s.ended
          /\ r.anchor = s.anchor /\ r.anchored = s.anchored /\ r.elapsed = s.elapsed
          /\ r.tail = s.tail /\ r.interruption = s.interruption
      BY DEF Untouched
    <3> QED BY <1>1, <3>1, SamePosition
  <2> QED BY <1>1, <2>1, ObservedIsInt DEF Forward, Observed, Untouched
<1> QED BY <1>1, <1>2, <1>3, <1>4, <1>5, <1>6 DEF Steps, Sound

(* A fact about every output. *)
LEMMA HeardIsInt ==
    ASSUME NEW s \in States
    PROVE  s.heard \in Int /\ s.heard <= s.heard
<1>1. s.heard \in Positions
  BY DEF States
<1>2. s.heard \in Int
  BY <1>1, Bounds
<1> QED BY <1>2

(* The streams of the medium are known. *)
LEMMA DiscoverSteps ==
    ASSUME Sound(session), NEW described \in BOOLEAN, DiscoverStreams(described)
    PROVE  Steps(session, session') /\ Stays(session, session')
<1>1. session \in States /\ Heard(session) /\ session.operation = "running"
  BY DEF Sound, DiscoverStreams, Running
<1>2. session' = [session EXCEPT !.discovered = TRUE, !.described = described,
                                 !.tracks = TRUE, !.woken = TRUE]
  BY DEF DiscoverStreams
<1>3. Shape(session')
  <2>1. Shape(session)
    BY <1>1, InParts
  <2> QED BY <1>2, <2>1, Zenon DEF Shape
<1>4. Flags(session') /\ Times(session') /\ Kinds(session')
  BY <1>1, <1>2 DEF States, Flags, Times, Kinds
<1>5. session' \in States
  BY <1>3, <1>4, InParts
<1>6. Untouched(session, session')
  BY <1>1, <1>2, <1>5 DEF States, Untouched
<1>7. /\ session'.audio = session.audio /\ session'.heard = session.heard
      /\ session'.queue = session.queue /\ session'.timer = session.timer
  BY <1>1, <1>2 DEF States
<1>8. session'.discovered
  BY <1>1, <1>2 DEF States
<1>9. session.heard <= session'.heard /\ (session.tail => session'.audio \in {"drained", "failed"})
  BY <1>1, <1>7, HeardIsInt DEF Heard
<1> QED BY <1>1, <1>6, <1>7, <1>8, <1>9, Delivers

(* A frame joins the queue. *)
LEMMA DecodeFrameSteps ==
    ASSUME Sound(session), NEW frame \in Frames, DecodeFrame(frame)
    PROVE  Steps(session, session') /\ Stays(session, session')
<1>1. session \in States /\ Heard(session) /\ session.operation = "running"
  BY DEF Sound, DecodeFrame, Running
<1>2. PICK n \in Positions : n = frame + 1
  BY Bounds
<1>3. PICK q \in SUBSET Frames : q = session.queue \cup {frame}
  <2>1. session.queue \in SUBSET Frames
    BY <1>1 DEF States
  <2> QED BY <2>1
<1>4. PICK w \in BOOLEAN : w = Awaited
  <2>1. Awaited \in BOOLEAN
    BY DEF Awaited
  <2> QED BY <2>1, Zenon
<1>5. session' = [session EXCEPT !.queue = q, !.next = n, !.woken = w]
  BY <1>2, <1>3, <1>4 DEF DecodeFrame
<1>6. Shape(session')
  <2>1. Shape(session)
    BY <1>1, InParts
  <2> QED BY <1>5, <2>1, Zenon DEF Shape
<1>7. Flags(session') /\ Times(session') /\ Kinds(session')
  BY <1>1, <1>5 DEF States, Flags, Times, Kinds
<1>8. session' \in States
  BY <1>6, <1>7, InParts
<1>9. Untouched(session, session')
  BY <1>1, <1>5, <1>8 DEF States, Untouched
<1>10. /\ session'.audio = session.audio /\ session'.heard = session.heard
       /\ session'.queue = q /\ session'.discovered = session.discovered
       /\ session'.timer = session.timer
  BY <1>1, <1>5 DEF States
<1>11. session.heard <= session'.heard /\ (session.tail => session'.audio \in {"drained", "failed"})
  BY <1>1, <1>10, HeardIsInt DEF Heard
<1> QED BY <1>1, <1>3, <1>9, <1>10, <1>11, Delivers

(* The output opens, or reports what it plays. *)
LEMMA AudioSteps ==
    ASSUME Sound(session), Audio
    PROVE  Steps(session, session') /\ Stays(session, session')
<1>1. session \in States /\ Heard(session)
  BY DEF Sound
<1>2. CASE AudioOpens
  <2>1. session.operation = "running" /\ session.audio = "none"
    BY <1>2 DEF AudioOpens, Running
  <2>2. PICK w \in BOOLEAN : w = Awaited
    <3>1. Awaited \in BOOLEAN
      BY DEF Awaited
    <3> QED BY <3>1, Zenon
  <2>3. session' = [session EXCEPT !.audio = "silent", !.heard = session.requested, !.woken = w]
    BY <1>2, <2>2 DEF AudioOpens
  <2>4. Shape(session')
    <3>1. Shape(session)
      BY <1>1, InParts
    <3> QED BY <2>3, <3>1, Zenon DEF Shape
  <2>5. Flags(session') /\ Times(session') /\ Kinds(session')
    BY <1>1, <2>3 DEF States, Flags, Times, Kinds, Outputs
  <2>6. session' \in States
    BY <2>4, <2>5, InParts
  <2>7. Untouched(session, session')
    BY <1>1, <2>3, <2>6 DEF States, Untouched
  <2>8. /\ session'.heard = session.requested /\ session'.queue = session.queue
        /\ session'.discovered = session.discovered /\ session'.timer = session.timer
    BY <1>1, <2>3 DEF States
  <2>9. ~session.tail
    BY <1>1, <2>1 DEF Heard
  <2> QED BY <1>1, <2>1, <2>7, <2>8, <2>9, Delivers
<1>3. ASSUME NEW status \in Outputs \ {"none"}, NEW heard \in Positions,
             session.audio # "none", session.heard <= heard,
             session.tail => status \in {"drained", "failed"},
             session' = [session EXCEPT !.audio = status, !.heard = heard]
      PROVE Steps(session, session') /\ Stays(session, session')
  <2>1. Shape(session')
    <3>1. Shape(session)
      BY <1>1, InParts
    <3> QED BY <1>3, <3>1, Zenon DEF Shape
  <2>2. Flags(session') /\ Times(session') /\ Kinds(session')
    BY <1>1, <1>3 DEF States, Flags, Times, Kinds
  <2>3. session' \in States
    BY <2>1, <2>2, InParts
  <2>4. Untouched(session, session')
    BY <1>1, <1>3, <2>3 DEF States, Untouched
  <2>5. /\ session'.heard = heard /\ session'.queue = session.queue
        /\ session'.discovered = session.discovered /\ session'.audio = status
        /\ session'.timer = session.timer
    BY <1>1, <1>3 DEF States
  <2> QED BY <1>1, <1>3, <2>4, <2>5, Delivers
<1>4. ASSUME NEW status \in Outputs \ {"none"}, session.audio # "none", Output(status),
             session.tail => status \in {"drained", "failed"}
      PROVE Steps(session, session') /\ Stays(session, session')
  <2>1. session.heard \in Positions /\ session.heard <= session.heard
    BY <1>1, HeardIsInt DEF States
  <2>2. [session EXCEPT !.audio = status]
          = [session EXCEPT !.audio = status, !.heard = session.heard]
    <3>1. Shape(session)
      BY <1>1, InParts
    <3> QED BY <3>1 DEF Shape, Fields
  <2>3. session' = [session EXCEPT !.audio = status, !.heard = session.heard]
    BY <1>4, <2>2 DEF Output
  <2> QED BY <1>3, <1>4, <2>1, <2>3
<1>5. CASE AudioReports \/ AudioStarves \/ AudioSilences \/ AudioFails
  <2>1. session.audio \in {"silent", "live", "held"} => ~session.tail
    BY <1>1 DEF Heard
  <2> QED BY <1>4, <1>5, <2>1 DEF AudioReports, AudioStarves, AudioSilences, AudioFails, Outputs
<1>6. CASE AudioAdvances
  <2>1. PICK h \in Positions : h = session.heard + 1 /\ session.heard <= h
    <3>1. session.heard \in Positions /\ session.heard < Duration
      BY <1>1, <1>6 DEF States, AudioAdvances
    <3> QED BY <3>1, SessionAssumption DEF Positions
  <2>2. session.audio = "live" /\ ~session.tail
    BY <1>1, <1>6 DEF AudioAdvances, Heard
  <2>3. [session EXCEPT !.heard = h] = [session EXCEPT !.audio = "live", !.heard = h]
    <3>1. Shape(session)
      BY <1>1, InParts
    <3> QED BY <2>2, <3>1 DEF Shape, Fields
  <2>4. session' = [session EXCEPT !.audio = "live", !.heard = h]
    BY <1>6, <2>1, <2>3 DEF AudioAdvances
  <2> QED BY <1>3, <2>1, <2>2, <2>4 DEF Outputs
<1>7. CASE AudioDrains
  <2>1. PICK end \in session.heard..Duration :
            session' = [session EXCEPT !.audio = "drained", !.heard = end]
    BY <1>7 DEF AudioDrains
  <2>2. end \in Positions /\ session.heard <= end
    <3>1. session.heard \in Positions
      BY <1>1 DEF States
    <3> QED BY <3>1, SessionAssumption DEF Positions
  <2> QED BY <1>3, <1>7, <2>1, <2>2 DEF AudioDrains, Outputs
<1> QED BY <1>2, <1>5, <1>6, <1>7 DEF Audio

(* A wake is spent. *)
LEMMA Wakes ==
    ASSUME Sound(session), NEW w, w = [session EXCEPT !.woken = FALSE]
    PROVE  /\ Steps(session, w) /\ Stays(session, w) /\ w.state = session.state
           /\ (Paced(session) => Paced(w)) /\ w.intent = session.intent
<1>1. session \in States /\ Heard(session)
  BY DEF Sound
<1>2. Shape(w)
  <2>1. Shape(session)
    BY <1>1, InParts
  <2> QED BY <2>1, Zenon DEF Shape
<1>3. Flags(w) /\ Times(w) /\ Kinds(w)
  BY <1>1 DEF States, Flags, Times, Kinds
<1>4. w \in States
  BY <1>2, <1>3, InParts
<1>5. Untouched(session, w)
  BY <1>1, <1>4 DEF States, Untouched
<1>6. /\ w.audio = session.audio /\ w.heard = session.heard /\ w.queue = session.queue
      /\ w.discovered = session.discovered /\ w.timer = session.timer
  BY <1>1 DEF States
<1>7. ~w.woken
  BY <1>1 DEF States
<1>8. session.heard <= w.heard /\ (session.tail => w.audio \in {"drained", "failed"})
  BY <1>1, <1>6, HeardIsInt DEF Heard
<1>9. Steps(session, w) /\ Stays(session, w)
  BY <1>1, <1>5, <1>6, <1>7, <1>8, Delivers
<1>10. Paced(session) => Paced(w)
  BY <1>5, <1>6, <1>7 DEF Paced, Untouched, Open, PlayRequested
<1> QED BY <1>5, <1>9, <1>10 DEF Untouched

(* A wake that arrives while the session opens selects a frame. *)
LEMMA FramesAvailableSteps ==
    ASSUME Sound(session), FramesAvailable
    PROVE  Steps(session, session') /\ Stays(session, session')
<1>1. PICK w : w = [session EXCEPT !.woken = FALSE]
  OBVIOUS
<1>2. /\ Steps(session, w) /\ Stays(session, w) /\ w.state = session.state
      /\ (Paced(session) => Paced(w)) /\ w.intent = session.intent
  BY <1>1, Wakes
<1>3. session' = IF w.state = "Opening" THEN Select(w) ELSE w
  BY <1>1 DEF FramesAvailable
<1>4. CASE w.state = "Opening"
  <2>1. Sound(w) /\ Open(w)
    BY <1>2, <1>4 DEF Steps, Open
  <2>2. Moved(w, session')
    BY <1>3, <1>4, <2>1, Selects
  <2>3. Forward(session, session')
    BY <1>2, <1>4 DEF Forward
  <2> QED BY <1>2, <2>2, <2>3 DEF Moved, Steps, Stays
<1>5. CASE w.state # "Opening"
  BY <1>2, <1>3, <1>5
<1> QED BY <1>4, <1>5

(* A render pass selects a frame. *)
LEMMA PresentSteps ==
    ASSUME Sound(session), Present
    PROVE  Steps(session, session') /\ Stays(session, session')
BY Selects DEF Present, Moved, Steps

(* A decoder that fails closes the session. *)
LEMMA DecodeFailsSteps ==
    ASSUME Sound(session), DecodeFails
    PROVE  Steps(session, session') /\ Stays(session, session')
<1>1. session \in States /\ Software(session) /\ session.operation = "running"
  BY DEF Sound, DecodeFails, Running
<1>2. Failed(session, session')
  BY <1>1, FailTo DEF DecodeFails
<1>3. Paced(session) => ~session.reopen
  BY <1>1 DEF Paced
<1> QED BY <1>1, <1>2, <1>3, FailedIsSound DEF Steps

(* The decoder is through: a seek without a frame is over, and a session that   *)
(* opens can become ready.                                                      *)
LEMMA DecodeCompletesSteps ==
    ASSUME Sound(session), DecodeCompletes
    PROVE  Steps(session, session') /\ Stays(session, session')
<1> DEFINE done == [session EXCEPT !.operation = "none", !.drained = TRUE, !.known = TRUE]
<1>1. /\ session \in States /\ Showing(session) /\ Closed(session) /\ Software(session)
      /\ Heard(session) /\ session.operation = "running" /\ session.discovered
  BY DEF Sound, DecodeCompletes, Running
<1>2. PICK d : d = IF session.seeking /\ session.queue = {}
                   THEN [done EXCEPT !.seeking = FALSE, !.shown = NoFrame] ELSE done
  OBVIOUS
<1>3. session' = IF d.state = "Opening" THEN Select(d) ELSE d
  BY <1>2 DEF DecodeCompletes
<1>4. done \in States
  <2>1. Shape(done)
    <3>1. Shape(session)
      BY <1>1, InParts
    <3> QED BY <3>1, Zenon DEF Shape
  <2>2. Flags(done) /\ Times(done) /\ Kinds(done)
    BY <1>1 DEF States, Flags, Times, Kinds
  <2> QED BY <2>1, <2>2, InParts
<1>5. /\ done.state = session.state /\ done.intent = session.intent
      /\ done.ended = session.ended /\ done.input = session.input
      /\ done.seeking = session.seeking /\ done.shown = session.shown
      /\ done.device = session.device /\ done.active = session.active
      /\ done.fallback = session.fallback /\ done.reopen = session.reopen
      /\ done.requested = session.requested /\ done.timer = session.timer
      /\ done.discovered = session.discovered /\ done.queue = session.queue
  BY <1>1 DEF States
<1>6. /\ done.anchor = session.anchor /\ done.anchored = session.anchored
      /\ done.elapsed = session.elapsed /\ done.established = session.established
      /\ done.tail = session.tail /\ done.interruption = session.interruption
      /\ done.audio = session.audio /\ done.heard = session.heard
  BY <1>1 DEF States
<1>7. done.drained
  BY <1>1 DEF States
<1> HIDE DEF done
<1>8. /\ d \in States
      /\ IF session.seeking /\ session.queue = {}
         THEN ~d.seeking /\ d.shown = NoFrame
         ELSE d.seeking = done.seeking /\ d.shown = done.shown
      /\ d.state = done.state /\ d.intent = done.intent /\ d.ended = done.ended
      /\ d.input = done.input /\ d.device = done.device /\ d.active = done.active
      /\ d.fallback = done.fallback /\ d.reopen = done.reopen
      /\ d.requested = done.requested /\ d.timer = done.timer
      /\ d.discovered = done.discovered /\ d.queue = done.queue
      /\ d.anchor = done.anchor /\ d.anchored = done.anchored /\ d.elapsed = done.elapsed
      /\ d.established = done.established /\ d.tail = done.tail
      /\ d.interruption = done.interruption /\ d.audio = done.audio /\ d.heard = done.heard
      /\ d.drained = done.drained
  <2>1. CASE session.seeking /\ session.queue = {}
    <3>1. d = [done EXCEPT !.seeking = FALSE, !.shown = NoFrame]
      BY <1>2, <2>1
    <3>2. Shape(d)
      <4>1. Shape(done)
        BY <1>4, InParts
      <4> QED BY <3>1, <4>1, Zenon DEF Shape
    <3>3. Flags(d) /\ Times(d) /\ Kinds(d)
      BY <1>4, <3>1 DEF States, Flags, Times, Kinds
    <3>4. d \in States
      BY <3>2, <3>3, InParts
    <3>5. /\ d.shown = NoFrame
          /\ d.state = done.state /\ d.intent = done.intent /\ d.ended = done.ended
          /\ d.input = done.input /\ d.device = done.device /\ d.active = done.active
          /\ d.fallback = done.fallback /\ d.reopen = done.reopen
          /\ d.requested = done.requested /\ d.timer = done.timer
          /\ d.discovered = done.discovered /\ d.queue = done.queue
      BY <1>4, <3>1 DEF States
    <3>6. /\ d.anchor = done.anchor /\ d.anchored = done.anchored /\ d.elapsed = done.elapsed
          /\ d.established = done.established /\ d.tail = done.tail
          /\ d.interruption = done.interruption /\ d.audio = done.audio
          /\ d.heard = done.heard /\ d.drained = done.drained
      BY <1>4, <3>1 DEF States
    <3>7. ~d.seeking
      BY <1>4, <3>1 DEF States
    <3> QED BY <2>1, <3>4, <3>5, <3>6, <3>7
  <2>2. CASE ~(session.seeking /\ session.queue = {})
    <3>1. d = done
      BY <1>2, <2>2
    <3> QED BY <1>4, <2>2, <3>1
  <2> QED BY <2>1, <2>2
<1>9. Showing(d) /\ Closed(d)
  BY <1>1, <1>5, <1>8 DEF Showing, Closed, Open
<1>10. Software(d)
  BY <1>1, <1>5, <1>8 DEF Software, Open
<1>11. Heard(d)
  BY <1>1, <1>5, <1>6, <1>8 DEF Heard
<1>12. Sound(d)
  BY <1>8, <1>9, <1>10, <1>11 DEF Sound
<1>13. Paced(session) => Paced(d)
  BY <1>1, <1>5, <1>6, <1>7, <1>8 DEF Paced, Open, PlayRequested
<1>14. Stays(session, d) /\ d.intent = session.intent /\ d.state = session.state
  BY <1>5, <1>8 DEF Stays
<1>15. CASE d.state = "Opening"
  <2>1. Open(d)
    BY <1>15 DEF Open
  <2>2. Moved(d, session')
    BY <1>3, <1>12, <1>15, <2>1, Selects
  <2>3. Forward(session, session')
    BY <1>14, <1>15 DEF Forward
  <2> QED BY <1>13, <1>14, <2>2, <2>3 DEF Moved, Steps, Stays
<1>16. CASE d.state # "Opening"
  <2>1. Position(d) = Position(session)
    <3>1. /\ d.state = session.state /\ d.intent = session.intent /\ d.ended = session.ended
          /\ d.anchor = session.anchor /\ d.anchored = session.anchored
          /\ d.elapsed = session.elapsed /\ d.tail = session.tail
          /\ d.interruption = session.interruption /\ d.audio = session.audio
          /\ d.heard = session.heard /\ d.established = session.established
      BY <1>5, <1>6, <1>8
    <3> QED BY <1>1, <1>8, <3>1, SamePosition
  <2>2. Observed(d) = Observed(session)
    BY <1>6, <1>8, <2>1 DEF Observed
  <2>3. Forward(session, d)
    BY <1>1, <2>2, ObservedIsInt DEF Forward
  <2> QED BY <1>3, <1>12, <1>13, <1>14, <1>16, <2>3 DEF Steps
<1> QED BY <1>15, <1>16

(* The clocks move and the grace periods run out; nothing else changes. *)
Ticked(s, r) ==
    /\ r \in States
    /\ r.state = s.state /\ r.intent = s.intent /\ r.ended = s.ended /\ r.input = s.input
    /\ r.seeking = s.seeking /\ r.shown = s.shown /\ r.device = s.device
    /\ r.active = s.active /\ r.fallback = s.fallback /\ r.reopen = s.reopen
    /\ r.requested = s.requested /\ r.timer = s.timer /\ r.operation = s.operation
    /\ r.drained = s.drained /\ r.discovered = s.discovered /\ r.queue = s.queue
    /\ r.woken = s.woken /\ r.recoverAt = s.recoverAt
    /\ r.anchor = s.anchor /\ r.anchored = s.anchored
    /\ r.established = s.established /\ r.tail = s.tail /\ r.interruption = s.interruption
    /\ r.audio = s.audio /\ r.heard = s.heard
    /\ r.elapsed = IF s.anchored /\ s.anchor + s.elapsed < Duration
                   THEN s.elapsed + 1 ELSE s.elapsed
    /\ (s.unavailable = "late" => r.unavailable = "due")

(* A tick moves the clock by one. *)
LEMMA Ticks ==
    ASSUME NEW s \in States, NEW r, r = Tick(s)
    PROVE  Ticked(s, r)
<1>1. /\ s.anchor \in Int /\ s.elapsed \in Int /\ 0 <= s.anchor /\ 0 <= s.elapsed
      /\ s.elapsed \in Positions
  <2>1. s.anchor \in Positions /\ s.elapsed \in Positions
    BY DEF States
  <2> QED BY <2>1, Bounds
<1>2. PICK e \in Positions : e = IF s.anchored /\ s.anchor + s.elapsed < Duration
                                 THEN s.elapsed + 1 ELSE s.elapsed
  <2>1. s.anchor + s.elapsed < Duration => s.elapsed + 1 \in Positions
    BY <1>1, SessionAssumption DEF Positions
  <2> QED BY <1>1, <2>1
<1>3. PICK h \in Graces : h = IF s.hold = "late" THEN "due" ELSE s.hold
  BY DEF States, Graces
<1>4. PICK u \in Graces : u = IF s.unavailable = "late" THEN "due" ELSE s.unavailable
  BY DEF States, Graces
<1>5. r = [s EXCEPT !.elapsed = e, !.hold = h, !.unavailable = u]
  BY <1>2, <1>3, <1>4 DEF Tick
<1>6. Shape(r)
  <2>1. Shape(s)
    BY InParts
  <2> QED BY <1>5, <2>1, Zenon DEF Shape
<1>7. Flags(r) /\ Times(r) /\ Kinds(r)
  BY <1>5 DEF States, Flags, Times, Kinds
<1>8. r \in States
  BY <1>6, <1>7, InParts
<1>9. r.elapsed = e /\ r.unavailable = u
  BY <1>5 DEF States
<1>10. /\ r.state = s.state /\ r.intent = s.intent /\ r.ended = s.ended /\ r.input = s.input
       /\ r.seeking = s.seeking /\ r.shown = s.shown /\ r.device = s.device
       /\ r.active = s.active /\ r.fallback = s.fallback /\ r.reopen = s.reopen
       /\ r.requested = s.requested /\ r.timer = s.timer /\ r.operation = s.operation
  BY <1>5 DEF States
<1>11. /\ r.drained = s.drained /\ r.discovered = s.discovered /\ r.queue = s.queue
       /\ r.woken = s.woken /\ r.recoverAt = s.recoverAt
       /\ r.anchor = s.anchor /\ r.anchored = s.anchored
       /\ r.established = s.established /\ r.tail = s.tail
       /\ r.interruption = s.interruption /\ r.audio = s.audio /\ r.heard = s.heard
  BY <1>5 DEF States
<1> QED BY <1>2, <1>4, <1>8, <1>9, <1>10, <1>11 DEF Ticked

(* Time moves an established clock forward. *)
LEMMA TimePassesSteps ==
    ASSUME Sound(session), TimePasses
    PROVE  Steps(session, session') /\ Stays(session, session')
<1>1. /\ session \in States /\ Showing(session) /\ Closed(session) /\ Software(session)
      /\ Heard(session)
  BY DEF Sound
<1>2. Ticked(session, session') /\ session' \in States
  BY <1>1, Ticks DEF TimePasses, Ticked
<1>3. Showing(session') /\ Closed(session')
  BY <1>1, <1>2 DEF Ticked, Showing, Closed, Open
<1>4. Software(session')
  BY <1>1, <1>2 DEF Ticked, Software, Open
<1>5. Heard(session')
  BY <1>1, <1>2 DEF Ticked, Heard
<1>6. Paced(session) => Paced(session')
  BY <1>2 DEF Ticked, Paced, Open, PlayRequested
<1>7. Forward(session, session')
  <2>1. /\ session'.anchor = session.anchor /\ session'.tail = session.tail
        /\ session'.anchored = session.anchored /\ session'.state = session.state
        /\ session'.intent = session.intent /\ session'.ended = session.ended
        /\ session'.interruption = session.interruption
        /\ session'.elapsed = IF session.anchored /\ session.anchor + session.elapsed < Duration
                              THEN session.elapsed + 1 ELSE session.elapsed
    BY <1>2 DEF Ticked
  <2>2. session.anchor \in Int /\ session.elapsed \in Int /\ Duration \in Int
    <3>1. session.anchor \in Positions /\ session.elapsed \in Positions
      BY <1>1 DEF States
    <3> QED BY <3>1, Bounds
  <2>3. session.tail => Position(session') >= Position(session)
    <3>1. CASE /\ session.anchored /\ session.state = "Ready" /\ session.intent = "Playing"
               /\ ~session.ended /\ session.interruption = "None"
      <4> DEFINE At(e) == IF session.anchor + e <= Duration THEN session.anchor + e ELSE Duration
      <4>1. session.tail => /\ Position(session') = At(session'.elapsed)
                            /\ Position(session) = At(session.elapsed)
        BY <1>1, <1>2, <2>1, <3>1, PositionOf
      <4>2. /\ At(session.elapsed + 1) >= At(session.elapsed)
            /\ At(session.elapsed) >= At(session.elapsed)
        BY <2>2
      <4> HIDE DEF At
      <4>3. session'.elapsed = session.elapsed \/ session'.elapsed = session.elapsed + 1
        BY <2>1
      <4> QED BY <4>1, <4>2, <4>3
    <3>2. CASE ~(/\ session.anchored /\ session.state = "Ready" /\ session.intent = "Playing"
                 /\ ~session.ended /\ session.interruption = "None")
      <4>1. session.tail => /\ Position(session') = session.anchor
                            /\ Position(session) = session.anchor
        BY <1>1, <1>2, <2>1, <3>2, PositionOf
      <4> QED BY <2>2, <4>1
    <3> QED BY <3>1, <3>2
  <2> QED BY <2>1, <2>2, <2>3 DEF Forward, Observed
<1> QED BY <1>2, <1>3, <1>4, <1>5, <1>6, <1>7 DEF Steps, Sound, Stays, Ticked

(* The timer stops when there is nothing left to monitor. *)
LEMMA TimerStops ==
    ASSUME NEW s, Sound(s), ~NeedsMonitoring(s), NEW r, r = [s EXCEPT !.timer = FALSE]
    PROVE  Steps(s, r) /\ Stays(s, r) /\ (Paced(s) => Paced(r)) /\ r.established = s.established
<1>1. s \in States /\ Heard(s)
  BY DEF Sound
<1>2. Shape(r)
  <2>1. Shape(s)
    BY <1>1, InParts
  <2> QED BY <2>1, Zenon DEF Shape
<1>3. Flags(r) /\ Times(r) /\ Kinds(r)
  BY <1>1 DEF States, Flags, Times, Kinds
<1>4. r \in States
  BY <1>2, <1>3, InParts
<1>5. Untouched(s, r)
  BY <1>1, <1>4 DEF States, Untouched
<1>6. /\ r.audio = s.audio /\ r.heard = s.heard /\ r.queue = s.queue
      /\ r.discovered = s.discovered /\ r.woken = s.woken
  BY <1>1 DEF States
<1>7. s.heard <= r.heard /\ (s.tail => r.audio \in {"drained", "failed"})
  BY <1>1, <1>6, HeardIsInt DEF Heard
<1>8. Steps(s, r) /\ Stays(s, r)
  BY <1>1, <1>5, <1>6, <1>7, Delivers
<1>9. Paced(s) => Paced(r)
  BY <1>5, <1>6 DEF Paced, Untouched, Open, PlayRequested, NeedsMonitoring
<1> QED BY <1>5, <1>8, <1>9 DEF Untouched

(* The monitor selects a frame and stops its timer when it can. *)
LEMMA MonitorSteps ==
    ASSUME Sound(session), MonitorPlayback
    PROVE  Steps(session, session') /\ Stays(session, session')
<1>1. session' = Monitor(session) /\ session \in States
  BY DEF MonitorPlayback, Sound
<1>2. CASE ~Open(session)
  <2>1. session' = [session EXCEPT !.timer = FALSE]
    BY <1>1, <1>2 DEF Monitor
  <2> QED BY <1>2, <2>1, TimerStops DEF NeedsMonitoring
<1>3. CASE Open(session)
  <2>1. PICK o : o = Select(session)
    OBVIOUS
  <2>2. Moved(session, o) /\ Forward(session, o)
    BY <1>3, <2>1, Selects
  <2>3. CASE o.state = "Ready" /\ ~NeedsMonitoring(o)
    <3>1. session' = [o EXCEPT !.timer = FALSE]
      BY <1>1, <1>3, <2>1, <2>3 DEF Monitor
    <3>2. /\ Steps(o, session') /\ Stays(o, session') /\ (Paced(o) => Paced(session'))
          /\ session'.established = o.established
      BY <2>2, <2>3, <3>1, TimerStops DEF Moved
    <3>3. Forward(session, session')
      <4>1. o \in States /\ session' \in States
        BY <2>2, <3>2 DEF Moved, Sound, Steps
      <4>2. /\ Observed(session) \in Int /\ Observed(o) \in Int /\ Observed(session') \in Int
        BY <1>1, <4>1, ObservedIsInt
      <4> QED BY <2>2, <2>3, <3>2, <4>2 DEF Forward, Steps
    <3> QED BY <2>2, <3>2, <3>3 DEF Moved, Steps, Stays
  <2>4. CASE ~(o.state = "Ready" /\ ~NeedsMonitoring(o))
    <3>1. session' = o
      BY <1>1, <1>3, <2>1, <2>4 DEF Monitor
    <3> QED BY <2>2, <3>1 DEF Moved, Steps
  <2> QED BY <2>3, <2>4
<1> QED BY <1>2, <1>3

(* What plays again starts from the beginning, now or when the device is back. *)
LEMMA ReplaySteps ==
    ASSUME Sound(session), Open(session), session' = Replay(session)
    PROVE  Steps(session, session') /\ session'.intent = "Playing"
<1>1. /\ session \in States /\ Showing(session) /\ Closed(session) /\ Software(session)
      /\ Heard(session) /\ session.input # "none"
  BY DEF Sound, Closed
<1>2. CASE session.reopen
  <2>1. PICK z : z = [session EXCEPT !.intent = "Playing", !.fallback = FALSE,
                                     !.audioIntent = TRUE, !.recoverAt = 0,
                                     !.recoverSeeking = FALSE]
    OBVIOUS
  <2>2. z \in States
    <3>1. Shape(session)
      BY <1>1, InParts
    <3>2. Shape(z)
      BY <2>1, <3>1, Zenon DEF Shape
    <3>3. Flags(z) /\ Times(z) /\ Kinds(z)
      BY <1>1, <2>1, Given DEF States, Flags, Times, Kinds
    <3> QED BY <3>2, <3>3, InParts
  <2>3. /\ z.state = session.state /\ z.intent = "Playing" /\ z.input = session.input
        /\ z.device = session.device /\ z.active = session.active /\ ~z.fallback
        /\ z.reopen = session.reopen /\ z.recoverAt = 0 /\ z.operation = session.operation
        /\ z.queue = session.queue /\ z.woken = session.woken /\ z.shown = session.shown
        /\ z.audio = session.audio /\ z.heard = session.heard
    BY <1>1, <2>1 DEF States
  <2>4. session' = ResetPlayback(z, 0)
    <3>1. z = [[session EXCEPT !.intent = "Playing", !.fallback = FALSE]
                  EXCEPT !.audioIntent = TRUE, !.recoverAt = 0, !.recoverSeeking = FALSE]
      BY <2>1
    <3> QED BY <1>1, <1>2, <3>1 DEF Replay
  <2>5. PICK r : r = ResetPlayback(z, 0)
    OBVIOUS
  <2>6. /\ r \in States /\ Chosen(z, r)
        /\ r.operation = z.operation /\ r.queue = z.queue /\ r.woken = z.woken
        /\ r.shown = z.shown /\ r.audio = z.audio /\ r.heard = z.heard
        /\ ~r.seeking /\ r.requested = 0 /\ ~r.established /\ ~r.tail
        /\ ~r.discovered /\ ~r.drained
    <3>1. PICK c \in Positions : c = 0
      BY Given
    <3>2. r = ResetPlayback(z, c)
      BY <2>5, <3>1
    <3>3. /\ r \in States /\ Chosen(z, r)
          /\ r.operation = z.operation /\ r.queue = z.queue /\ r.woken = z.woken
          /\ r.shown = z.shown /\ r.audio = z.audio /\ r.heard = z.heard
          /\ ~r.seeking /\ r.requested = c /\ ~r.established /\ ~r.tail
          /\ ~r.discovered /\ ~r.drained
      BY <2>2, <3>2, Resets
    <3> QED BY <3>1, <3>3
  <2>7. Showing(r) /\ Closed(r)
    BY <1>1, <2>3, <2>6 DEF Showing, Closed, Chosen, Open
  <2>8. Software(r)
    BY <1>1, <2>3, <2>6 DEF Software, Chosen
  <2>9. Heard(r)
    <3>1. 0 <= r.heard
      <4>1. r.heard \in Positions
        BY <2>6 DEF States
      <4> QED BY <4>1, Bounds
    <3> QED BY <2>6, <3>1 DEF Heard
  <2>10. Paced(session) => Paced(r)
    BY <1>2, <2>3, <2>6 DEF Paced, Chosen
  <2>11. Forward(session, r)
    BY <2>6 DEF Forward
  <2> QED BY <2>3, <2>4, <2>5, <2>6, <2>7, <2>8, <2>9, <2>10, <2>11 DEF Sound, Steps, Chosen
<1>3. CASE ~session.reopen
  <2>1. PICK z : z = [session EXCEPT !.intent = "Playing", !.fallback = FALSE]
    OBVIOUS
  <2>2. z \in States
    <3>1. Shape(session)
      BY <1>1, InParts
    <3>2. Shape(z)
      BY <2>1, <3>1, Zenon DEF Shape
    <3>3. Flags(z) /\ Times(z) /\ Kinds(z)
      BY <1>1, <2>1 DEF States, Flags, Times, Kinds
    <3> QED BY <3>2, <3>3, InParts
  <2>3. /\ z.intent = "Playing" /\ z.input = session.input
        /\ z.device = session.device /\ ~z.fallback /\ z.reopen = session.reopen
    BY <1>1, <2>1 DEF States
  <2>4. PICK k \in BOOLEAN : ~k
    OBVIOUS
  <2>5. session' = RestartAt(z, 0, session.device, k)
    BY <1>1, <1>3, <2>1, <2>4 DEF Replay
  <2>6. PICK d \in Devices : d = session.device
    BY <1>1, Given
  <2>7. /\ Sound(session') /\ session'.state = "Opening" /\ session'.intent = z.intent
        /\ Paced(session')
    <3>1. session' = RestartAt(z, 0, d, k) /\ 0 \in Positions
      BY <2>5, <2>6, Given
    <3>2. /\ z.input # "none" /\ ~z.reopen
          /\ (d = "hardware" => z.device = "hardware")
          /\ (z.fallback => d = "unavailable" /\ z.device = "hardware")
      BY <1>1, <1>3, <2>3, <2>6
    <3> QED BY <2>2, <3>1, <3>2, Restarts
  <2> QED BY <2>3, <2>7, NotReady DEF Steps
<1> QED BY <1>2, <1>3

(* A paused session goes on from where it was. *)
LEMMA ContinueSteps ==
    ASSUME Sound(session), session.state = "Ready" \/ SeekOpening(session),
           session.intent # "Playing", session.intent # "Stopped", ~session.ended,
           session' = Continue(session)
    PROVE  Steps(session, session') /\ Stays(session, session')
<1>1. /\ session \in States /\ Showing(session) /\ Closed(session) /\ Software(session)
      /\ Heard(session) /\ Open(session)
  BY DEF Sound, SeekOpening, Open
<1>2. PICK p : p = [session EXCEPT !.intent = "Playing", !.audioIntent = TRUE]
  OBVIOUS
<1>3. p \in States
  <2>1. Shape(session)
    BY <1>1, InParts
  <2>2. Shape(p)
    BY <1>2, <2>1, Zenon DEF Shape
  <2>3. Flags(p) /\ Times(p) /\ Kinds(p)
    BY <1>1, <1>2 DEF States, Flags, Times, Kinds
  <2> QED BY <2>2, <2>3, InParts
<1>4. /\ p.intent = "Playing" /\ p.timer = session.timer /\ p.state = session.state
      /\ p.input = session.input /\ p.seeking = session.seeking /\ p.ended = session.ended
      /\ p.requested = session.requested /\ p.device = session.device
      /\ p.active = session.active /\ p.fallback = session.fallback
      /\ p.reopen = session.reopen /\ p.recoverAt = session.recoverAt
      /\ p.operation = session.operation /\ p.discovered = session.discovered
  BY <1>1, <1>2 DEF States
<1>5. /\ p.drained = session.drained /\ p.queue = session.queue /\ p.woken = session.woken
      /\ p.shown = session.shown /\ p.audio = session.audio /\ p.heard = session.heard
      /\ p.anchor = session.anchor /\ p.anchored = session.anchored
      /\ p.established = session.established /\ p.tail = session.tail
      /\ p.interruption = session.interruption
  BY <1>1, <1>2 DEF States
<1>6. ASSUME NEW z \in States, NEW r, r = [z EXCEPT !.timer = TRUE]
      PROVE /\ r \in States /\ r.timer
            /\ r.state = z.state /\ r.intent = z.intent /\ r.input = z.input
            /\ r.seeking = z.seeking /\ r.ended = z.ended /\ r.requested = z.requested
            /\ r.device = z.device /\ r.active = z.active /\ r.fallback = z.fallback
            /\ r.reopen = z.reopen /\ r.recoverAt = z.recoverAt /\ r.operation = z.operation
            /\ r.discovered = z.discovered /\ r.drained = z.drained /\ r.queue = z.queue
            /\ r.woken = z.woken /\ r.shown = z.shown /\ r.audio = z.audio
            /\ r.heard = z.heard /\ Clocked(z, r) /\ r.interruption = z.interruption
  <2>1. Shape(r)
    <3>1. Shape(z)
      BY <1>6, InParts
    <3> QED BY <1>6, <3>1, Zenon DEF Shape
  <2>2. Flags(r) /\ Times(r) /\ Kinds(r)
    BY <1>6 DEF States, Flags, Times, Kinds
  <2>3. r \in States
    BY <2>1, <2>2, InParts
  <2>5. r.timer
    BY <1>6 DEF States
  <2>6. /\ r.state = z.state /\ r.intent = z.intent /\ r.input = z.input
        /\ r.seeking = z.seeking /\ r.ended = z.ended /\ r.requested = z.requested
        /\ r.device = z.device /\ r.active = z.active /\ r.fallback = z.fallback
        /\ r.reopen = z.reopen /\ r.recoverAt = z.recoverAt /\ r.operation = z.operation
        /\ r.discovered = z.discovered /\ r.drained = z.drained /\ r.queue = z.queue
        /\ r.woken = z.woken /\ r.shown = z.shown /\ r.audio = z.audio
    BY <1>6 DEF States
  <2>7. r.heard = z.heard /\ Clocked(z, r) /\ r.interruption = z.interruption
    BY <1>6 DEF States, Clocked
  <2> QED BY <2>3, <2>5, <2>6, <2>7
<1>7. CASE SeekOpening(session)
  <2>1. session' = [p EXCEPT !.timer = TRUE]
    BY <1>2, <1>7 DEF Continue
  <2>2. /\ session' \in States /\ session'.timer
        /\ session'.state = p.state /\ session'.input = p.input
        /\ session'.seeking = p.seeking /\ session'.requested = p.requested
        /\ session'.device = p.device /\ session'.active = p.active
        /\ session'.fallback = p.fallback /\ session'.reopen = p.reopen
        /\ session'.recoverAt = p.recoverAt /\ session'.operation = p.operation
        /\ session'.discovered = p.discovered /\ session'.drained = p.drained
        /\ session'.queue = p.queue /\ session'.woken = p.woken /\ session'.shown = p.shown
        /\ session'.audio = p.audio /\ session'.heard = p.heard /\ Clocked(p, session')
        /\ session'.interruption = p.interruption
    BY <1>3, <1>6, <2>1
  <2>3. Showing(session') /\ Closed(session')
    BY <1>1, <1>4, <1>5, <2>2 DEF Showing, Closed, Open
  <2>4. Software(session')
    BY <1>1, <1>4, <2>2 DEF Software, Open
  <2>5. Heard(session')
    BY <1>1, <1>4, <1>5, <2>2 DEF Heard, Clocked
  <2>6. Paced(session) => Paced(session')
    BY <1>4, <1>5, <1>7, <2>2 DEF Paced, Open, SeekOpening
  <2>7. session'.state # "Ready"
    BY <1>4, <1>7, <2>2 DEF SeekOpening
  <2> QED BY <1>4, <2>2, <2>3, <2>4, <2>5, <2>6, <2>7, NotReady DEF Sound, Steps, Stays
<1>8. CASE session.state = "Ready"
  <2>1. PICK b : b = IF ~session.tail /\ UsesAudioClock(session)
                     THEN [p EXCEPT !.timer = TRUE] ELSE p
    OBVIOUS
  <2>2. /\ b \in States /\ b.state = p.state /\ b.intent = p.intent /\ b.input = p.input
        /\ b.seeking = p.seeking /\ b.ended = p.ended /\ b.requested = p.requested
        /\ b.device = p.device /\ b.active = p.active /\ b.fallback = p.fallback
        /\ b.reopen = p.reopen /\ b.recoverAt = p.recoverAt /\ b.operation = p.operation
        /\ b.discovered = p.discovered /\ b.drained = p.drained /\ b.queue = p.queue
        /\ b.woken = p.woken /\ b.shown = p.shown /\ b.audio = p.audio
        /\ b.heard = p.heard /\ Clocked(p, b) /\ b.interruption = p.interruption
    <3>1. CASE b = [p EXCEPT !.timer = TRUE]
      BY <1>3, <1>6, <3>1
    <3>2. CASE b = p
      BY <1>3, <3>2 DEF Clocked
    <3> QED BY <2>1, <3>1, <3>2
  <2>3. PICK z : z = [b EXCEPT !.anchored = TRUE, !.elapsed = 0]
    OBVIOUS
  <2>4. z \in States
    <3>1. Shape(b)
      BY <2>2, InParts
    <3>2. Shape(z)
      BY <2>3, <3>1, Zenon DEF Shape
    <3>3. Flags(z) /\ Times(z) /\ Kinds(z)
      BY <2>2, <2>3, Given DEF States, Flags, Times, Kinds
    <3> QED BY <3>2, <3>3, InParts
  <2>5. /\ z.state = b.state /\ z.intent = b.intent /\ z.input = b.input
        /\ z.seeking = b.seeking /\ z.ended = b.ended /\ z.requested = b.requested
        /\ z.device = b.device /\ z.active = b.active /\ z.fallback = b.fallback
        /\ z.reopen = b.reopen /\ z.recoverAt = b.recoverAt /\ z.operation = b.operation
        /\ z.discovered = b.discovered /\ z.drained = b.drained /\ z.queue = b.queue
        /\ z.woken = b.woken /\ z.shown = b.shown /\ z.audio = b.audio
    <3>1. b \in States
      BY <2>2
    <3> QED BY <2>3, <3>1 DEF States
  <2>6. /\ z.heard = b.heard /\ z.anchor = b.anchor /\ z.elapsed = 0
        /\ z.established = b.established /\ z.tail = b.tail
        /\ z.interruption = b.interruption
    <3>1. b \in States
      BY <2>2
    <3> QED BY <2>3, <3>1 DEF States
  <2>7. z.anchored
    <3>1. b \in States
      BY <2>2
    <3> QED BY <2>3, <3>1 DEF States
  <2>8. /\ z.state = "Ready" /\ z.intent = "Playing" /\ z.input = session.input
        /\ z.seeking = session.seeking /\ ~z.ended /\ z.requested = session.requested
        /\ z.device = session.device /\ z.active = session.active
        /\ z.fallback = session.fallback /\ z.reopen = session.reopen
        /\ z.operation = session.operation /\ z.discovered = session.discovered
        /\ z.drained = session.drained /\ z.queue = session.queue
        /\ z.shown = session.shown /\ z.audio = session.audio
    BY <1>4, <1>5, <1>8, <2>2, <2>5
  <2>9. /\ z.heard = session.heard /\ z.anchor = session.anchor /\ z.elapsed = 0
        /\ z.established = session.established /\ z.tail = session.tail
        /\ z.interruption = session.interruption
    BY <1>5, <2>2, <2>6 DEF Clocked
  <2>10. Software(z) /\ Showing(z) /\ Closed(z)
    BY <1>1, <1>8, <2>8 DEF Software, Showing, Closed, Open
  <2>11. Heard(z)
    BY <1>1, <2>8, <2>9 DEF Heard
  <2>12. PICK o : o = Observe(z)
    OBVIOUS
  <2>13. session' = IF o.state = "Error" THEN o ELSE [o EXCEPT !.timer = TRUE]
    BY <1>2, <1>8, <2>1, <2>3, <2>12 DEF Continue, SeekOpening
  <2>14. CASE Failed(z, o) /\ z.audio # "none"
    <3>1. session' = o
      BY <2>13, <2>14 DEF Failed
    <3>2. /\ Sound(session') /\ (~z.reopen => Paced(session'))
          /\ session'.state # "Ready"
      BY <2>4, <2>10, <2>14, <3>1, FailedIsSound DEF Failed
    <3>3. Paced(session) => ~z.reopen
      BY <1>8, <2>8 DEF Paced
    <3> QED BY <2>8, <2>14, <3>1, <3>2, <3>3, NotReady DEF Steps, Stays, Failed
  <2>15. CASE Heeded(z, o)
    <3>1. o \in States /\ Heard(o) /\ Listened(z, o) /\ o.anchored
      BY <2>7, <2>15 DEF Heeded, Listened
    <3>2. session' = [o EXCEPT !.timer = TRUE]
      BY <2>8, <2>13, <3>1 DEF Listened
    <3>3. PICK r : r = [o EXCEPT !.timer = TRUE]
      OBVIOUS
    <3>4. /\ r \in States /\ r.timer
          /\ r.state = o.state /\ r.intent = o.intent /\ r.input = o.input
          /\ r.seeking = o.seeking /\ r.ended = o.ended /\ r.requested = o.requested
          /\ r.device = o.device /\ r.active = o.active /\ r.fallback = o.fallback
          /\ r.reopen = o.reopen /\ r.operation = o.operation
          /\ r.discovered = o.discovered /\ r.drained = o.drained /\ r.queue = o.queue
          /\ r.shown = o.shown /\ r.audio = o.audio
          /\ r.heard = o.heard /\ Clocked(o, r) /\ r.interruption = o.interruption
      BY <1>6, <3>1, <3>3
    <3>5. Showing(r) /\ Closed(r)
      BY <2>10, <3>1, <3>4 DEF Showing, Closed, Open, Listened
    <3>6. Software(r)
      BY <2>10, <3>1, <3>4 DEF Software, Open, Listened
    <3>7. Heard(r)
      BY <3>1, <3>4 DEF Heard, Clocked
    <3>8. Paced(session) => Paced(r)
      BY <1>8, <2>8, <3>1, <3>4 DEF Paced, Open, Listened, Clocked
    <3>9. Forward(session, r)
      <4>1. session.established => Observed(z) = Observed(session)
        <5>1. CASE session.tail
          <6>1. session.anchor \in Int /\ session.anchor <= Duration
            <7>1. session.anchor \in Positions
              BY <1>1 DEF States
            <7> QED BY <7>1, Bounds
          <6>2. session.anchor + 0 = session.anchor
            BY <6>1
          <6>3. z.interruption = "None"
            BY <2>9, <2>11, <5>1 DEF Heard
          <6>4. Position(z) = session.anchor
            BY <2>4, <2>7, <2>8, <2>9, <5>1, <6>1, <6>2, <6>3, PositionOf
          <6>5. Position(session) = session.anchor
            BY <1>1, <5>1, PositionOf
          <6> QED BY <2>9, <5>1, <6>4, <6>5 DEF Observed
        <5>2. CASE ~session.tail
          BY <2>9, <5>2 DEF Observed
        <5> QED BY <5>1, <5>2
      <4>2. session.established => Observed(o) >= Observed(z)
        BY <2>8, <2>9, <2>15 DEF Heeded
      <4>3. Observed(r) = Observed(o)
        <5>1. Position(r) = Position(o)
          <6>1. /\ r.anchor = o.anchor /\ r.anchored = o.anchored /\ r.elapsed = o.elapsed
                /\ r.established = o.established /\ r.tail = o.tail
            BY <3>4 DEF Clocked
          <6> QED BY <3>1, <3>4, <6>1, SamePosition
        <5> QED BY <3>4, <5>1 DEF Observed, Clocked
      <4>4. /\ Observed(session) \in Int /\ Observed(z) \in Int /\ Observed(o) \in Int
            /\ Observed(r) \in Int
        BY <1>1, <2>4, <3>1, <3>4, ObservedIsInt
      <4> QED BY <4>1, <4>2, <4>3, <4>4 DEF Forward
    <3> QED BY <2>8, <3>1, <3>2, <3>3, <3>4, <3>5, <3>6, <3>7, <3>8, <3>9 DEF Sound, Steps, Stays, Listened
  <2>16. z.state # "Error"
    BY <2>8
  <2> QED BY <2>4, <2>11, <2>12, <2>14, <2>15, <2>16, Observes
<1> QED BY <1>7, <1>8

(* A pause or a stop keeps the position at which it came. *)
LEMMA HaltSteps ==
    ASSUME Sound(session), Open(session), session.intent # "Stopped",
           NEW i \in {"Paused", "Stopped"}, session' = Halt(session, i)
    PROVE  Steps(session, session') /\ Stays(session, session')
<1>1. /\ session \in States /\ Showing(session) /\ Closed(session) /\ Software(session)
      /\ Heard(session)
  BY DEF Sound
<1>2. PICK position \in Positions : position = Position(session)
  BY <1>1, PositionOf
<1>3. PICK h : h = [session EXCEPT !.intent = i, !.audioIntent = FALSE]
  OBVIOUS
<1>4. h \in States
  <2>1. Shape(session)
    BY <1>1, InParts
  <2>2. Shape(h)
    BY <1>3, <2>1, Zenon DEF Shape
  <2>3. Flags(h) /\ Times(h) /\ Kinds(h)
    BY <1>1, <1>3 DEF States, Flags, Times, Kinds
  <2> QED BY <2>2, <2>3, InParts
<1>5. /\ h.intent = i /\ h.state = session.state /\ h.input = session.input
      /\ h.seeking = session.seeking /\ h.ended = session.ended
      /\ h.requested = session.requested /\ h.device = session.device
      /\ h.active = session.active /\ h.fallback = session.fallback
      /\ h.reopen = session.reopen /\ h.recoverAt = session.recoverAt
      /\ h.operation = session.operation /\ h.discovered = session.discovered
      /\ h.drained = session.drained /\ h.queue = session.queue /\ h.woken = session.woken
  BY <1>1, <1>3 DEF States
<1>6. /\ h.shown = session.shown /\ h.audio = session.audio /\ h.heard = session.heard
      /\ h.anchor = session.anchor /\ h.anchored = session.anchored
      /\ h.elapsed = session.elapsed /\ h.established = session.established
      /\ h.tail = session.tail /\ h.interruption = session.interruption
  BY <1>1, <1>3 DEF States
<1>7. Showing(h) /\ Closed(h) /\ Software(h)
  BY <1>1, <1>5, <1>6 DEF Showing, Closed, Software, Open
<1>8. Heard(h)
  BY <1>1, <1>5, <1>6 DEF Heard
<1>9. PICK o : o = IF session.state = "Ready" THEN Observe(h) ELSE h
  OBVIOUS
<1>10. session' = IF o.state = "Error" THEN o
                  ELSE [AnchorAt(o, position) EXCEPT !.hold = "off", !.unavailable = "off",
                                                     !.timer = FALSE]
  BY <1>2, <1>3, <1>9 DEF Halt
<1>11. CASE Failed(h, o) /\ h.audio # "none"
  <2>1. session' = o
    BY <1>10, <1>11 DEF Failed
  <2>2. /\ Sound(session') /\ (~h.reopen => Paced(session')) /\ session'.state # "Ready"
    BY <1>4, <1>7, <1>11, <2>1, FailedIsSound DEF Failed
  <2>3. Paced(session) => ~h.reopen
    BY <1>5, <1>6, <1>11 DEF Paced
  <2> QED BY <1>5, <1>11, <2>1, <2>2, <2>3, NotReady DEF Steps, Stays, Failed
<1>12. CASE /\ Listened(h, o) /\ Heard(o)
            /\ (session.anchored => o.anchored)
            /\ (o.established /\ ~o.tail => position <= h.heard)
  <2>1. PICK a : a = AnchorAt(o, position)
    OBVIOUS
  <2>2. o \in States
    BY <1>12 DEF Listened
  <2>3. /\ Listened(o, a) /\ a.anchor = position /\ a.anchored /\ a.elapsed = 0
        /\ a.established = o.established /\ a.tail = o.tail
        /\ a.interruption = o.interruption /\ a \in States
    BY <2>1, <2>2, AnchorsAt DEF Listened
  <2>4. session' = [a EXCEPT !.hold = "off", !.unavailable = "off", !.timer = FALSE]
    <3>1. o.state # "Error"
      BY <1>5, <1>12 DEF Open, Listened
    <3> QED BY <1>10, <2>1, <3>1
  <2>5. session' \in States
    <3>1. Shape(a)
      BY <2>3, InParts
    <3>2. Shape(session')
      BY <2>4, <3>1, Zenon DEF Shape
    <3>3. Flags(session') /\ Times(session') /\ Kinds(session')
      BY <2>3, <2>4 DEF States, Flags, Times, Kinds, Graces
    <3> QED BY <3>2, <3>3, InParts
  <2>6. /\ session'.state = a.state /\ session'.intent = a.intent /\ session'.input = a.input
        /\ session'.seeking = a.seeking /\ session'.requested = a.requested
        /\ session'.device = a.device /\ session'.active = a.active
        /\ session'.fallback = a.fallback /\ session'.reopen = a.reopen
        /\ session'.recoverAt = a.recoverAt /\ session'.operation = a.operation
        /\ session'.discovered = a.discovered /\ session'.drained = a.drained
        /\ session'.queue = a.queue /\ session'.woken = a.woken /\ session'.shown = a.shown
    <3>1. a \in States
      BY <2>3
    <3> QED BY <2>4, <3>1 DEF States
  <2>7. /\ session'.audio = a.audio /\ session'.heard = a.heard
        /\ session'.anchor = a.anchor /\ session'.anchored = a.anchored
        /\ session'.established = a.established /\ session'.tail = a.tail
        /\ session'.interruption = a.interruption
    <3>1. a \in States
      BY <2>3
    <3> QED BY <2>4, <3>1 DEF States
  <2>8. /\ session'.state = session.state /\ session'.intent = i
        /\ session'.input = session.input /\ session'.seeking = session.seeking
        /\ session'.requested = session.requested /\ session'.device = session.device
        /\ session'.active = session.active /\ session'.fallback = session.fallback
        /\ session'.reopen = session.reopen /\ session'.recoverAt = session.recoverAt
        /\ session'.operation = session.operation /\ session'.discovered = session.discovered
        /\ session'.drained = session.drained /\ session'.queue = session.queue
        /\ session'.woken = session.woken /\ session'.shown = session.shown
        /\ session'.audio = session.audio /\ session'.heard = session.heard
    BY <1>5, <1>6, <1>12, <2>3, <2>6, <2>7 DEF Listened
  <2>9. /\ session'.anchor = position /\ session'.anchored
        /\ session'.established = o.established /\ session'.tail = o.tail
        /\ session'.interruption = o.interruption
        /\ o.audio = session.audio /\ o.heard = session.heard
        /\ o.requested = session.requested
    BY <1>5, <1>6, <1>12, <2>3, <2>7 DEF Listened
  <2>10. Showing(session') /\ Closed(session') /\ Software(session')
    BY <1>1, <2>8 DEF Showing, Closed, Software, Open
  <2>11. Heard(session')
    BY <1>6, <1>12, <2>8, <2>9 DEF Heard
  <2>12. Paced(session) => Paced(session')
    BY <2>8, <2>9 DEF Paced, Open, PlayRequested
  <2>13. Forward(session, session')
    <3>1. session.anchor \in Int /\ session.heard \in Int /\ position \in Int
      <4>1. session.anchor \in Positions /\ session.heard \in Positions
        BY <1>1 DEF States
      <4> QED BY <4>1, Bounds
    <3>2. session'.tail => Position(session') = position
      <4>1. session'.intent # "Playing"
        BY <2>8
      <4> QED BY <2>5, <2>9, <4>1, PositionOf
    <3>3. Observed(session') = position
      BY <2>9, <3>2 DEF Observed
    <3>4. session.established => position >= Observed(session)
      <4>1. CASE session.tail
        BY <1>2, <3>1, <4>1 DEF Observed
      <4>2. CASE ~session.tail /\ session.established
        <5>1. session.anchor <= session.heard /\ session.audio # "none"
          BY <1>1, <4>2 DEF Heard
        <5>2. position = session.heard \/ position = session.anchor
          BY <1>1, <1>2, <4>2, <5>1, PositionOf
        <5>3. position >= session.anchor
          BY <3>1, <5>1, <5>2
        <5> QED BY <4>2, <5>3 DEF Observed
      <4> QED BY <4>1, <4>2
    <3> QED BY <3>3, <3>4 DEF Forward
  <2> QED BY <2>5, <1>5, <2>8, <2>10, <2>11, <2>12, <2>13 DEF Sound, Steps, Stays
<1>13. CASE session.state = "Ready" /\ Heeded(h, o)
  <2>1. Listened(h, o) /\ Heard(o) /\ (session.anchored => o.anchored)
    BY <1>6, <1>13 DEF Heeded
  <2>2. ASSUME o.established, ~o.tail PROVE position <= h.heard
    <3>1. session.heard \in Int /\ session.heard <= session.heard
      BY <1>1, HeardIsInt
    <3>2. h.audio # "none" /\ h.audio # "failed" /\ h.audio # "drained"
      <4>1. h.audio = "none" => ~o.established
        BY <2>1, <2>2 DEF Heard, Listened
      <4> QED BY <1>13, <2>2, <4>1 DEF Heeded
    <3>3. ~session.tail
      BY <1>1, <1>6, <3>2 DEF Heard
    <3>4. CASE h.audio = "silent"
      <4>1. session.established /\ session.audio = "silent"
        BY <1>6, <1>13, <2>2, <3>4 DEF Heeded
      <4>2. position = session.anchor
        BY <1>1, <1>2, <3>3, <4>1, PositionOf
      <4> QED BY <1>1, <1>6, <3>3, <4>1, <4>2 DEF Heard
    <3>5. CASE h.audio \in {"live", "held"}
      <4>1. position = session.heard
        BY <1>1, <1>2, <1>6, <3>3, <3>5, PositionOf
      <4> QED BY <1>6, <3>1, <4>1
    <3> QED BY <1>4, <3>2, <3>4, <3>5 DEF States, Outputs
  <2> QED BY <1>12, <2>1, <2>2
<1>14. CASE session.state # "Ready"
  <2>1. o = h
    BY <1>9, <1>14
  <2>2. Listened(h, h)
    BY <1>4 DEF Listened
  <2>3. ASSUME h.established, ~h.tail PROVE position <= h.heard
    <3>1. session.heard \in Int /\ session.heard <= session.heard
      BY <1>1, HeardIsInt
    <3>2. session.established /\ ~session.tail /\ session.audio # "none"
            /\ session.anchor <= session.heard
      BY <1>1, <1>6, <2>3 DEF Heard
    <3>3. position = session.heard \/ position = session.anchor
      BY <1>1, <1>2, <3>2, PositionOf
    <3> QED BY <1>6, <3>1, <3>2, <3>3
  <2> QED BY <1>6, <1>8, <1>12, <2>1, <2>2, <2>3
<1> QED
  <2>1. CASE session.state = "Ready"
    <3>1. o = Observe(h) /\ h.state # "Error"
      BY <1>5, <1>9, <2>1
    <3> QED BY <1>4, <1>8, <1>11, <1>13, <2>1, <3>1, Observes
  <2> QED BY <1>14, <2>1

(* What the user asks of the playback. *)
LEMMA PlaySteps ==
    ASSUME Sound(session), Play
    PROVE  /\ Steps(session, session')
           /\ IF session.ended \/ Stopped(session) THEN session'.intent = "Playing"
              ELSE Stays(session, session')
<1>1. Open(session)
  BY DEF Play, SeekOpening, Open
<1>2. CASE session.ended \/ Stopped(session)
  BY <1>1, <1>2, ReplaySteps DEF Play
<1>3. CASE ~(session.ended \/ Stopped(session))
  BY <1>3, ContinueSteps DEF Play, Stopped
<1> QED BY <1>2, <1>3

(* A pause and a stop. *)
LEMMA PauseSteps ==
    ASSUME Sound(session), Pause \/ Stop
    PROVE  Steps(session, session') /\ Stays(session, session')
<1>1. CASE Pause
  <2>1. Open(session) /\ session.intent # "Stopped" /\ session' = Halt(session, "Paused")
    BY <1>1 DEF Pause, SeekOpening, Open, PlayRequested
  <2> QED BY <2>1, HaltSteps
<1>2. CASE Stop
  <2>1. Open(session) /\ session.intent # "Stopped" /\ session' = Halt(session, "Stopped")
    BY <1>2 DEF Stop, Stopped
  <2> QED BY <2>1, HaltSteps
<1> QED BY <1>1, <1>2

-------------------------------------------------------------------------------
(* The theorems.                                                                *)

(* A session starts sound and paced. *)
LEMMA InitHolds == Init => Sound(session) /\ Paced(session)
<1> SUFFICES ASSUME Init PROVE Sound(session) /\ Paced(session)
  OBVIOUS
<1>1. session \in States
  BY Bounds DEF Init, States, Graces, Devices, Outputs, NoFrame
<1>2. /\ session.state = "Empty" /\ session.shown = NoFrame /\ ~session.seeking
      /\ session.active = "unavailable" /\ ~session.reopen /\ ~session.fallback
      /\ session.audio = "none" /\ ~session.established /\ ~session.tail /\ ~session.drained
  BY DEF Init
<1> QED BY <1>1, <1>2 DEF Sound, Showing, Closed, Software, Heard, Paced, Open

(* The steps that neither ask for the medium anew nor bring another device. *)
Continues ==
    \/ Steers \/ DeviceLost \/ PresentationFails("other") \/ Decode \/ Audio
    \/ FramesAvailable \/ TimePasses \/ Present \/ MonitorPlayback

(* They leave a stopped session stopped, and take up no hardware. *)
LEMMA ContinuesSteps ==
    ASSUME Sound(session), Continues
    PROVE  Steps(session, session') /\ Stays(session, session')
<1>1. CASE Steers
  <2>1. CASE ~(session.ended \/ Stopped(session)) /\ Play
    BY <2>1, PlaySteps
  <2>2. CASE Pause \/ Stop
    BY <2>2, PauseSteps
  <2>3. CASE SelectStream
    BY <2>3, SelectStreamSteps
  <2>4. CASE \E position \in Positions : Seek(position)
    BY <2>4, SeekSteps
  <2> QED BY <1>1, <2>1, <2>2, <2>3, <2>4 DEF Steers
<1>2. CASE DeviceLost \/ PresentationFails("other")
  BY <1>2, DeviceLostSteps, PresentationFailsSteps
<1>3. CASE Decode
  BY <1>3, DiscoverSteps, DecodeFrameSteps, DecodeCompletesSteps, DecodeFailsSteps DEF Decode
<1>4. CASE Audio
  BY <1>4, AudioSteps
<1>5. CASE FramesAvailable
  BY <1>5, FramesAvailableSteps
<1>6. CASE TimePasses
  BY <1>6, TimePassesSteps
<1>7. CASE Present
  BY <1>7, PresentSteps
<1>8. CASE MonitorPlayback
  BY <1>8, MonitorSteps
<1> QED BY <1>1, <1>2, <1>3, <1>4, <1>5, <1>6, <1>7, <1>8 DEF Continues

(* Every step goes from a sound session to a sound one, forward, at the same    *)
(* pace; a stop ends only when the user asks for playback.                      *)
LEMMA NextSteps ==
    ASSUME Sound(session), Next
    PROVE  /\ Steps(session, session')
           /\ session.intent = "Stopped" /\ session'.intent # "Stopped"
                => User /\ session'.intent = "Playing"
<1>1. CASE Asks
  <2>1. CASE \E source \in Sources, position \in Positions : OpenMedia(source, position)
    BY <1>1, <2>1, OpenMediaSteps DEF User
  <2>2. CASE OpenFails \/ Cancel
    BY <1>1, <2>2, CloseSteps DEF Stays, User
  <2>3. CASE Retry
    BY <1>1, <2>3, RetrySteps DEF User
  <2>4. CASE (session.ended \/ Stopped(session)) /\ Play
    BY <1>1, <2>4, PlaySteps DEF User
  <2> QED BY <1>1, <2>1, <2>2, <2>3, <2>4 DEF Asks
<1>2. CASE Returns
  BY <1>2, DeviceReturnsSteps DEF Returns
<1>3. CASE PresentationFails("import")
  BY <1>3, PresentationFailsSteps DEF Stays
<1>4. CASE Continues
  BY <1>4, ContinuesSteps DEF Stays
<1> QED BY <1>1, <1>2, <1>3, <1>4 DEF Next, Continues

(* A refusal ends with the user's next request or another device; until then no *)
(* step takes up the hardware.                                                  *)
LEMMA RefusalSteps ==
    ASSUME Sound(session), FallbackSticks, Next
    PROVE  FallbackSticks'
<1>1. CASE (Asks \/ Returns) /\ refused' = FALSE
  BY <1>1 DEF FallbackSticks
<1>2. CASE PresentationFails("import")
  BY <1>2, PresentationFailsSteps DEF FallbackSticks
<1>3. CASE Continues /\ UNCHANGED refused
  BY <1>3, ContinuesSteps DEF Stays, FallbackSticks
<1> QED BY <1>1, <1>2, <1>3 DEF Next, Continues

(* The inductive invariant. *)
THEOREM SessionInvariance == Spec => []Sound(session)
<1>1. Init => Sound(session)
  BY InitHolds
<1>2. Sound(session) /\ [Next]_vars => Sound(session)'
  <2>1. Sound(session) /\ Next => Sound(session)'
    BY NextSteps DEF Steps
  <2>2. Sound(session) /\ UNCHANGED vars => Sound(session)'
    BY DEF vars
  <2> QED BY <2>1, <2>2
<1> QED BY <1>1, <1>2, PTL DEF Spec

(* A picture is on the screen of a ready session that does not seek: failures,  *)
(* restarts, recoveries and seeks clear the frame.  Every field has its type.   *)
THEOREM PictureIsCurrent == Spec => []ShownIsCurrent
<1> DEFINE Typed == refused \in BOOLEAN
<1>1. Init => Typed
  BY DEF Init
<1>2. Typed /\ [Next]_vars => Typed'
  BY DEF Next, vars
<1>3. Sound(session) /\ Typed => ShownIsCurrent
  BY DEF Sound, States, Showing, ShownIsCurrent, TypeOK
<1> HIDE DEF Typed
<1>4. Spec => []Typed
  BY <1>1, <1>2, PTL DEF Spec
<1> QED BY <1>3, <1>4, SessionInvariance, PTL

(* After the present device has failed to import a medium's frames the decoder  *)
(* stays in software until the user opens, retries or replays the medium or     *)
(* another device is made, whatever else happens in between.                    *)
THEOREM FallbackIsKept == Spec => []FallbackSticks
<1>1. Init => FallbackSticks
  BY DEF Init, FallbackSticks
<1>2. Sound(session) /\ FallbackSticks /\ [Next]_vars => FallbackSticks'
  <2>1. Sound(session) /\ FallbackSticks /\ Next => FallbackSticks'
    BY RefusalSteps
  <2>2. FallbackSticks /\ UNCHANGED vars => FallbackSticks'
    BY DEF FallbackSticks, vars
  <2> QED BY <2>1, <2>2
<1> QED BY <1>1, <1>2, SessionInvariance, PTL DEF Spec

(* Once the audio clock is established the position of a generation never goes  *)
(* back, whatever observes, halts, continues or ends it.                        *)
THEOREM ClockRunsForward == Spec => ClockNeverRewinds
<1>1. Sound(session) /\ [Next]_vars
        => [session.state = "Ready" /\ session'.state = "Ready" /\ session.established
              /\ session'.established
              => Observed(session') >= Observed(session)]_session
  BY NextSteps DEF Steps, Forward, vars
<1> QED BY <1>1, SessionInvariance, PTL DEF Spec, ClockNeverRewinds

(* Only the user ends a stop: the end of the medium, a failure, a recovery and a *)
(* change of track keep the stopped intent.                                      *)
THEOREM StopStays == Spec => StoppedStays
<1>1. Sound(session) /\ [Next]_vars
        => [Stopped(session) /\ session'.intent # "Stopped"
              => session'.intent = "Playing" /\ User]_session
  BY NextSteps DEF Stopped, vars
<1> QED BY <1>1, SessionInvariance, PTL DEF Spec, StoppedStays

-------------------------------------------------------------------------------
(* Without a change of track while the device is away: such a change restarts   *)
(* the decoder of a session that still waits for its device.                    *)

(* The pace is kept: an open session decodes, has decoded everything or waits   *)
(* for its device, and its timer runs while it plays.                           *)
THEOREM SessionKeepsPace ==
    ASSUME ~TracksInRecovery
    PROVE  Spec => [](Sound(session) /\ Paced(session))
<1> DEFINE I == Sound(session) /\ Paced(session)
<1>1. Init => I
  BY InitHolds
<1>2. I /\ [Next]_vars => I'
  <2>1. I /\ Next => I'
    BY NextSteps DEF Steps
  <2>2. I /\ UNCHANGED vars => I'
    BY DEF vars
  <2> QED BY <2>1, <2>2
<1>3. Spec => []I
  BY <1>1, <1>2, PTL DEF Spec
<1> QED BY <1>3

(* Recreation of the device holds the session in Opening until it can restart   *)
(* at the position that was asked for.                                          *)
THEOREM RecoveryHolds ==
    ASSUME ~TracksInRecovery
    PROVE  Spec => []RecoveryHoldsPosition
<1>1. Sound(session) /\ Paced(session) => RecoveryHoldsPosition
  BY DEF Paced, RecoveryHoldsPosition
<1>2. Spec => [](Sound(session) /\ Paced(session))
  BY SessionKeepsPace
<1> QED BY <1>1, <1>2, PTL

(* A monitor that changes nothing has nothing to select. *)
LEMMA MonitorRests ==
    ASSUME NEW s, Sound(s), Open(s), s.timer, Monitor(s) = s
    PROVE  Select(s) = s
<1>1. PICK o : o = Select(s)
  OBVIOUS
<1>2. o \in States
  BY <1>1, Selects DEF Moved, Sound
<1>3. CASE o.state = "Ready" /\ ~NeedsMonitoring(o)
  <2>1. s = [o EXCEPT !.timer = FALSE]
    BY <1>1, <1>3 DEF Monitor
  <2>2. ~s.timer
    BY <1>2, <2>1 DEF States
  <2> QED BY <2>2
<1>4. CASE ~(o.state = "Ready" /\ ~NeedsMonitoring(o))
  <2>1. Monitor(s) = o
    BY <1>1, <1>4 DEF Monitor
  <2> QED BY <1>1, <2>1
<1> QED BY <1>3, <1>4

(* A clock at rest in a playing session stands at the end. *)
LEMMA ClockAtRest ==
    ASSUME NEW b \in States, b.anchored, b.state = "Ready", b.intent = "Playing", ~b.ended,
           b.interruption = "None", b.audio = "none" \/ b.tail,
           b.audio = "none" => ~b.established,
           ~(b.anchor + b.elapsed < Duration)
    PROVE  Position(b) = Duration /\ Advancing(b)
<1>1. b.anchor \in Int /\ b.elapsed \in Int /\ Duration \in Int
  <2>1. b.anchor \in Positions /\ b.elapsed \in Positions
    BY DEF States
  <2> QED BY <2>1, Bounds
<1>2. Position(b) = IF b.anchor + b.elapsed <= Duration THEN b.anchor + b.elapsed ELSE Duration
  BY PositionOf
<1>3. Position(b) = Duration
  <2>1. PICK n \in Int : n = b.anchor + b.elapsed
    BY <1>1
  <2>2. ~(n < Duration) /\ Position(b) = IF n <= Duration THEN n ELSE Duration
    BY <1>2, <2>1
  <2> QED BY <1>1, <2>2
<1> QED BY <1>3 DEF Advancing, IsPlaying, PlayRequested

(* At the end of its clock a session that selects nothing has nothing left. *)
LEMMA EndOfClock ==
    ASSUME NEW b \in States, NEW s, s.queue = b.queue, ~s.ended, b.drained,
           b.audio = "none" \/ b.tail, Position(b) = Duration, Advancing(b),
           s = Schedule(b, Position(b), Advancing(b))
    PROVE  s.queue = {} /\ s.last = NoFrame
<1> DEFINE due == {f \in b.queue : f <= Duration}
<1>1. Duration \in Positions /\ TRUE \in BOOLEAN /\ Advancing(b) = TRUE
  BY Bounds
<1>2. PICK yes \in BOOLEAN : yes /\ yes = Advancing(b)
  BY <1>1
<1>3. s = Schedule(b, Duration, yes)
  BY <1>2
<1>4. PICK r : r = Schedule(b, Duration, yes)
  OBVIOUS
<1>5. Took(b, Duration, r) /\ (Over(b, Duration, yes, r) => r.ended)
  BY <1>1, <1>2, <1>4, Schedules
<1>6. r.queue = b.queue \ due /\ s = r
  BY <1>3, <1>4, <1>5 DEF Took
<1>7. due = {}
  BY <1>6
<1>8. b.queue = {}
  <2>1. \A f \in Frames : f <= Duration
    BY Bounds, SessionAssumption DEF Frames
  <2>2. b.queue \subseteq Frames
    BY DEF States
  <2>3. b.queue \subseteq due
    BY <2>1, <2>2
  <2> QED BY <1>7, <2>3
<1>9. ~Over(b, Duration, yes, r)
  BY <1>5, <1>6
<1>10. Duration >= Duration
  BY SessionAssumption
<1> QED BY <1>2, <1>6, <1>8, <1>9, <1>10 DEF Over

(* A playing session in which nothing moves has nothing left to show. *)
LEMMA ReadyRests ==
    ASSUME NEW s, Sound(s), Paced(s), Settled(s), s.state = "Ready", PlayRequested(s)
    PROVE  s.queue = {} /\ s.last = NoFrame
<1>1. /\ s \in States /\ Heard(s) /\ ~s.reopen /\ s.drained /\ s.anchored /\ s.timer
      /\ Open(s) /\ s.intent = "Playing" /\ ~s.ended
  BY DEF Sound, Paced, Settled, Open, PlayRequested
<1>2. Select(s) = s
  BY <1>1, MonitorRests DEF Settled
<1>3. Tick(s) = s
  BY DEF Settled
<1>4. /\ s.unavailable # "late" /\ ~(s.anchor + s.elapsed < Duration)
  <2>1. Ticked(s, s)
    BY <1>1, <1>3, Ticks
  <2>2. s.elapsed \in Int
    <3>1. s.elapsed \in Positions
      BY <1>1 DEF States
    <3> QED BY <3>1, Bounds
  <2>3. s.elapsed # s.elapsed + 1
    BY <2>2
  <2> QED BY <1>1, <2>1, <2>3 DEF Ticked
<1>5. PICK b : b = Observe(s)
  OBVIOUS
<1>6. CASE Failed(s, b)
  <2>1. s = b
    BY <1>2, <1>5, <1>6 DEF Select, Failed, Open
  <2> QED BY <1>6, <2>1 DEF Failed
<1>7. CASE Heeded(s, b)
  <2>1. /\ b \in States /\ Heard(b) /\ Listened(s, b) /\ b.anchored
    BY <1>1, <1>7 DEF Heeded, Listened
  <2>2. /\ b.state = "Ready" /\ b.intent = "Playing" /\ ~b.ended /\ b.drained
        /\ b.queue = s.queue /\ b.audio = s.audio
    BY <1>1, <2>1 DEF Listened
  <2>3. s = SelectReady(b)
    BY <1>2, <1>5, <2>2 DEF Select, Open, CanEnterReady
  <2>4. PICK t : /\ t = IF b.interruption = "Buffering" /\ b.audio = "none" THEN Resume(b) ELSE b
                 /\ s = Schedule(t, Position(b), Advancing(b))
    BY <2>2, <2>3 DEF SelectReady, WatchesStarvation, UsesAudioClock
  <2>5. CASE s.audio = "none"
    <3>1. b = s
      BY <1>7, <2>5 DEF Heeded
    <3>2. b.interruption = "None"
      <4>1. SUFFICES ASSUME b.interruption = "Buffering" PROVE FALSE
        BY <2>1 DEF States
      <4>2. t = Resume(b) /\ t \in States /\ t.interruption = "None"
        BY <2>1, <2>2, <2>4, <2>5, <4>1, Waits DEF Kept
      <4>3. Position(b) \in Positions /\ Advancing(b) \in BOOLEAN
        BY <2>1, PositionOf DEF Advancing
      <4>4. s.interruption = "None"
        BY <2>4, <4>2, <4>3, Schedules DEF Timed
      <4> QED BY <3>1, <4>1, <4>4
    <3>3. b.audio = "none" /\ ~b.established /\ t = b
      BY <2>1, <2>2, <2>4, <2>5, <3>2 DEF Heard
    <3>4. Position(b) = Duration /\ Advancing(b)
      BY <1>4, <2>1, <2>2, <3>1, <3>2, <3>3, ClockAtRest
    <3> QED BY <1>1, <2>1, <2>2, <2>4, <3>3, <3>4, EndOfClock
  <2>6. CASE s.audio = "silent" /\ s.established
    <3>1. b.unavailable = "late" /\ t = b
      BY <1>1, <1>7, <2>2, <2>4, <2>6 DEF Heeded, ActivePlayback
    <3>2. ~b.tail
      BY <2>1, <2>2, <2>6 DEF Heard
    <3>3. Position(b) \in Positions /\ Advancing(b) \in BOOLEAN
      BY <2>1, PositionOf DEF Advancing
    <3>4. s.unavailable = "late"
      BY <2>1, <2>2, <2>4, <2>6, <3>1, <3>2, <3>3, Schedules DEF Over, Timed
    <3> QED BY <1>4, <3>4
  <2>7. CASE s.audio = "drained"
    <3>1. b.tail /\ t = b /\ b.interruption = "None"
      BY <1>7, <2>1, <2>2, <2>4, <2>7 DEF Heeded, Heard
    <3>2. s.tail
      <4>1. Position(b) \in Positions /\ Advancing(b) \in BOOLEAN
        BY <2>1, PositionOf DEF Advancing
      <4>2. Kept(b, s)
        BY <2>1, <2>4, <3>1, <4>1, Schedules
      <4> QED BY <3>1, <4>2 DEF Kept
    <3>3. b.anchor = s.anchor /\ b.elapsed = s.elapsed
      BY <1>7, <3>2 DEF Heeded, Clocked
    <3>4. Position(b) = Duration /\ Advancing(b)
      <4>1. b.audio # "none" /\ ~(b.anchor + b.elapsed < Duration)
        BY <1>4, <2>2, <2>7, <3>3
      <4> QED BY <2>1, <2>2, <3>1, <4>1, ClockAtRest
    <3> QED BY <1>1, <2>1, <2>2, <2>4, <3>1, <3>4, EndOfClock
  <2>8. s.audio # "failed"
    BY <1>7 DEF Heeded
  <2> QED BY <2>5, <2>6, <2>7, <2>8 DEF Settled
<1> QED BY <1>1, <1>5, <1>6, <1>7, Observes

(* A seek in which nothing moves waits for the device. *)
LEMMA SeekRests ==
    ASSUME NEW s, Sound(s), Paced(s), Settled(s), SeekInProgress(s), PlayRequested(s)
    PROVE  s.reopen
<1> SUFFICES ASSUME ~s.reopen PROVE FALSE
  OBVIOUS
<1>1. /\ s \in States /\ Heard(s) /\ s.drained /\ s.discovered /\ s.queue # {} /\ s.timer
      /\ Open(s)
  BY DEF Sound, Paced, Settled, SeekInProgress
<1>2. CASE s.state = "Ready"
  BY <1>1, <1>2, ReadyRests
<1>3. CASE s.state = "Opening"
  <2>1. Select(s) = s
    BY <1>1, MonitorRests DEF Settled
  <2>2. PICK b : b = Observe(s)
    OBVIOUS
  <2>3. CASE Failed(s, b)
    <3>1. s = b
      BY <2>1, <2>2, <2>3 DEF Select, Failed, Open
    <3> QED BY <1>3, <2>3, <3>1 DEF Failed
  <2>4. CASE Heeded(s, b)
    <3>1. b \in States /\ Heard(b) /\ Listened(s, b)
      BY <2>4 DEF Heeded, Listened
    <3>2. CanEnterReady(b) /\ Open(b)
      BY <1>1, <1>3, <3>1 DEF CanEnterReady, Open, Listened
    <3>3. PICK e : e = EnterReady(b)
      OBVIOUS
    <3>4. s = SelectReady(e)
      BY <2>1, <2>2, <3>2, <3>3 DEF Select
    <3>5. Entered(b, e) /\ e \in States /\ e.state = "Ready"
      BY <3>1, <3>3, Enters DEF Entered
    <3>6. Heard(e)
      BY <3>1, <3>5 DEF Heard, Entered
    <3>7. s.state = "Ready"
      BY <3>4, <3>5, <3>6, SelectsReady DEF Selected, Kept
    <3> QED BY <1>3, <3>7
  <2> QED BY <1>1, <1>3, <2>2, <2>3, <2>4, Observes
<1> QED BY <1>1, <1>2, <1>3 DEF Open

(* A medium that has shown a picture and is left playing ends, or fails: no      *)
(* drained decoder, silent device or hand-over of the clock leaves it waiting.   *)
THEOREM PlaybackGoesOn ==
    ASSUME ~TracksInRecovery
    PROVE  Spec => []PlaybackNeverStalls
<1>1. Sound(session) /\ Paced(session) => PlaybackNeverStalls
  BY ReadyRests DEF PlaybackNeverStalls
<1>2. Spec => [](Sound(session) /\ Paced(session))
  BY SessionKeepsPace
<1> QED BY <1>1, <1>2, PTL

(* A seek with playback asked for completes, with a frame or at the end of the   *)
(* input, unless the device is away.                                             *)
THEOREM SeekGoesOn ==
    ASSUME ~TracksInRecovery
    PROVE  Spec => []SeekNeverStalls
<1>1. Sound(session) /\ Paced(session) => SeekNeverStalls
  BY SeekRests DEF SeekNeverStalls
<1>2. Spec => [](Sound(session) /\ Paced(session))
  BY SessionKeepsPace
<1> QED BY <1>1, <1>2, PTL

===============================================================================
