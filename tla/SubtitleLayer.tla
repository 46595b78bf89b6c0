------------------------------ MODULE SubtitleLayer ------------------------------
(* The subtitle over the video: SubtitleSource, which the decoder's thread fills   *)
(* and the session resets, and SubtitleRenderer, which draws its snapshot on the   *)
(* presentation thread only when something it depends on has changed.  libass is   *)
(* external: it knows the events it was given and says whether its picture is      *)
(* another one than the last it returned.                                          *)
EXTENDS Integers, Sequences, FiniteSets, FiniteSetsExt

CONSTANTS
    Scripts,      \* per generation, the events its decoder gives: [kind, start, end]
    Times,        \* media times
    Shapes,       \* [size, rect]: the target and the video in it
    TooLarge,     \* sizes over maximumRasterDimension or maximumRasterBytes
    MaxEvents,    \* maximumRetainedEvents, maximumRetainedPayloadBytes
    MaxLooks      \* bound: raster revisions

LayerAssumption ==
    /\ \A g \in DOMAIN Scripts : \A i \in DOMAIN Scripts[g] :
          /\ Scripts[g][i].kind \in {"text", "bitmap", "clear"}
          /\ Scripts[g][i].start \in Nat /\ Scripts[g][i].end > Scripts[g][i].start
    /\ Times \subseteq Nat /\ MaxEvents \in Nat /\ MaxLooks \in Nat
    /\ \A s \in Shapes : s.size \in Nat \ {1} /\ s.rect \in Nat \ {0}

VARIABLES
    source,    \* SubtitleSource: generation, configured, events, failed, revision
    given,     \* per generation, what its decoder has given: -1 before the configuration
    renderer,  \* SubtitleRenderer's members; the picture in its image and in its texture
    asked      \* for the properties: what the last prepare was asked for, and the generation
               \* that failed

vars == <<source, given, renderer, asked>>

Generations == DOMAIN Scripts

Blank(size) == [size |-> size, rect |-> 0, bitmap |-> 0, text |-> {}, look |-> 0]
NoAss == [events |-> {}, exists |-> FALSE, returned |-> Blank(0)]

Init ==
    /\ source = [generation |-> 0, configured |-> FALSE, events |-> <<>>, failed |-> FALSE, revision |-> 0]
    /\ given = [g \in Generations |-> -1]
    /\ renderer = [generation |-> 0, failed |-> 0, revision |-> 0, processed |-> 0, ass |-> NoAss,
                   look |-> 0, bitmap |-> 0, time |-> -1, rect |-> 0, visible |-> FALSE,
                   size |-> 1, image |-> Blank(1), texture |-> Blank(1), pending |-> TRUE]
    /\ asked = [look |-> 1, picture |-> Blank(1), broken |-> 0]

-------------------------------------------------------------------------------
(* SubtitleSource.                                                                 *)

(* reset, by the session.                                                          *)
Reset ==
    /\ source.generation + 1 \in Generations
    /\ source' = [generation |-> source.generation + 1, configured |-> FALSE, events |-> <<>>,
                  failed |-> FALSE, revision |-> source.revision + 1]
    /\ UNCHANGED <<given, renderer, asked>>

(* A decoder begins with its generation current and may outlive it.                *)
Configure(g) ==
    /\ g <= source.generation /\ given[g] = -1
    /\ given' = [given EXCEPT ![g] = 0]
    /\ source' = IF g # source.generation THEN source
                 ELSE [source EXCEPT !.configured = TRUE, !.events = <<>>, !.failed = FALSE,
                                     !.revision = @ + 1]
    /\ UNCHANGED <<renderer, asked>>

Refused(g) == g # source.generation \/ ~source.configured \/ source.failed

AppendEvent(g) ==
    /\ given[g] \in 0..(Len(Scripts[g]) - 1)
    /\ given' = [given EXCEPT ![g] = @ + 1]
    /\ source' = IF Refused(g) THEN source
                 ELSE IF Len(source.events) >= MaxEvents
                      THEN [source EXCEPT !.failed = TRUE, !.revision = @ + 1]
                 ELSE [source EXCEPT !.events = @ \o <<<<g, given[g] + 1>>>>, !.revision = @ + 1]
    /\ UNCHANGED <<renderer, asked>>

(* fail, by the decoder.                                                           *)
Fail(g) ==
    /\ given[g] \in 0..(Len(Scripts[g]) - 1)
    /\ given' = [given EXCEPT ![g] = Len(Scripts[g])]
    /\ source' = IF g # source.generation \/ source.failed THEN source
                 ELSE [source EXCEPT !.failed = TRUE, !.revision = @ + 1]
    /\ UNCHANGED <<renderer, asked>>

(* SubtitleStateSnapshot::isEnabled.                                               *)
IsEnabled == source.generation # 0 /\ source.configured /\ ~source.failed

Event(id) == Scripts[id[1]][id[2]]

-------------------------------------------------------------------------------
(* What is shown at a time, of a sequence of events: the newest bitmap that has      *)
(* begun, unless it ended or was cleared; every text that lasts.                     *)

Begun(events, time) ==
    LET late == {i \in DOMAIN events : Event(events[i]).start > time}
    IN IF late = {} THEN Len(events) ELSE Min(late) - 1

BitmapAt(events, time) ==
    LET painted == {i \in 1..Begun(events, time) : Event(events[i]).kind # "text"}
    IN IF painted = {} THEN 0
       ELSE LET newest == Event(events[Max(painted)])
            IN IF newest.kind = "clear" \/ time >= newest.end THEN 0 ELSE Max(painted)

TextAt(events, time) ==
    {i \in events : Event(source.events[i]).start <= time /\ time < Event(source.events[i]).end}

Picture(size, rect, look, bitmap, text) ==
    IF bitmap = 0 /\ text = {} THEN Blank(size)
    ELSE [size |-> size, rect |-> rect, bitmap |-> bitmap, text |-> text, look |-> look]

Texts == {i \in DOMAIN source.events : Event(source.events[i]).kind = "text"}

-------------------------------------------------------------------------------
(* SubtitleRenderer.                                                               *)

(* ensureTexture, when it succeeds: the new texture holds nothing yet.             *)
WithTexture(r, size) ==
    IF r.size = size THEN r
    ELSE [r EXCEPT !.size = size, !.image = Blank(size), !.texture = Blank(0), !.pending = TRUE]

ClearImage(r) == [r EXCEPT !.image = Blank(r.size), !.pending = TRUE]

(* fail: nothing is drawn until the next generation.                               *)
Failed(r) ==
    ClearImage([r EXCEPT !.failed = r.generation, !.ass = NoAss, !.look = 0, !.revision = 0,
                         !.processed = 0, !.bitmap = 0, !.time = -1, !.rect = 0, !.visible = FALSE])

(* prepare, with nothing to show.                                                  *)
Hidden(refused) ==
    LET r == [renderer EXCEPT !.visible = FALSE, !.generation = source.generation, !.ass = NoAss,
                              !.look = 0, !.processed = 0, !.bitmap = 0]
    IN IF ~renderer.visible /\ renderer.size = 1 THEN r
       ELSE IF refused /\ r.size # 1 THEN Failed(r)
       ELSE ClearImage(WithTexture(r, 1))

(* prepare: a new generation starts afresh.                                        *)
Fresh ==
    IF renderer.generation = source.generation THEN renderer
    ELSE [renderer EXCEPT !.generation = source.generation, !.failed = 0, !.revision = 0,
                          !.processed = 0, !.bitmap = 0, !.time = -1, !.ass = NoAss, !.look = 0]

(* processNewEvents, ensureAssBundle: libass gets the texts it has not had.        *)
Processed(r) ==
    LET texts == {i \in Texts : i > r.processed}
    IN [r EXCEPT !.processed = Len(source.events),
                 !.ass = IF texts = {} THEN @
                         ELSE [@ EXCEPT !.events = @ \cup texts, !.exists = TRUE]]

BugForced(r, shape, look) == r.size # shape.size \/ r.rect # shape.rect
Forced(r, shape, look) == r.size # shape.size \/ r.rect # shape.rect \/ r.look # look

(* rasterize: the image is left alone when nothing in it changed.                  *)
Rasterized(r, time, shape, look, forced) ==
    LET bitmap == BitmapAt(source.events, time)
        text == TextAt(r.ass.events, time)
        returned == Picture(0, shape.rect, look, 0, text)
        rendered == [r EXCEPT !.ass.returned = IF r.ass.exists THEN returned ELSE @]
    IN IF ~forced /\ bitmap = r.bitmap /\ rendered.ass.returned = r.ass.returned THEN rendered
       ELSE [rendered EXCEPT !.image = Picture(shape.size, shape.rect, look, bitmap, text),
                             !.bitmap = bitmap, !.pending = TRUE,
                             !.visible = bitmap # 0 \/ text # {}]

(* prepare, with something to show; refused when an allocation fails.              *)
Shown(time, shape, look, refused) ==
    LET r == Fresh
        ready == WithTexture(Processed(r), shape.size)
        forced == Forced(r, shape, look)
    IN IF r.failed = r.generation THEN r
       ELSE IF \/ shape.size \in TooLarge \/ r.processed > Len(source.events)
               \/ (refused /\ (r.size # shape.size \/ Processed(r).ass.exists # r.ass.exists))
            THEN Failed(r)
       ELSE IF ~forced /\ r.revision = source.revision /\ r.time = time THEN ready
       ELSE [Rasterized(ready, time, shape, look, forced) EXCEPT
                !.revision = source.revision, !.time = time, !.rect = shape.rect, !.look = look]

(* A frame with nothing to show: no subtitle is enabled, or no video is.            *)
PrepareHidden ==
    \E refused \in BOOLEAN :
       /\ renderer' = Hidden(refused)
       /\ asked' = [asked EXCEPT !.picture = Blank(renderer'.size),
                                 !.broken = IF refused THEN source.generation ELSE @]
       /\ UNCHANGED <<source, given>>

(* What should be seen: nothing of the generation that failed.                      *)
Wanted(time, shape, look) ==
    IF renderer'.failed = source.generation THEN Blank(renderer'.size)
    ELSE Picture(shape.size, shape.rect, look, BitmapAt(source.events, time), TextAt(Texts, time))

(* A frame: the snapshot is taken under the source's lock.                          *)
PrepareShown ==
    /\ IsEnabled
    /\ \E refused \in BOOLEAN, time \in Times, shape \in Shapes,
          look \in {n \in {asked.look, asked.look + 1} : n <= MaxLooks} :
       /\ renderer' = Shown(time, shape, look, refused)
       /\ asked' = [look |-> look, picture |-> Wanted(time, shape, look),
                    broken |-> IF refused \/ shape.size \in TooLarge
                               THEN source.generation ELSE asked.broken]
    /\ UNCHANGED <<source, given>>

Prepare == PrepareHidden \/ PrepareShown

(* uploadIfNeeded; a frame given up before it leaves the upload to a later one.     *)
Upload ==
    /\ renderer.pending
    /\ renderer' = [renderer EXCEPT !.texture = renderer.image, !.pending = FALSE]
    /\ UNCHANGED <<source, given, asked>>

Next == Reset \/ Prepare \/ Upload \/ \E g \in Generations : Configure(g) \/ AppendEvent(g) \/ Fail(g)

-------------------------------------------------------------------------------
(* The picture is the one the snapshot, the look and the shape of the last frame     *)
(* call for, whatever was cached.                                                   *)
PictureIsCurrent == renderer.image = asked.picture

(* What the compositor reads is that picture, once it is uploaded.                   *)
TextureIsThePicture == ~renderer.pending => renderer.texture = renderer.image

(* Only a failure of its own silences a generation.                                  *)
OnlyFailureHides == renderer.failed # 0 => renderer.failed <= asked.broken

(* The events are those of the current generation, in order.                         *)
EventsAreOfTheGeneration ==
    \A i \in DOMAIN source.events : source.events[i] = <<source.generation, i>>

SubtitleIsCurrent ==
    PictureIsCurrent /\ TextureIsThePicture /\ OnlyFailureHides /\ EventsAreOfTheGeneration
===============================================================================
