----------------------------- MODULE MCBoundaries -----------------------------
(* Where playback meets time, sound, the user, the desktop, the server and the disk: *)
(* frame timing, the audio's timeline, ledger and controlled sink, the subtitle, the *)
(* shell, the routed video sources, the inhibitor, the media controls, the display,  *)
(* the update of the image, the Jellyfin catalogue, the stored login, the settings   *)
(* and the log.  They share no state, so one runs at a time.                         *)
EXTENDS Integers, Sequences

CONSTANT unknown

VARIABLES
    part, browser,
    mem, disk, writable, failed, vault, jobs, client, asked, busy, logins, account, up,
    timeline, gate, queue, admitted, screen, decoded, shown,
    slots, totals, stores, device, lookup, spans, clock,
    active, toggles, state, calls, outbox, inbox, portal,
    image, lockedBy, latest, consent, player, launches,
    provider, preferred, requests, events, bounds,
    log, file, writer, thread, handler, owner,
    store, unsaved, choices, drawn, ghost,
    source, given, renderer, frame,
    session, controls, bus, desktop, methods,
    stream, converter,
    sink, producer, heard,
    shell,
    delegates, routed, picture, changes

Browser == INSTANCE JellyfinBrowser WITH
    Children <- [l |-> <<"s">>, s |-> <<"e">>, v |-> <<"m", "f">>, c |-> <<"m", "f">>],
    Movies <- {"m", "f"}, Libraries <- {"l", "v"}, Media <- {"l", "s", "c"},
    Ancestry <- [s |-> <<"root", "l">>, e |-> <<"root", "l", "s">>,
                 m |-> <<"root", "c">>, f |-> <<"root", "c">>],
    PageSize <- 1, MaxHistory <- 3, MaxMarks <- 1, SlowVault <- FALSE

Login == INSTANCE JellyfinSession WITH MaxLogins <- 3, UserOf <- <<"u1", "u2", "u1">>

Timing == INSTANCE PlaybackTiming WITH
    Unknown <- unknown, Timestamps <- {unknown, 0, 2, 3}, Durations <- {unknown, 1},
    Targets <- {unknown, 2}, Origins <- {unknown, 1}, Declared <- {unknown, 3},
    DefaultDuration <- 2, Capacity <- 2, MaxFrames <- 3

Ledger == INSTANCE AudioOutputLedger WITH
    SpanCapacity <- 2, MaxSpans <- 3,
    Stretches <- {[media |-> 2, hold |-> 0], [media |-> 1, hold |-> 1]}

Power == INSTANCE PlaybackPowerInhibitor WITH MaxRequests <- 3, MaxToggles <- 5, MayTimeOut <- FALSE

Updater == INSTANCE AppImageUpdater WITH Players <- {"a", "b"}, Releases <- 2, MaxLaunches <- 2

Display == INSTANCE WaylandDisplayState WITH
    Identities <- {1, 2, 3}, Invalid <- {2}, MaxChanges <- 2, MaxSurfaces <- 2, MaxRefreshes <- 1,
    MayReturn <- FALSE

Log == INSTANCE ApplicationLog WITH
    Threads <- {"t1", "t2"}, Sizes <- {1, 3}, QueueBytes <- 2, QueueRecords <- 2, FileBytes <- 3,
    MarkerBytes <- 1, FlushEvery <- 2, MaxRecords <- 3

Settings == INSTANCE PlayerSettings WITH
    disk <- store, memory <- unsaved, player <- choices,
    Fields <- {"sdr", "hdr", "color", "opacity"}, Together <- {"sdr", "hdr"},
    Subtitle <- {"color", "opacity"}, Raster <- {"color"}, Values <- {0, 1},
    DefaultOf <- [f \in {"sdr", "hdr", "color", "opacity"} |-> 0],
    Stored <- {[sdr |-> 1, hdr |-> 9, color |-> 1, opacity |-> 9],
               [sdr |-> 8, hdr |-> 1, color |-> 9, opacity |-> 1]},
    Presets <- {[color |-> 1, opacity |-> 0]}, MaxEdits <- 2, MaxStarts <- 2, Missing <- 8, Bad <- 9

Event(kind, start, end) == [kind |-> kind, start |-> start, end |-> end]

Subtitles == INSTANCE SubtitleLayer WITH
    asked <- frame, Times <- {0, 1},
    Scripts <- <<<<Event("bitmap", 0, 9), Event("clear", 1, 9)>>,
                 <<Event("text", 0, 1), Event("bitmap", 0, 1)>>>>,
    Shapes <- {[size |-> 2, rect |-> 1], [size |-> 2, rect |-> 2], [size |-> 9, rect |-> 1]},
    TooLarge <- {9}, MaxEvents <- 2, MaxLooks <- 1

Controls == INSTANCE MediaControls WITH
    calls <- methods, Duration <- 2, Offsets <- {-1, 1},
    MaxItems <- 2, MaxCalls <- 1, MaxLosses <- 1, MaxTicks <- 3

Audio == INSTANCE AudioTimeline WITH
    TimeBase <- 3, Length <- 2, Gaps <- {0, 15, -15}, Starts <- {-4, 0, 4}, Targets <- {-1000, 3},
    MaxDelay <- 1, MaxFrames <- 6

Shell == INSTANCE PlayerShell WITH Duration <- 1, Steps <- {-1, 1}, MaxFilms <- 2, MaxTaps <- 2

Sink == INSTANCE ControlledAudioSink WITH
    Capacity <- 3, Blocks <- {1, 2}, Gaps <- {0, 1}, Requests <- {1, 2},
    MaxGenerations <- 2, MaxFrames <- 4

Video == INSTANCE VideoSources WITH MaxChanges <- 5

(* What each part assumes of its constants. *)
ASSUME BoundariesAssumption ==
    /\ Browser!CatalogueAssumption /\ Shell!ShellAssumption /\ Log!LogAssumption
    /\ Login!SessionAssumption /\ Timing!TimingAssumption /\ Ledger!LedgerAssumption
    /\ Power!InhibitorAssumption /\ Updater!UpdaterAssumption /\ Display!DisplayAssumption
    /\ Settings!SettingsAssumption /\ Subtitles!LayerAssumption /\ Controls!ControlsAssumption
    /\ Audio!AudioTimelineAssumption /\ Sink!SinkAssumption
    /\ Video!SourcesAssumption

-------------------------------------------------------------------------------
Parts == {"browser", "shell", "log", "login", "timing", "ledger", "power", "updater", "display",
          "settings", "subtitles", "controls", "audio", "sink", "video"}

(* A part that rests does so in one of its initial states. *)
Init ==
    /\ part \in Parts
    /\ Browser!Init /\ Log!Init /\ Login!Init /\ Timing!Init /\ Ledger!Init
    /\ Power!Init /\ Updater!Init /\ Display!Init
    /\ Settings!Init /\ Subtitles!Init /\ Controls!Init /\ Audio!Init /\ Sink!Init
    /\ Shell!Init /\ Video!Init
    /\ part # "timing" => timeline.origin = unknown /\ gate.target = unknown /\ screen.declared = unknown
    /\ part # "updater" => latest = 1
    /\ part # "settings" => store.sdr = 1
    /\ part # "audio" => stream.at = 0 /\ converter.target = 3

login == <<mem, disk, writable, failed, vault, jobs, client, asked, busy, logins, account, up>>
timing == <<timeline, gate, queue, admitted, screen, decoded, shown>>
ledger == <<slots, totals, stores, device, lookup, spans, clock>>
power == <<active, toggles, state, calls, outbox, inbox, portal>>
updater == <<image, lockedBy, latest, consent, player, launches>>
display == <<provider, preferred, requests, events, bounds>>
logged == <<log, file, writer, thread, handler, owner>>
settings == <<store, unsaved, choices, drawn, ghost>>
subtitles == <<source, given, renderer, frame>>
mpris == <<session, controls, bus, desktop, methods>>
audio == <<stream, converter>>
controlled == <<sink, producer, heard>>
video == <<delegates, routed, picture, changes>>

Only(name) ==
    /\ part = name /\ UNCHANGED part
    /\ name # "browser" => UNCHANGED browser
    /\ name # "log" => UNCHANGED logged
    /\ name # "login" => UNCHANGED login
    /\ name # "timing" => UNCHANGED timing
    /\ name # "ledger" => UNCHANGED ledger
    /\ name # "power" => UNCHANGED power
    /\ name # "updater" => UNCHANGED updater
    /\ name # "display" => UNCHANGED display
    /\ name # "settings" => UNCHANGED settings
    /\ name # "subtitles" => UNCHANGED subtitles
    /\ name # "controls" => UNCHANGED mpris
    /\ name # "audio" => UNCHANGED audio
    /\ name # "sink" => UNCHANGED controlled
    /\ name # "shell" => UNCHANGED shell
    /\ name # "video" => UNCHANGED video

Next ==
    \/ Only("browser") /\ Browser!Next
    \/ Only("log") /\ Log!Next
    \/ Only("login") /\ Login!Next
    \/ Only("timing") /\ Timing!Next
    \/ Only("ledger") /\ Ledger!Next
    \/ Only("power") /\ Power!Next
    \/ Only("updater") /\ Updater!Next
    \/ Only("display") /\ Display!Next
    \/ Only("settings") /\ Settings!Next
    \/ Only("subtitles") /\ Subtitles!Next
    \/ Only("controls") /\ Controls!Next
    \/ Only("audio") /\ Audio!Next
    \/ Only("sink") /\ Sink!Next
    \/ Only("shell") /\ Shell!Next
    \/ Only("video") /\ Video!Next

Spec == Init /\ [][Next]_<<part, browser, logged, login, timing, ledger, power, updater, display,
                          settings, subtitles, mpris, audio, controlled, shell, video>>

-------------------------------------------------------------------------------
(* Each property is checked of the part that moves: a part that rests is in one of its  *)
(* initial states.                                                                     *)

(* JellyfinBrowser, PlayerShell and VideoSources: the list shown is the one the path   *)
(* leads to, the page, the seek asked for and the controls are the user's, and the     *)
(* picture is of the page's source.                                                    *)
ShowsWhereTheUserIs ==
    /\ part = "browser" => Browser!ShowsWhereTheUserIs
    /\ part = "shell" => Shell!ShellFollowsTheUser
    /\ part = "video" => Video!PictureIsNewest

(* ApplicationLog: the file is a truthful, bounded account. *)
LogTellsTheTruth == part = "log" => Log!LogTellsTheTruth

(* JellyfinSession and PlayerSettings: a start restores the last login's token or    *)
(* none, and the user's last choices.                                               *)
RestartRestores ==
    /\ part = "login" => Login!RestoresTheRightLogin
    /\ part = "settings" => Settings!ChoicesAreKept

(* PlaybackTiming, AudioTimeline, AudioOutputLedger, ControlledAudioSink and            *)
(* SubtitleLayer: where the medium is, by its frames, its samples and what was heard,  *)
(* and the subtitle of it.                                                             *)
MediaTimeIsExact ==
    /\ part = "timing" => Timing!TimelineIsFaithful
    /\ part = "audio" => Audio!SoundKeepsItsTime
    /\ part = "ledger" => Ledger!AudioClockIsExact
    /\ part = "sink" => Sink!ControlledSinkKeepsTime
    /\ part = "subtitles" => Subtitles!SubtitleIsCurrent

(* Sleep, the image file, the display and the media controls follow the player.       *)
DesktopFollowsThePlayer ==
    /\ part = "power" => Power!AwakeOnlyForPlayback
    /\ part = "updater" => Updater!UpdateIsAtomic
    /\ part = "display" => Display!PreferenceIsFollowed
    /\ part = "controls" => Controls!DesktopControlsThePlayer
===============================================================================
