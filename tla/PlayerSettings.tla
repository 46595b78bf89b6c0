----------------------------- MODULE PlayerSettings -----------------------------
(* What the user chose and what a restart brings back: ApplicationSettings, which *)
(* reads and writes the store, the objects that hold the values while the player  *)
(* runs, and SubtitleSettings, which also numbers the looks a subtitle may have   *)
(* been drawn with.  A field is one key of the store; a value that cannot be      *)
(* parsed is Bad.                                                                 *)
EXTENDS Integers, FiniteSets

CONSTANTS
    Fields,      \* the keys of the store
    Together,    \* fields that are written together (the tone mapping)
    Subtitle,    \* fields of the subtitles' appearance, one group of the store
    Raster,      \* those of them a drawn subtitle depends on
    Values,      \* what a field may be
    DefaultOf,   \* Fields -> Values
    Stored,      \* stores the first start may find
    Presets,     \* appearances offered at once: functions on subsets of Subtitle
    MaxEdits,    \* bound: edits in one run of the player
    MaxStarts,   \* bound: runs of the player
    Missing, Bad

SettingsAssumption ==
    /\ Together \subseteq Fields \ Subtitle /\ Raster \subseteq Subtitle /\ Subtitle \subseteq Fields
    /\ DefaultOf \in [Fields -> Values] /\ {Missing, Bad} \cap Values = {}
    /\ Stored \subseteq [Fields -> Values \cup {Missing, Bad}]
    /\ MaxEdits \in Nat /\ MaxStarts \in Nat

VARIABLES
    disk,    \* the store
    memory,  \* QSettings: the store with what is not saved yet
    player,  \* the values in use, the subtitles' raster revision, edits left; or not running
    drawn,   \* the revision and the look of the subtitle drawn last
    ghost    \* for the properties: the choices made, those of them saved, the first store,
             \* what was edited, runs left

vars == <<disk, memory, player, drawn, ghost>>

NotRunning == [running |-> FALSE]
Nothing == [revision |-> 0]

(* parseVolume, parseBoolean, parseNumber, parseRgb, parseChoice.                  *)
Parsed(store) == [f \in Fields |-> IF store[f] \in Values THEN store[f] ELSE DefaultOf[f]]

Look(values) == [f \in Raster |-> values[f]]

Init ==
    /\ disk \in Stored /\ memory = disk
    /\ player = NotRunning /\ drawn = Nothing
    /\ ghost = [chosen |-> Parsed(disk), saved |-> Parsed(disk), first |-> disk, edited |-> {},
                starts |-> MaxStarts]

-------------------------------------------------------------------------------
(* load: a store that cannot be read leaves every default.                         *)
Load(healthy) == IF healthy THEN Parsed(disk) ELSE DefaultOf

(* The player starts.  The values are restored before the signals that would       *)
(* persist them are connected; SubtitleSettings::restore persists nothing.         *)
Start ==
    /\ ~player.running /\ ghost.starts > 0
    /\ \E healthy \in BOOLEAN :
          LET values == Load(healthy) IN
          /\ player' = [running |-> TRUE, values |-> values, healthy |-> healthy,
                        revision |-> IF Look(values) = Look(DefaultOf) THEN 1 ELSE 2,
                        edited |-> {}, edits |-> MaxEdits]
          /\ memory' = disk
    /\ drawn' = Nothing
    /\ ghost' = [ghost EXCEPT !.starts = @ - 1]
    /\ UNCHANGED disk

(* It ends, by itself or not: what is not saved is lost.                            *)
End ==
    /\ player.running
    /\ player' = NotRunning /\ memory' = disk /\ drawn' = Nothing
    /\ ghost' = [ghost EXCEPT !.chosen = ghost.saved]
    /\ UNCHANGED disk

(* QSettings saves, at the end of an event loop turn; a refused save is kept for    *)
(* the next one.                                                                    *)
Save ==
    /\ player.running /\ memory # disk
    /\ disk' = memory /\ ghost' = [ghost EXCEPT !.saved = ghost.chosen]
    /\ UNCHANGED <<memory, player, drawn>>

-------------------------------------------------------------------------------
(* The fields written with a set of edited ones.                                    *)
Dirty(before, after) ==
    LET changed == {f \in Fields : before[f] # after[f]}
    IN changed \cup (IF changed \cap Together # {} THEN Together ELSE {})

(* SubtitleSettings::changed and apply: a new look has a new number.                 *)
Revision(before, after) == IF Look(before) # Look(after) THEN player.revision + 1 ELSE player.revision

Apply(values, stored, dirty) ==
    /\ player.running /\ player.edits > 0
    /\ player' = [player EXCEPT !.values = values, !.revision = Revision(player.values, values),
                                !.edited = @ \cup dirty, !.edits = @ - 1]
    /\ memory' = stored
    /\ ghost' = [ghost EXCEPT !.edited = @ \cup dirty,
                              !.chosen = [f \in Fields |-> IF f \in dirty THEN values[f] ELSE @[f]]]
    /\ UNCHANGED <<disk, drawn>>

(* ApplicationSettings' setters and setSubtitleAppearance: only dirty keys.          *)
BugWritten(values, dirty) ==
    [f \in Fields |-> IF f \in dirty \/ (dirty \subseteq Subtitle /\ f \in Subtitle) THEN values[f] ELSE memory[f]]
Written(values, dirty) == [f \in Fields |-> IF f \in dirty THEN values[f] ELSE memory[f]]

Change(values) ==
    LET dirty == Dirty(player.values, values)
    IN values # player.values /\ Apply(values, Written(values, dirty), dirty)

Edit == player.running /\ \E f \in Fields, v \in Values : Change([player.values EXCEPT ![f] = v])

(* applyAsAuthored, applyHighContrast and applyLargeText: one change, one write.     *)
Preset ==
    /\ player.running
    /\ \E p \in Presets : Change([f \in Fields |-> IF f \in DOMAIN p THEN p[f] ELSE player.values[f]])

(* restoreDefaults removes the group, also when every value is a default already.     *)
RestoreDefaults ==
    /\ player.running
    /\ Apply([f \in Fields |-> IF f \in Subtitle THEN DefaultOf[f] ELSE player.values[f]],
             [f \in Fields |-> IF f \in Subtitle THEN Missing ELSE memory[f]], Subtitle)

(* The renderer draws with the snapshot, unless it has drawn that revision.          *)
Draw ==
    /\ player.running /\ drawn.revision # player.revision
    /\ drawn' = [revision |-> player.revision, look |-> Look(player.values)]
    /\ UNCHANGED <<disk, memory, player, ghost>>

Next == Start \/ End \/ Save \/ Edit \/ Preset \/ RestoreDefaults \/ Draw

-------------------------------------------------------------------------------
(* A start that can read the store brings back the user's last choices; one that      *)
(* cannot does not harm them: after it only what was edited since is different.        *)
ChoicesSurvive ==
    /\ Parsed(disk) = ghost.saved
    /\ player.running =>
         \A f \in Fields : player.healthy \/ f \in player.edited => player.values[f] = ghost.chosen[f]

(* A stored value the player cannot read is not overwritten until the user edits it.   *)
UntouchedIsKept == \A f \in Fields \ ghost.edited : memory[f] = ghost.first[f] /\ disk[f] = ghost.first[f]

(* A subtitle drawn for the current revision has the current look.                     *)
RevisionIsTheLook ==
    player.running /\ drawn.revision = player.revision => drawn.look = Look(player.values)

ChoicesAreKept == ChoicesSurvive /\ UntouchedIsKept /\ RevisionIsTheLook
===============================================================================
