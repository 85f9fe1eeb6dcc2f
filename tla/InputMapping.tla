----------------------------- MODULE InputMapping -----------------------------
(***************************************************************************)
(* InputMapping.cpp: the active profile, the profile files it is saved to  *)
(* and loaded from, the three built-in profiles and the translation of a   *)
(* host input through the first entry that names its source.  Axis values, *)
(* deadzones and scales are integers, 1.0 being ImOne; a file is the keys  *)
(* it gives per section.  A file another program garbled is left out.      *)
(***************************************************************************)
EXTENDS Integers, FiniteSets, Sequences, SequencesExt, Sublists

CONSTANTS ImNames,     \* names of profile files
          ImCustom,    \* profiles a frontend may set
          ImOne,       \* the integer that stands for 1.0
          ImSmall      \* the integer that stands for 0.05, the larger deadzone in use

VARIABLES imInitialised,
          imActive,   \* activeProfile
          imFiles,    \* the files of profileDir, by name
          imSaved,    \* history: the entries that were last saved under a name
          imLoaded    \* history: the name the active profile was loaded from, if it was

imVars == <<imInitialised, imActive, imFiles, imSaved, imLoaded>>

NotLoaded == "none"

Ps5Button == <<"Triangle", "Circle", "Cross", "Square", "L1", "R1", "L2", "R2", "Create", "Options", "PS", "TouchPad",
               "L3", "R3", "DPadUp", "DPadDown", "DPadLeft", "DPadRight", "GyroX", "GyroY", "GyroZ">>

HostInputType == {"Keyboard", "Mouse", "Gamepad", "Touch"}

\* What an entry is: a button, a source and how its value is shaped.
IsMapping(e) ==
    /\ e = [target |-> e.target, type |-> e.type, id |-> e.id, scale |-> e.scale, deadzone |-> e.deadzone,
            inverted |-> e.inverted]
    /\ e.target \in ToSet(Ps5Button) /\ e.type \in HostInputType
    /\ e.scale \in Nat /\ e.deadzone \in Nat /\ e.inverted \in BOOLEAN

IsProfile(p) ==
    /\ p = [name |-> p.name, entries |-> p.entries]
    /\ p.entries = [i \in 1 .. Len(p.entries) |-> p.entries[i]] /\ Len(p.entries) \in Nat
    /\ \A i \in 1 .. Len(p.entries) : IsMapping(p.entries[i])

ASSUME InputMappingAssumption ==
    /\ ImOne \in Nat /\ ImSmall \in 1 .. ImOne
    /\ \A p \in ImCustom : IsProfile(p)

Entry(target, type, id, deadzone) ==
    [target |-> target, type |-> type, id |-> id, scale |-> ImOne, deadzone |-> deadzone, inverted |-> FALSE]

Table(type, rows) == [i \in DOMAIN rows |-> Entry(rows[i][1], type, rows[i][2], rows[i][3])]

\* A key is named by the letter or word on it.
DefaultKeyboardProfile == [name |-> "Keyboard", entries |-> Table("Keyboard",
    << <<"Triangle", "J", 0>>, <<"Circle", "K", 0>>, <<"Cross", "L", 0>>, <<"Square", "I", 0>>,
       <<"DPadUp", "W", 0>>, <<"DPadDown", "S", 0>>, <<"DPadLeft", "A", 0>>, <<"DPadRight", "D", 0>>,
       <<"DPadUp", "Up", 0>>, <<"DPadDown", "Down", 0>>, <<"DPadLeft", "Left", 0>>, <<"DPadRight", "Right", 0>>,
       <<"L1", "Q", 0>>, <<"R1", "E", 0>>, <<"L2", "1", 0>>, <<"R2", "3", 0>>, <<"L3", "F", 0>>, <<"R3", "V", 0>>,
       <<"Options", "Enter", 0>>, <<"Create", "Escape", 0>>, <<"TouchPad", "Tab", 0>>, <<"PS", "F1", 0>> >>)]

DefaultXboxProfile == [name |-> "Xbox", entries |-> Table("Gamepad",
    << <<"Cross", 0, 0>>, <<"Circle", 1, 0>>, <<"Square", 2, 0>>, <<"Triangle", 3, 0>>,
       <<"L1", 4, 0>>, <<"R1", 5, 0>>, <<"L2", 4, ImSmall>>, <<"R2", 5, ImSmall>>,
       <<"Create", 6, 0>>, <<"Options", 7, 0>>, <<"L3", 8, 0>>, <<"R3", 9, 0>>,
       <<"DPadUp", 10, 0>>, <<"DPadDown", 11, 0>>, <<"DPadLeft", 12, 0>>, <<"DPadRight", 13, 0>>,
       <<"TouchPad", 6, 0>> >>)]

\* The gyro's deadzone, 0.02, is rounded up to one unit.
DefaultDualSenseProfile == [name |-> "DualSense", entries |->
    Table("Gamepad", [i \in 1 .. 18 |-> <<Ps5Button[i], i - 1, IF Ps5Button[i] \in {"L2", "R2"} THEN ImSmall ELSE 0>>]
                     \o << <<"GyroX", 17, 1>>, <<"GyroY", 18, 1>>, <<"GyroZ", 19, 1>> >>)]

BuiltIn  == {DefaultKeyboardProfile, DefaultXboxProfile, DefaultDualSenseProfile}
Unset    == [name |-> "", entries |-> <<>>]
Profiles == BuiltIn \cup ImCustom \cup {Unset}
Bodies   == {p.entries : p \in Profiles}

ImTypeOK ==
    /\ imInitialised \in BOOLEAN
    /\ imActive.name \in {p.name : p \in Profiles} \cup ImNames \cup {"Default", "Unknown"}
    /\ imActive.entries \in Bodies
    /\ DOMAIN imFiles \subseteq ImNames /\ DOMAIN imSaved = DOMAIN imFiles
    /\ imLoaded \in ImNames \cup {NotLoaded}

ImInit ==
    /\ imInitialised = FALSE
    /\ imActive = [name |-> "Default", entries |-> <<>>]
    /\ imFiles = <<>> /\ imSaved = <<>>
    /\ imLoaded = NotLoaded

\* A [profile] section and a [mapping.i] section for every entry.
WriteProfileIni(p) ==
    << [section |-> "profile", kv |-> [name |-> p.name]] >>
      \o [i \in DOMAIN p.entries |-> [section |-> "mapping", kv |-> p.entries[i]]]

GetKv(sec, key, default) == IF key \in DOMAIN sec.kv THEN sec.kv[key] ELSE default

\* A name that is no button's reads as the sentinel, one that is no source's as Keyboard.
Ps5ButtonFromName(name)     == IF name \in ToSet(Ps5Button) THEN name ELSE "Count"
HostInputTypeFromName(name) == IF name \in HostInputType THEN name ELSE "Keyboard"

\* ReadProfileIni: every key has a default; an entry whose target is not a button is dropped.
ReadEntry(sec) ==
    [target |-> Ps5ButtonFromName(GetKv(sec, "target", "")),
     type |-> HostInputTypeFromName(GetKv(sec, "type", "Keyboard")), id |-> GetKv(sec, "id", 0),
     scale |-> GetKv(sec, "scale", ImOne), deadzone |-> GetKv(sec, "deadzone", 0),
     inverted |-> GetKv(sec, "inverted", FALSE)]

ReadProfileIni(file) ==
    LET Sections(name) == Among(file, {s \in ToSet(file) : s.section = name})
        read  == [i \in DOMAIN Sections("mapping") |-> ReadEntry(Sections("mapping")[i])]
        names == Sections("profile")
    IN  [name |-> IF names = <<>> THEN imActive.name ELSE GetKv(names[Len(names)], "name", "Unknown"),
         entries |-> Among(read, {e \in ToSet(read) : e.target # "Count"})]

\* The index of the first entry with the source, 0 if there is none.
FirstMatch(entries, type, id) ==
    LET hits == {i \in DOMAIN entries : entries[i].type = type /\ entries[i].id = id}
    IN  IF hits = {} THEN 0 ELSE CHOOSE i \in hits : \A j \in hits : i <= j

TranslateButton(type, id) ==
    LET i == IF imInitialised THEN FirstMatch(imActive.entries, type, id) ELSE 0
    IN  IF i = 0 THEN "none" ELSE imActive.entries[i].target

Magnitude(x) == IF x < 0 THEN -x ELSE x

\* The value scaled and, if the entry says so, inverted: its magnitude and its sign.
Scaled(e, value)   == (Magnitude(value) * e.scale) \div ImOne
Sign(e, value)     == IF (value < 0) = e.inverted THEN 1 ELSE -1
Silenced(e, value) == Magnitude(value) < e.deadzone \/ Scaled(e, value) < e.deadzone

\* Deadzone, inversion, scale, deadzone again, clamp; an unmapped axis passes through.
TranslateAxis(type, id, value) ==
    LET i == IF imInitialised THEN FirstMatch(imActive.entries, type, id) ELSE 0
        e == imActive.entries[i]
    IN  IF i = 0 THEN value
        ELSE IF Silenced(e, value) THEN 0
        ELSE Sign(e, value) * (IF Scaled(e, value) > ImOne THEN ImOne ELSE Scaled(e, value))
-----------------------------------------------------------------------------
\* Init starts over from the keyboard profile each time it is called.
InitMapping ==
    /\ imInitialised' = TRUE
    /\ imActive' = DefaultKeyboardProfile
    /\ imLoaded' = NotLoaded
    /\ UNCHANGED <<imFiles, imSaved>>

ShutdownMapping ==
    /\ imInitialised' = FALSE
    /\ imActive' = Unset
    /\ imLoaded' = NotLoaded
    /\ UNCHANGED <<imFiles, imSaved>>

LoadProfile(n) ==
    /\ imInitialised /\ n \in DOMAIN imFiles
    /\ imActive' = ReadProfileIni(imFiles[n])
    /\ imLoaded' = n
    /\ UNCHANGED <<imInitialised, imFiles, imSaved>>

\* The copy that is written gets the file's name, the active profile keeps its own.
SaveProfile(n) ==
    LET Set(f, x) == [m \in DOMAIN f \cup {n} |-> IF m = n THEN x ELSE f[m]]
    IN  /\ imInitialised
        /\ imFiles' = Set(imFiles, WriteProfileIni([imActive EXCEPT !.name = n]))
        /\ imSaved' = Set(imSaved, imActive.entries)
        /\ imLoaded' = IF imLoaded = n THEN NotLoaded ELSE imLoaded
        /\ UNCHANGED <<imInitialised, imActive>>

DeleteProfile(n) ==
    LET Drop1(f) == [m \in DOMAIN f \ {n} |-> f[m]]
    IN  /\ imInitialised /\ n \in DOMAIN imFiles
        /\ imFiles' = Drop1(imFiles) /\ imSaved' = Drop1(imSaved)
        /\ imLoaded' = IF imLoaded = n THEN NotLoaded ELSE imLoaded
        /\ UNCHANGED <<imInitialised, imActive>>

\* SetActiveProfile asks nothing, not even that the module is up.
SetActiveProfile(p) ==
    /\ imActive' = p
    /\ imLoaded' = NotLoaded
    /\ UNCHANGED <<imInitialised, imFiles, imSaved>>

ImNext ==
    \/ InitMapping \/ ShutdownMapping
    \/ \E n \in ImNames : LoadProfile(n) \/ SaveProfile(n) \/ DeleteProfile(n)
    \/ \E p \in BuiltIn \cup ImCustom : SetActiveProfile(p)

ImSpec == ImInit /\ [][ImNext]_imVars

-----------------------------------------------------------------------------
(***************************************************************************)
(* A loaded profile translates as the one that was saved: it has the same  *)
(* entries in the same order, and the name it was saved under.             *)
(***************************************************************************)
SavedIsLoaded ==
    imLoaded # NotLoaded => imActive.entries = imSaved[imLoaded] /\ imActive.name = imLoaded

(***************************************************************************)
(* A mapped axis stays within [-1, 1] and outside its deadzone, whatever   *)
(* the scale and the inversion do to it.                                   *)
(***************************************************************************)
AxisInRange ==
    imInitialised =>
      \A i \in DOMAIN imActive.entries, value \in -ImOne .. ImOne :
         LET e   == imActive.entries[FirstMatch(imActive.entries, imActive.entries[i].type, imActive.entries[i].id)]
             out == TranslateAxis(e.type, e.id, value)
         IN  /\ out \in -ImOne .. ImOne
             /\ out # 0 => Magnitude(out) >= e.deadzone /\ (out * value > 0) = ~e.inverted

\* What profiles promise: saved ones come back (SaveProfile, LoadProfile) and axes
\* stay in range (TranslateAxis).
ProfilesSound == SavedIsLoaded /\ AxisInRange

(***************************************************************************)
(* The built-in profiles map one to one: every entry is the one that its   *)
(* source selects, so every button and axis they name can be produced.     *)
(***************************************************************************)
OneToOne ==
    imActive \in BuiltIn => \A i \in DOMAIN imActive.entries :
       FirstMatch(imActive.entries, imActive.entries[i].type, imActive.entries[i].id) = i
=============================================================================
