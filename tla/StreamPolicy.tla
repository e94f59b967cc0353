----------------------------- MODULE StreamPolicy -----------------------------
(***************************************************************************)
(* The stream policy (stream-policy.mjs) and the commands that edit it     *)
(* (policy-edits.mjs, cli/commands): profiles, the default of the host and *)
(* of each display, the displays that are shared, and what a device may    *)
(* choose itself.  Every edit builds a copy that is validated as a whole;  *)
(* an invalid one is refused.  Fields no request's outcome depends on      *)
(* (names, bitrates, codecs, the encoder, audio) are left out.             *)
(***************************************************************************)
EXTENDS Integers, Sequences, FiniteSets

CONSTANTS
  Ids,          \* profile ids
  PhoneId,      \* the profile an iPhone gets when nothing else is chosen
  DesktopId,    \* the one every other device gets
  MaxProfiles,  \* bound on the profiles (64 in the code)
  Shapes,       \* the sizes commands ask for: [sizing, width, height, percent, aspect]
  Displays,     \* displays of the host
  Primary,      \* the primary one
  Persistent,   \* those with a stable identity
  Screen,       \* the width and height of each
  Options,      \* custom sizes the owner may allow
  Automatic, Unset

ASSUME StreamPolicyAssumption ==
  /\ {PhoneId, DesktopId} \subseteq Ids /\ PhoneId # DesktopId
  /\ MaxProfiles \in Nat /\ MaxProfiles >= 2 /\ Options # {}
  /\ Primary \in Displays /\ Persistent \subseteq Displays
  /\ Screen \in [Displays -> (Nat \ {0}) \X (Nat \ {0})]

VARIABLE policy

ProfileIds(p) == {p.profiles[i].id : i \in DOMAIN p.profiles}

Enabled(p) == {p.profiles[i].id : i \in {j \in DOMAIN p.profiles : p.profiles[j].enabled}}

\* Sides a profile may have: even, and within what the encoders take.
Sides == {n \in 64..4096 : n % 2 = 0}

UsableShapes ==
  [sizing : {"height", "width", "scale", "fixed"}, width : Sides, height : Sides, percent : 10..400,
   aspect : {"keep", "fit", "stretch"}]

UsableProfiles == [id : Ids, enabled : BOOLEAN, shape : UsableShapes]

\* Mutant: a display's default may be a profile that is hidden or gone.
ValidM(p) ==
  /\ Enabled(p) # {}
  /\ p.default \in Enabled(p) \cup {Automatic}
  /\ p.options # {}

\* validateStreamPolicy.
Valid(p) ==
  /\ p.profiles \in Seq(UsableProfiles) /\ Len(p.profiles) \in 1..MaxProfiles
  /\ Cardinality(ProfileIds(p)) = Len(p.profiles)
  /\ Enabled(p) # {}
  /\ p.default \in Enabled(p) \cup {Automatic}
  /\ \A d \in Displays : p.displayDefault[d] \in Enabled(p) \cup {Unset}
  /\ p.options # {}

\* NEW_PROFILE, what a new profile is where its command says nothing else.
Plain == [sizing |-> "height", width |-> 1920, height |-> 1080, percent |-> 100, aspect |-> "keep"]

\* Every profile follows the screen's shape at a height.
DefaultPolicy ==
  [profiles |-> <<[id |-> PhoneId, enabled |-> TRUE, shape |-> Plain],
                  [id |-> DesktopId, enabled |-> TRUE, shape |-> Plain]>>,
   default |-> Automatic,
   displayDefault |-> [d \in Displays |-> Unset],
   sharing |-> [d \in Displays |-> Unset],
   seeded |-> FALSE,
   mode |-> "profiles",
   options |-> Options]

-----------------------------------------------------------------------------
\* Until the owner chose, sharing is not set at all; then the primary display is shared.
SeedSharing(p) ==
  IF p.seeded THEN p
  ELSE [p EXCEPT !.seeded = TRUE,
                 !.sharing = [d \in Displays |->
                                IF d = Primary /\ d \in Persistent THEN TRUE ELSE Unset]]

ShareDisplay(p, d, shared) == [SeedSharing(p) EXCEPT !.sharing[d] = shared]

SetDisplayDefault(p, d, id) == [p EXCEPT !.displayDefault[d] = id]

SetDefaultProfile(p, id) == [p EXCEPT !.default = id]

SetClientMode(p, mode) == [p EXCEPT !.mode = mode]

\* The new profile's id comes from its name, with a number when that one is taken.
AddProfile(p, id, shape, enabled) ==
  [p EXCEPT !.profiles = Append(@, [id |-> id, enabled |-> enabled, shape |-> shape])]

\* findProfile.
Profile(p, id) == CHOOSE q \in {p.profiles[i] : i \in DOMAIN p.profiles} : q.id = id

\* editProfile: the profile takes its new values in its place.
Changed(p, new) ==
  [p EXCEPT !.profiles = [i \in DOMAIN @ |-> IF @[i].id = new.id THEN new ELSE @[i]]]

\* profileValues: a command says how the stream is sized; the values it does not name stay.
Resized(shape, s) ==
  CASE s.sizing = "height" -> [shape EXCEPT !.sizing = "height", !.height = s.height]
    [] s.sizing = "width" -> [shape EXCEPT !.sizing = "width", !.width = s.width]
    [] s.sizing = "scale" -> [shape EXCEPT !.sizing = "scale", !.percent = s.percent]
    [] OTHER -> [shape EXCEPT !.sizing = "fixed", !.width = s.width, !.height = s.height,
                              !.aspect = s.aspect]

\* duplicateProfile.
CopyOf(p, id, new) == AddProfile(p, new, Profile(p, id).shape, Profile(p, id).enabled)

RemoveProfile(p, id) == [p EXCEPT !.profiles = SelectSeq(@, LAMBDA q : q.id # id)]

AllowOption(p, option) == [p EXCEPT !.options = @ \cup {option}]

RemoveOption(p, option) == [p EXCEPT !.options = @ \ {option}]

\* An edit that leaves an invalid policy is refused.
Edit(next) == Valid(next) /\ policy' = next

Share(d) == d \in Persistent /\ \E on \in BOOLEAN : Edit(ShareDisplay(policy, d, on))

DisplayDefault(d) == \E id \in ProfileIds(policy) \cup {Unset} : Edit(SetDisplayDefault(policy, d, id))

DefaultProfile == \E id \in ProfileIds(policy) \cup {Automatic} : Edit(SetDefaultProfile(policy, id))

NewProfile ==
  \E id \in Ids \ ProfileIds(policy), shape \in Shapes, enabled \in BOOLEAN :
    Edit(AddProfile(policy, id, Resized(Plain, shape), enabled))

EditProfile(id) ==
  \E shape \in Shapes :
    Edit(Changed(policy, [Profile(policy, id) EXCEPT !.shape = Resized(@, shape)]))

Toggle(id) ==
  \E on \in BOOLEAN : Edit(Changed(policy, [Profile(policy, id) EXCEPT !.enabled = on]))

Duplicate(id) == \E new \in Ids \ ProfileIds(policy) : Edit(CopyOf(policy, id, new))

DropProfile(id) == Edit(RemoveProfile(policy, id))

ClientMode == \E mode \in {"profiles", "options"} : Edit(SetClientMode(policy, mode))

ChangeOptions(option) ==
  \/ option \notin policy.options /\ Edit(AllowOption(policy, option))
  \/ option \in policy.options /\ Edit(RemoveOption(policy, option))

PolicyInit == policy = DefaultPolicy

PolicyNext ==
  \/ \E d \in Displays : Share(d) \/ DisplayDefault(d)
  \/ DefaultProfile \/ NewProfile \/ ClientMode
  \/ \E id \in ProfileIds(policy) : EditProfile(id) \/ Toggle(id) \/ Duplicate(id) \/ DropProfile(id)
  \/ \E option \in Options : ChangeOptions(option)

PolicySpec == PolicyInit /\ [][PolicyNext]_policy

-----------------------------------------------------------------------------
\* DisplayInventory.allowed: the displays a device may ask for.
Shared == {d \in Persistent : policy.sharing[d] = TRUE}

\* The first profile that is not hidden.
First(p) ==
  p.profiles[CHOOSE i \in DOMAIN p.profiles :
               p.profiles[i].enabled /\ \A j \in 1..(i - 1) : ~p.profiles[j].enabled].id

\* The profile a request without one gets: the display's, else the host's, else by device.
AutoProfile(d, phone) ==
  LET preferred == IF phone THEN PhoneId ELSE DesktopId
  IN IF policy.displayDefault[d] # Unset THEN policy.displayDefault[d]
     ELSE IF policy.default # Automatic THEN policy.default
     ELSE IF preferred \in Enabled(policy) THEN preferred ELSE First(policy)

\* resolveStreamPolicy: where the profile is that a request for display d gets; nowhere if it is refused.
Resolve(d, id, phone) ==
  LET chosen == IF id = Automatic THEN AutoProfile(d, phone) ELSE id
  IN {i \in DOMAIN policy.profiles : policy.profiles[i].id = chosen /\ policy.profiles[i].enabled}

ResolveCustom(option) == policy.mode = "options" /\ option \in policy.options

Larger(a, b) == IF a > b THEN a ELSE b
Smaller(a, b) == IF a < b THEN a ELSE b

\* n / d rounded to an even number, as even() does.
Even(n, d) == Larger(2, 2 * ((n + d) \div (2 * d)))

\* Mutant: both sides are cut at the encoder's largest size, each on its own.
OutputSizeM(s, screen) ==
  LET ratio == IF s.sizing = "height" THEN <<s.height, screen[2]>>
               ELSE IF s.sizing = "width" THEN <<s.width, screen[1]>>
               ELSE <<s.percent, 100>>
  IN <<Smaller(4096, Even(screen[1] * ratio[1], ratio[2])),
       Smaller(4096, Even(screen[2] * ratio[1], ratio[2]))>>

\* outputSize: the size a profile of shape s streams the screen at.
OutputSize(s, screen) ==
  LET boxed == s.sizing = "fixed"
      ratio == IF s.sizing = "height" THEN <<s.height, screen[2]>>
               ELSE IF s.sizing = "width" THEN <<s.width, screen[1]>>
               ELSE IF s.sizing = "scale" THEN <<s.percent, 100>>
               ELSE IF s.width * screen[2] <= s.height * screen[1] THEN <<s.width, screen[1]>>
               ELSE <<s.height, screen[2]>>
      long == Larger(screen[1], screen[2])
      short == Smaller(screen[1], screen[2])
      k == IF long * ratio[1] > 4096 * ratio[2] THEN <<4096, long>>
           ELSE IF short * ratio[1] < 64 * ratio[2] THEN <<64, short>>
           ELSE ratio
  IN IF boxed /\ s.aspect # "keep" THEN <<s.width, s.height>>
     ELSE <<Smaller(4096, Even(screen[1] * k[1], k[2])),
            Smaller(4096, Even(screen[2] * k[1], k[2]))>>

-----------------------------------------------------------------------------
(* Properties. *)

\* Whatever the owner edited, a device that asks for no profile gets exactly one on every shared
\* display: no sequence of edits leaves a default that points at a hidden or removed profile.
AutoAlwaysResolves ==
  \A d \in Shared, phone \in BOOLEAN : Cardinality(Resolve(d, Automatic, phone)) = 1

\* The size of every stream is one the encoder takes, and has the screen's shape unless the owner
\* asked for bars or stretching: each side is at most a pixel from the exact one.  (A screen 64 times
\* as long as it is wide cannot have both.)
SizeKeepsShape ==
  \A i \in DOMAIN policy.profiles, d \in Shared :
    LET s == policy.profiles[i].shape
        screen == Screen[d]
        size == OutputSize(s, screen)
        off == size[1] * screen[2] - size[2] * screen[1]
    IN Larger(screen[1], screen[2]) <= 64 * Smaller(screen[1], screen[2]) =>
         /\ \A side \in {1, 2} : size[side] \in Sides
         /\ \/ s.sizing = "fixed" /\ s.aspect # "keep"
            \/ off \in (0 - screen[1] - screen[2])..(screen[1] + screen[2])

=============================================================================
