----------------------------- MODULE PhotoGate -----------------------------
(***************************************************************************)
(* The photo check (routers/photo_validation.py): the verdict on a vision  *)
(* model's answer, the attempts over the configured API keys, and the      *)
(* photo_validation feature flag (core/redis.FeatureFlags) that a failing  *)
(* check switches off and a super-admin switches either way                *)
(* (routers/jobs.py, set_photo_validation_setting).                        *)
(***************************************************************************)
EXTENDS Naturals, Sequences

CONSTANTS
    Check,      \* check_photo requests; each runs once (a bound)
    Toggle,     \* panel requests that set the flag; each runs once (a bound)
    ApiKeys     \* number of keys tried for the active provider

ASSUME GateAssumption == ApiKeys \in Nat \ {0}

VARIABLES
    flag,       \* feature_flag:photo_validation; a missing key reads as TRUE
    autoOff,    \* feature_flag:photo_validation:auto_off
    checks,     \* check_photo requests
    toggles,    \* panel requests
    tangled     \* a set_flag ran or stopped within another one

gateVars == <<flag, autoOff, checks, toggles, tangled>>

(* The words a model answers with: the known ones, an alias and an unknown *)
(* word.                                                                   *)
SourceWords == {"original", "screenshot", "screen", "poster_or_print", "tv", "?"}
PositionWords == {"centered", "too_high", "too_left", "top", "?"}
DirectionWords == {"camera", "up", "left", "front", "?"}

NormalizeSource(w) == IF w = "tv" THEN "screen" ELSE IF w = "?" THEN "original" ELSE w
NormalizePosition(w) == IF w = "top" THEN "too_high" ELSE IF w = "?" THEN "centered" ELSE w
NormalizeDirection(w) == IF w \in {"front", "?"} THEN "camera" ELSE w

(* PhotoAnalysis: what each field may hold, and the best analysis.         *)
Answers ==
    [is_appropriate |-> BOOLEAN, has_offensive_content |-> BOOLEAN,
     photo_source |-> SourceWords, resembles_public_figure |-> BOOLEAN,
     quality_ok |-> BOOLEAN, number_of_people |-> 0..2, face_visible |-> BOOLEAN,
     face_fully_visible |-> BOOLEAN, face_unobstructed |-> BOOLEAN,
     looks_under_18 |-> BOOLEAN, face_position |-> PositionWords,
     head_direction |-> DirectionWords, eyes_open |-> BOOLEAN, is_pouting |-> BOOLEAN]

Best ==
    [is_appropriate |-> TRUE, has_offensive_content |-> FALSE,
     photo_source |-> "original", resembles_public_figure |-> FALSE,
     quality_ok |-> TRUE, number_of_people |-> 1, face_visible |-> TRUE,
     face_fully_visible |-> TRUE, face_unobstructed |-> TRUE,
     looks_under_18 |-> FALSE, face_position |-> "centered",
     head_direction |-> "camera", eyes_open |-> TRUE, is_pouting |-> FALSE]

(* The analyses considered: at most two answers from the best (a bound).   *)
Changed(a) == UNION {{[a EXCEPT ![f] = v] : v \in Answers[f]} : f \in DOMAIN Answers}
Photos == UNION {Changed(a) : a \in Changed(Best)}

SourceLabel(s) ==
    CASE s = "screenshot" -> "REJECT_SCREENSHOT"
      [] s = "screen" -> "REJECT_SCREEN"
      [] s = "poster_or_print" -> "REJECT_POSTER"
      [] OTHER -> "APPROVED"

(* The checks of decide, in its order: what each finds, and its answer.    *)
Findings(a) ==
    LET source == NormalizeSource(a.photo_source) IN
    << <<~ a.is_appropriate, "REJECT_NSFW">>,
       <<a.has_offensive_content, "REJECT_OFFENSIVE">>,
       <<source # "original", SourceLabel(source)>>,
       <<a.resembles_public_figure, "REJECT_CELEBRITY">>,
       <<~ a.quality_ok, "REJECT_UNCLEAR">>,
       <<a.number_of_people > 1, "REJECT_TOO_MANY_PEOPLE">>,
       <<a.number_of_people < 1 \/ ~ a.face_visible, "REJECT_NO_FACE">>,
       <<~ a.face_fully_visible, "REJECT_FACE_CROPPED">>,
       <<~ a.face_unobstructed, "REJECT_OBSTRUCTED">>,
       <<a.looks_under_18, "REJECT_MINOR">>,
       <<NormalizePosition(a.face_position) # "centered", "REJECT_FRAMING">>,
       <<NormalizeDirection(a.head_direction) # "camera", "REJECT_NOT_FACING_CAMERA">>,
       <<~ a.eyes_open, "REJECT_EYES_CLOSED">>,
       <<a.is_pouting, "REJECT_POUT">> >>

First(S) == CHOOSE i \in S : \A j \in S : i <= j

(* A plausible slip: the last problem found is reported.                   *)
DecideLast(a) ==
    LET f == Findings(a)
        found == {i \in DOMAIN f : f[i][1]}
    IN  IF found = {} THEN "APPROVED"
        ELSE f[CHOOSE i \in found : \A j \in found : j <= i][2]

(* The first problem found decides; none approves.                         *)
Decide(a) ==
    LET f == Findings(a)
        found == {i \in DOMAIN f : f[i][1]}
    IN  IF found = {} THEN "APPROVED" ELSE f[First(found)][2]

-----------------------------------------------------------------------------
CheckBlank(st) == [st |-> st, key |-> 1, photo |-> Best]
ToggleBlank(st) == [st |-> st, on |-> FALSE]

GateInit ==
    /\ flag = TRUE /\ autoOff = FALSE
    /\ checks = [c \in Check |-> CheckBlank("idle")]
    /\ toggles = [t \in Toggle |-> ToggleBlank("idle")]
    /\ tangled = FALSE

(* The active vision configuration is read and the connection let go; the  *)
(* first key is tried in a thread of the pool.                             *)
Upload(c) ==
    /\ checks[c].st = "idle"
    /\ checks' = [checks EXCEPT ![c] = CheckBlank("asking")]
    /\ UNCHANGED <<flag, autoOff, toggles, tangled>>

(* The model's answer is parsed; the handler is still waiting for the pool. *)
Answer(c, a) ==
    /\ checks[c].st = "asking"
    /\ checks' = [checks EXCEPT ![c] = [CheckBlank("answered") EXCEPT !.photo = a]]
    /\ UNCHANGED <<flag, autoOff, toggles, tangled>>

(* build_result: only an approved photo gets a validation token.           *)
Conclude(c) ==
    /\ checks[c].st = "answered"
    /\ checks' = [checks EXCEPT ![c] = CheckBlank(
         IF Decide(checks[c].photo) = "APPROVED" THEN "approved" ELSE "rejected")]
    /\ UNCHANGED <<flag, autoOff, toggles, tangled>>

(* A plausible slip: after the last key the first one is tried again.      *)
AfterFailureWraps(s) == [s EXCEPT !.key = (@ % ApiKeys) + 1]

(* The next key, or none is left and the gate is to be switched off.       *)
AfterFailure(s) ==
    IF s.key < ApiKeys THEN [s EXCEPT !.key = @ + 1] ELSE CheckBlank("failed")

(* The attempt fails or times out (VISION_TIMEOUT_SECONDS).                *)
AttemptFails(c) ==
    /\ checks[c].st = "asking"
    /\ checks' = [checks EXCEPT ![c] = AfterFailure(@)]
    /\ UNCHANGED <<flag, autoOff, toggles, tangled>>

MarkingOff(c) == checks[c].st = "marking"
Toggling(t) == toggles[t].st = "marking"

SomeSetFlag == (\E c \in Check : MarkingOff(c)) \/ (\E t \in Toggle : Toggling(t))

(* set_flag("photo_validation", False, auto=True), its first command ...   *)
AutoOffFlag(c) ==
    /\ checks[c].st = "failed"
    /\ flag' = FALSE
    /\ checks' = [checks EXCEPT ![c] = CheckBlank("marking")]
    /\ tangled' = (tangled \/ SomeSetFlag)
    /\ UNCHANGED <<autoOff, toggles>>

(* ... its second one, and the 503.                                        *)
AutoOffMark(c) ==
    /\ checks[c].st = "marking"
    /\ autoOff' = TRUE
    /\ checks' = [checks EXCEPT ![c] = CheckBlank("unavailable")]
    /\ UNCHANGED <<flag, toggles, tangled>>

(* Redis is unreachable: set_flag returns FALSE, the check ignores it.     *)
AutoOffLost(c) ==
    /\ checks[c].st = "failed"
    /\ checks' = [checks EXCEPT ![c] = CheckBlank("unavailable")]
    /\ UNCHANGED <<flag, autoOff, toggles, tangled>>

ToggleFlag(t, on) ==
    /\ toggles[t].st = "idle"
    /\ flag' = on
    /\ toggles' = [toggles EXCEPT ![t] = [st |-> "marking", on |-> on]]
    /\ tangled' = (tangled \/ SomeSetFlag)
    /\ UNCHANGED <<autoOff, checks>>

(* A plausible slip: the marker is kept when the gate is switched on.      *)
MarkerKept(on) == autoOff

(* Switching on deletes the marker, switching off by hand leaves it.       *)
MarkerAfter(on) == IF on THEN FALSE ELSE autoOff

ToggleMark(t) ==
    /\ toggles[t].st = "marking"
    /\ autoOff' = MarkerAfter(toggles[t].on)
    /\ toggles' = [toggles EXCEPT ![t] = ToggleBlank("done")]
    /\ UNCHANGED <<flag, checks, tangled>>

(* The process dies between the two commands of set_flag.                  *)
SetFlagCut ==
    /\ \/ \E c \in Check :
            /\ MarkingOff(c)
            /\ checks' = [checks EXCEPT ![c] = CheckBlank("unavailable")]
            /\ UNCHANGED toggles
       \/ \E t \in Toggle :
            /\ Toggling(t)
            /\ toggles' = [toggles EXCEPT ![t] = ToggleBlank("done")]
            /\ UNCHANGED checks
    /\ tangled' = TRUE
    /\ UNCHANGED <<flag, autoOff>>

Advance(c) ==
    \/ checks[c].st = "asking" /\ \E a \in Photos : Answer(c, a)
    \/ Conclude(c)
    \/ AttemptFails(c)
    \/ AutoOffFlag(c) \/ AutoOffMark(c) \/ AutoOffLost(c)

GateNext ==
    \/ \E c \in Check : Upload(c) \/ Advance(c)
    \/ \E t \in Toggle : (\E on \in BOOLEAN : ToggleFlag(t, on)) \/ ToggleMark(t)
    \/ SetFlagCut

(* Every attempt ends: the client's timeout and its single retry bound it. *)
GateFairness == \A c \in Check : WF_gateVars(Advance(c))

GateSpec == GateInit /\ [][GateNext]_gateVars /\ GateFairness

-----------------------------------------------------------------------------
(* Type invariant of the gate.                                             *)
GateTypeOK ==
    /\ flag \in BOOLEAN /\ autoOff \in BOOLEAN /\ tangled \in BOOLEAN
    /\ checks \in [Check -> [st : {"idle", "asking", "answered", "failed", "marking",
                                   "approved", "rejected", "unavailable"},
                             key : 1..ApiKeys, photo : Photos]]
    /\ toggles \in [Toggle -> [st : {"idle", "marking", "done"}, on : BOOLEAN]]

(* The marker tells the panel that the system switched the gate off: it is *)
(* never set while the gate is on, between set_flag calls that neither     *)
(* overlapped nor were cut.                                                *)
MarkerMeansOff == tangled \/ SomeSetFlag \/ (autoOff => ~ flag)

(* "Fail fast instead": a check whose keys all fail is answered too.       *)
CheckAnswered ==
    \A c \in Check :
      checks[c].st = "asking" ~> checks[c].st \in {"approved", "rejected", "unavailable"}

(* The photo the renderer can use: what the prompt and decide's comments   *)
(* ask for, in the model's own words; looking_at_camera is not consulted.  *)
Usable(a) ==
    /\ a.is_appropriate /\ ~ a.has_offensive_content
    /\ a.photo_source \in {"original", "?"} /\ ~ a.resembles_public_figure
    /\ a.quality_ok
    /\ a.number_of_people = 1
    /\ a.face_visible /\ a.face_fully_visible /\ a.face_unobstructed
    /\ ~ a.looks_under_18
    /\ a.face_position \in {"centered", "?"}
    /\ a.head_direction \in {"camera", "front", "?"}
    /\ a.eyes_open /\ ~ a.is_pouting

ContentLabels == {"REJECT_NSFW", "REJECT_OFFENSIVE"}
SourceLabels == {"REJECT_SCREENSHOT", "REJECT_SCREEN", "REJECT_POSTER", "REJECT_CELEBRITY"}
CoachingLabels == {"REJECT_FRAMING", "REJECT_NOT_FACING_CAMERA", "REJECT_EYES_CLOSED",
                   "REJECT_POUT"}

(* decide approves exactly the usable photos, and names the most           *)
(* fundamental problem: content, then authenticity, and eligibility before *)
(* the coaching.                                                           *)
DecideMatchesPolicy ==
    \A c \in Check :
      checks[c].st = "answered" =>
        LET a == checks[c].photo
            d == Decide(a)
        IN  /\ (d = "APPROVED") = Usable(a)
            /\ (~ a.is_appropriate \/ a.has_offensive_content) => d \in ContentLabels
            /\ /\ a.is_appropriate /\ ~ a.has_offensive_content
               /\ a.photo_source \notin {"original", "?"} \/ a.resembles_public_figure
               => d \in SourceLabels
            /\ a.looks_under_18 => d \notin CoachingLabels
=============================================================================
