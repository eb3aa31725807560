---------------------------- MODULE PowerManager ----------------------------
(***************************************************************************)
(* power/power_manager.cpp, and core/performance_monitor.cpp, whose        *)
(* observers are kept and told in the same way.  An observer is told in    *)
(* the middle of a change and may itself change the state or the list of   *)
(* observers; the loop that tells it walks the vector as it was when it    *)
(* began.  An observer may be registered more than once, and is then told  *)
(* as often.  What initialize sets up is not in the repository.            *)
(***************************************************************************)
EXTENDS Naturals, Sequences, FiniteSets, SequencesExt

CONSTANTS
    Observers, States,
    MaxNesting,     \* bound: changes in progress
    MaxRegistered   \* bound: entries of the vector of observers

VARIABLES
    currentState,
    observers,      \* Seq of Observers
    changes,        \* stack of [previous, new, next]: next is the observer told next
    mode, settings, \* set by handleStateSpecificActions and updatePerformanceSettings
    heard,          \* [Observers -> the <<old, new>> last told, or <<>>]
    outermost,      \* history: the state of the last change that began when none was in progress
    undefined       \* the vector changed under a loop

vars == <<currentState, observers, changes, mode, settings, heard, outermost, undefined>>

Normal == "NORMAL"

Init ==
    /\ currentState = Normal /\ observers = <<>> /\ changes = <<>>
    /\ mode = Normal /\ settings = Normal
    /\ heard = [o \in Observers |-> <<>>] /\ outermost = Normal /\ undefined = FALSE

\* From the outside, or from an observer that is being told.
MayCall == changes # <<>> => Last(changes).next > 1

\* handlePowerStateChange: the state first, then the observers.
HandlePowerStateChange(state) ==
    /\ MayCall /\ Len(changes) < MaxNesting
    /\ changes' = Append(changes, [previous |-> currentState, new |-> state, next |-> 1])
    /\ currentState' = state
    /\ outermost' = IF changes = <<>> THEN state ELSE outermost
    /\ UNCHANGED <<observers, mode, settings, heard, undefined>>

Notify ==
    /\ changes # <<>>
    /\ LET top == Last(changes) IN
       /\ top.next <= Len(observers)
       /\ heard' = [heard EXCEPT ![observers[top.next]] = <<top.previous, top.new>>]
       /\ changes' = [changes EXCEPT ![Len(changes)].next = @ + 1]
    /\ UNCHANGED <<currentState, observers, mode, settings, outermost, undefined>>

\* Mutant: the settings are those of the state that was left.
FinishStale ==
    /\ changes # <<>>
    /\ Last(changes).next > Len(observers)
    /\ mode' = Last(changes).new /\ settings' = Last(changes).previous
    /\ changes' = Front(changes)
    /\ UNCHANGED <<currentState, observers, heard, outermost, undefined>>

\* The actions and settings are those of the change, whatever came after it began.
Finish ==
    /\ changes # <<>>
    /\ Last(changes).next > Len(observers)
    /\ mode' = Last(changes).new /\ settings' = Last(changes).new
    /\ changes' = Front(changes)
    /\ UNCHANGED <<currentState, observers, heard, outermost, undefined>>

\* push_back, whoever is registered; in the middle of the walk it moves what is walked.
Register(o) ==
    /\ MayCall /\ Len(observers) < MaxRegistered
    /\ observers' = Append(observers, o)
    /\ undefined' = (changes # <<>>)
    /\ UNCHANGED <<currentState, changes, mode, settings, heard, outermost>>

\* remove and erase: every entry of the observer goes, the others close up in their order;
\* without one nothing is touched.
Unregister(o) ==
    LET kept == {k \in DOMAIN observers : observers[k] # o} IN
    /\ MayCall
    /\ \E f \in [1 .. Cardinality(kept) -> kept] :
         /\ \A i, j \in DOMAIN f : i < j => f[i] < f[j]
         /\ observers' = [k \in DOMAIN f |-> observers[f[k]]]
    /\ undefined' = (changes # <<>> /\ kept # DOMAIN observers)
    /\ UNCHANGED <<currentState, changes, mode, settings, heard, outermost>>

Next ==
    /\ ~ undefined
    /\ \/ \E state \in States : HandlePowerStateChange(state)
       \/ Notify \/ Finish
       \/ \E o \in Observers : Register(o) \/ Unregister(o)

TypeOK ==
    /\ {currentState, mode, settings} \subseteq States \cup {Normal}
    /\ ToSet(observers) \subseteq Observers /\ Len(changes) <= MaxNesting

\* Whatever observers change inside a change, and are told of in between: when it is all
\* over, mode and settings are both those of the change everything began with - which is
\* the current state if no observer began another one, and is not if the last of those
\* was to another state (96-107, 161-175).
SettingsOfOutermost == changes = <<>> => mode = outermost /\ settings = outermost
=============================================================================
