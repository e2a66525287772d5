------------------------------ MODULE CommandLine ------------------------------
(***************************************************************************)
(* Four parts of the program that share no state, put together: a behaviour *)
(* is one of FrontEnds, of Projects, of Profiles or of Browser, and the     *)
(* variables of the three others are not looked at.                         *)
(***************************************************************************)
EXTENDS FrontEnds, Projects, Profiles, Browser

VARIABLE part

\* The state of a part that is not looked at.
NoFrontEnds == request = 0 /\ answer = 0 /\ front = 0
NoProjects == info = 0 /\ readable = 0 /\ writer = 0 /\ writes = 0 /\ stands = 0
NoProfiles ==
    profile = 0 /\ text = 0 /\ launchFile = 0 /\ tools = 0 /\ there = 0 /\ session = 0 /\ changes = 0
NoBrowser ==
    /\ sessions = 0 /\ order = 0 /\ rows = 0 /\ selected = 0 /\ details = 0 /\ frame = 0
    /\ browser = 0 /\ acted = 0 /\ events = 0

Init ==
    \/ part = "front_ends" /\ FrontInit /\ NoProjects /\ NoProfiles /\ NoBrowser
    \/ part = "projects" /\ ProjectInit /\ NoFrontEnds /\ NoProfiles /\ NoBrowser
    \/ part = "profiles" /\ ProfilesInit /\ NoFrontEnds /\ NoProjects /\ NoBrowser
    \/ part = "browser" /\ BrowserInit /\ NoFrontEnds /\ NoProjects /\ NoProfiles

Next ==
    /\ UNCHANGED part
    /\ \/ part = "front_ends" /\ FrontNext /\ UNCHANGED <<projectVars, profileVars, browserVars>>
       \/ part = "projects" /\ ProjectNext /\ UNCHANGED <<frontVars, profileVars, browserVars>>
       \/ part = "profiles" /\ ProfilesNext /\ UNCHANGED <<frontVars, projectVars, browserVars>>
       \/ part = "browser" /\ BrowserNext /\ UNCHANGED <<frontVars, projectVars, profileVars>>

Spec == Init /\ [][Next]_<<part, frontVars, projectVars, profileVars, browserVars>>

\* Two front ends: FrontEndsAgree of module FrontEnds.
FrontEndsSame == part = "front_ends" => FrontEndsAgree

\* Project information: WritesStand of module Projects.
ProjectsStand == part = "projects" => WritesStand

\* Environments: LastLayerWins of module Profiles.
LayersInOrder == part = "profiles" => LastLayerWins

\* Validation: ValidatedStarts of module Profiles.
ValidatedRuns == part = "profiles" => ValidatedStarts

\* The browser: ActsOnMarked of module Browser.
MarkedRowActed == part = "browser" => ActsOnMarked
================================================================================
