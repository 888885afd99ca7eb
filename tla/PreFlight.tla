------------------------------- MODULE PreFlight -------------------------------
(***************************************************************************)
(* The checks before a start, and the start they speak for:                *)
(*   cli/src/commands/validate.ts   runValidation()                        *)
(*   cli/src/commands/doctor.ts     runDoctor()                            *)
(*   cli/src/config.ts              loadCliConfig()                        *)
(*   cli/src/commands/start.ts, resolve-connectors.ts                      *)
(* The checks and the start read the same files with different loaders:    *)
(* one substitutes environment variables and skips what is missing, the    *)
(* other reports what is missing and leaves the variables alone.           *)
(***************************************************************************)
EXTENDS Naturals, FiniteSets

VARIABLES
  project,  \* the state of each part of the project
  verdict,  \* what doctor has said of it
  outcome,  \* of `orgloop start`
  active    \* the route files that run

preFlightVars == <<project, verdict, outcome, active>>

(***************************************************************************)
(* A manifest that lists a file of connectors, one of transforms and one   *)
(* of loggers, and two route files; all routes use the connectors, the     *)
(* first also the transform.  "unset" refers to an environment variable    *)
(* that is not set; a "nameless" manifest has no metadata.                 *)
(***************************************************************************)
FileState == {"ok", "absent", "garbled", "unset"}
RouteFile == {"first", "second"}
Listed == {"connectors", "transforms", "loggers"}
Part == Listed \cup RouteFile \cup
        {"manifest", "transform", "connectorPackage", "transformPackage",
         "packageJson", "credential", "service"}

States(part) ==
  CASE part \in Listed -> FileState
    [] part \in RouteFile -> FileState \cup {"dangling", "promptless"}
    [] part = "manifest" -> FileState \cup {"kindless", "nameless"}
    [] part = "transform" -> {"script", "noScript", "notExecutable", "package", "misfit"}
    [] part \in {"connectorPackage", "transformPackage"} ->
         {"ok", "undeclared", "uninstalled"}
    [] part = "packageJson" -> {"ok", "absent"}
    [] part \in {"credential", "service"} -> {"ok", "bad"}

Sound == [part \in Part |-> IF part = "transform" THEN "script" ELSE "ok"]

PreFlightTypeOK ==
  /\ DOMAIN project = Part
  /\ \A part \in Part : project[part] \in States(part)
  /\ verdict \in {"unasked", "ok", "degraded", "error"}
  /\ outcome \in {"none", "refused", "no config", "no connector", "running"}
  /\ active \subseteq RouteFile

\* Up to two parts are not as they should be.
Projects ==
  UNION {{[Sound EXCEPT ![p] = s, ![q] = t] : s \in States(p), t \in States(q)}
           : p \in Part, q \in Part}

PreFlightInit ==
  /\ project \in Projects
  /\ verdict = "unasked"
  /\ outcome = "none"
  /\ active = {}

Is(part, states) == project[part] \in states
PackageUsed == Is("transform", {"package", "misfit"})
Importable(package) == ~Is(package, {"uninstalled"})

-----------------------------------------------------------------------------
(* loadCliConfig(): variables are substituted, so one that is not set is   *)
(* an exception; a file that is not there is skipped; a route file that    *)
(* cannot be read ends the reading of route files.                         *)

Loads ==
  /\ Is("manifest", {"ok", "kindless"})
  /\ \A f \in Listed : Is(f, {"ok", "absent"})

Unreadable(r) == Is(r, {"garbled", "unset"})
RoutesLoaded ==
  {r \in RouteFile : /\ ~Unreadable(r) /\ ~Is(r, {"absent"})
                     /\ r = "second" => ~Unreadable("first")}

-----------------------------------------------------------------------------
(* runValidation(): errors and warnings.                                   *)

Parsed(f) == Is(f, {"ok", "unset"})
RoutesRead == {r \in RouteFile : ~Is(r, {"absent", "garbled"})}

ManifestError == ~Is("manifest", {"ok", "unset"})
FileError == (\E f \in Listed : ~Parsed(f)) \/ \E r \in RouteFile : Is(r, {"garbled"})
ReferenceError ==
  \E r \in RoutesRead : \/ Is(r, {"dangling", "promptless"})
                        \/ ~Parsed("connectors")
                        \/ r = "first" /\ ~Parsed("transforms")
\* Fault: a script is only looked for.
ScriptUnseen == Parsed("transforms") /\ Is("transform", {"noScript"})
ScriptError == Parsed("transforms") /\ Is("transform", {"noScript", "notExecutable"})
ConfigError ==
  Parsed("transforms") /\ Is("transform", {"misfit"}) /\ Importable("transformPackage")

ValidationError ==
  ManifestError \/ FileError \/ ReferenceError \/ ScriptError \/ ConfigError

\* Sources and actors, or transforms, that no route refers to.
GraphWarning ==
  /\ ~ManifestError
  /\ \/ Parsed("connectors") /\ \A r \in RoutesRead : Is(r, {"dangling"})
     \/ Parsed("transforms") /\ "first" \notin RoutesRead

-----------------------------------------------------------------------------
(* runDoctor(): validation, and the live checks, which need the            *)
(* configuration to load.                                                  *)

Undeclared ==
  /\ Loads /\ Is("packageJson", {"ok"})
  /\ \/ Is("connectors", {"ok"}) /\ Is("connectorPackage", {"undeclared"})
     \/ Is("transforms", {"ok"}) /\ PackageUsed /\ Is("transformPackage", {"undeclared"})

Registered == Loads /\ Is("connectors", {"ok"}) /\ Importable("connectorPackage")

\* scanEnvVars() reads the texts, whatever else is wrong with them.
Unset ==
  /\ ~Is("manifest", {"absent", "garbled"})
  /\ \E f \in Listed \cup RouteFile \cup {"manifest"} : Is(f, {"unset"})

Diagnosis ==
  IF ValidationError \/ Undeclared \/ (Registered /\ Is("credential", {"bad"})) THEN "error"
  ELSE IF Unset \/ GraphWarning \/ (Registered /\ Is("service", {"bad"})) THEN "degraded"
  ELSE "ok"

Doctor ==
  /\ outcome = "none"
  /\ verdict' = Diagnosis
  /\ UNCHANGED <<project, outcome, active>>

-----------------------------------------------------------------------------
(* `orgloop start`: the doctor, unless forced, then the configuration and  *)
(* the packages.  Connectors must be there; a transform or a logger that   *)
(* is not gets a warning.                                                  *)

StartProject(force) ==
  /\ outcome = "none"
  /\ verdict' = IF force THEN verdict ELSE Diagnosis
  /\ outcome' =
       IF ~force /\ Diagnosis = "error" THEN "refused"
       ELSE IF ~Loads THEN "no config"
       ELSE IF Is("connectors", {"ok"}) /\ ~Importable("connectorPackage")
            THEN "no connector"
       ELSE "running"
  /\ active' = IF outcome' = "running" THEN RoutesLoaded ELSE {}
  /\ UNCHANGED project

\* The user stops what runs, mends a part, and asks again.
Mend(part) ==
  /\ project[part] # Sound[part]
  /\ project' = [project EXCEPT ![part] = Sound[part]]
  /\ verdict' = "unasked"
  /\ outcome' = "none"
  /\ active' = {}

PreFlightNext ==
  \/ Doctor
  \/ \E force \in BOOLEAN : StartProject(force)
  \/ \E part \in Part : Mend(part)

PreFlightSpec == PreFlightInit /\ [][PreFlightNext]_preFlightVars

-----------------------------------------------------------------------------
(***************************************************************************)
(* "ok" is worth something: what doctor had nothing to say about starts,   *)
(* with every route file active and everything its routes refer to in      *)
(* place, as long as the packages are installed.                           *)
(***************************************************************************)
InPlace(r) ==
  /\ project[r] = "ok" /\ project["connectors"] = "ok"
  /\ r = "first" => project["transforms"] = "ok" /\ Is("transform", {"script", "package"})

OkMeansWhole ==
  /\ outcome # "none" /\ verdict = "ok"
  /\ Importable("connectorPackage") /\ (PackageUsed => Importable("transformPackage"))
  => /\ outcome = "running"
     /\ active = {r \in RouteFile : project[r] # "absent"}
     /\ \A r \in active : InPlace(r)
=============================================================================
