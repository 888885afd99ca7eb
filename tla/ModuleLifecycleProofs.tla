------------------------ MODULE ModuleLifecycleProofs ------------------------
(* Theorems about ModuleLifecycle, for any modules, sources and calls.     *)
EXTENDS ModuleLifecycle, TLAPS

(***************************************************************************)
(* The inductive invariant.  Besides the properties it says whom a call    *)
(* works for: an instance is known to nobody before it is built, it is new *)
(* for one load only, and, as long as no two unloads of its module overlap,*)
(* the instance an unload works on is the registered one.                  *)
(***************************************************************************)
SharedShape ==
    /\ built \in 0 .. MaxInstance
    /\ owner \in [Instance -> Name]
    /\ state \in [Instance -> {"none", "loading", "active", "unloading", "removed"}]
    /\ registry \in [Name -> 0 .. MaxInstance]
    /\ entries \subseteq Instance \X Source
    /\ handlers \in [Source -> 0 .. MaxInstance]
    /\ loggers \subseteq Instance
    /\ config \subseteq Name
    /\ http \in BOOLEAN
    /\ ticking \in BOOLEAN
    /\ running \in BOOLEAN
    /\ overlapped \subseteq Name

CallShape ==
    /\ pc \in [Caller -> Point]
    /\ name \in [Caller -> Name]
    /\ target \in [Caller -> 0 .. MaxInstance]
    /\ again \in [Caller -> BOOLEAN]
    /\ list \in [Caller -> SUBSET Instance]

Shape == SharedShape /\ CallShape

RegistryOK ==
    \A n \in Name : registry[n] # 0 =>
        owner[registry[n]] = n /\ state[registry[n]] \notin {"none", "loading"}

NobodyKnowsUnbuilt ==
    /\ \A e \in entries : e[1] <= built
    /\ \A i \in loggers : i <= built
    /\ \A n \in Name : registry[n] <= built
    /\ \A c \in Caller : target[c] <= built
    /\ \A c \in Caller : \A i \in list[c] : i <= built

Working == {"initializing", "binding", "unloading", "shutting"}

CallOK(c) ==
    /\ pc[c] \in Working => target[c] # 0 /\ owner[target[c]] = name[c]
    /\ pc[c] = "initializing" => state[target[c]] = "loading"
    /\ pc[c] = "unloading" => state[target[c]] \notin {"none", "loading"}
    /\ pc[c] \in {"shutting", "quitting"} =>
          target[c] # 0 /\ state[target[c]] \in {"unloading", "removed"}
    /\ \A i \in list[c] : state[i] \notin {"none", "loading"}

CallsOK ==
    /\ \A c \in Caller : CallOK(c)
    /\ \A c, d \in Caller : (/\ pc[c] = "initializing" /\ pc[d] = "initializing"
                             /\ target[c] = target[d]) => c = d

OneUnload ==
    \A n \in Name \ overlapped : \A c \in Caller : Unloading(c, n) =>
        /\ registry[n] = target[c]
        /\ \A d \in Caller : Unloading(d, n) => c = d

Inv == /\ Shape
       /\ RegistryOK
       /\ NobodyKnowsUnbuilt
       /\ CallsOK
       /\ OneUnload
       /\ NothingLeftBehind
       /\ ServedWhileActive

LEMMA NoNameType == NoName \in Name
BY LifecycleAssumption DEF NoName

LEMMA ReturnShape ==
    ASSUME CallShape, NEW c \in Caller, Return(c)
    PROVE  CallShape'
BY NoNameType, LifecycleAssumption DEF CallShape, Return, Point

LEMMA ShapeStep ==
    ASSUME Inv, Next
    PROVE  Shape'
<1> USE LifecycleAssumption, NoNameType
<1>1. ASSUME NEW c \in Caller, NEW n \in Name, LoadCall(c, n) PROVE Shape'
  <2>1. SharedShape'
    BY <1>1
    DEF Inv, Shape, SharedShape, CallShape, Instance, LoadCall, Build, sharedVars,
        moduleVars
  <2>2. CallShape'
    BY <1>1 DEF Inv, Shape, SharedShape, CallShape, Point, Instance, LoadCall, Build
  <2>3. QED
    BY <2>1, <2>2 DEF Shape
<1>2. ASSUME NEW c \in Caller, NEW n \in Name, UnloadCall(c, n) PROVE Shape'
  <2>1. SharedShape'
    BY <1>2
    DEF Inv, Shape, SharedShape, CallShape, Instance, UnloadCall, BeginUnload, Goto,
        sharedVars, moduleVars
  <2>2. CallShape'
    BY <1>2
    DEF Inv, Shape, SharedShape, CallShape, Point, Instance, UnloadCall,
        BeginUnload, Goto
  <2>3. QED
    BY <2>1, <2>2 DEF Shape
<1>3. ASSUME NEW c \in Caller, NEW n \in Name, ReloadCall(c, n) PROVE Shape'
  <2>1. SharedShape'
    BY <1>3
    DEF Inv, Shape, SharedShape, CallShape, Instance, ReloadCall, BeginUnload, Goto,
        sharedVars, moduleVars
  <2>2. CallShape'
    BY <1>3
    DEF Inv, Shape, SharedShape, CallShape, Point, Instance, ReloadCall,
        BeginUnload, Goto
  <2>3. QED
    BY <2>1, <2>2 DEF Shape
<1>4. ASSUME NEW c \in Caller, NEW n \in Name, LoadProjectCall(c, n) PROVE Shape'
  <2>1. SharedShape'
    BY <1>4
    DEF Inv, Shape, SharedShape, CallShape, Instance, LoadProjectCall, BeginUnload,
        Goto, sharedVars, moduleVars
  <2>2. CallShape'
    BY <1>4
    DEF Inv, Shape, SharedShape, CallShape, Point, Instance, LoadProjectCall,
        BeginUnload, Goto
  <2>3. QED
    BY <2>1, <2>2 DEF Shape
<1>5. ASSUME NEW c \in Caller, InitFails(c) PROVE Shape'
  <2>1. SharedShape'
    BY <1>5
    DEF Inv, Shape, SharedShape, CallShape, Instance, InitFails, sharedVars,
        moduleVars
  <2>2. CallShape'
    BY <1>5, ReturnShape DEF Inv, Shape, SharedShape, CallShape, InitFails
  <2>3. QED
    BY <2>1, <2>2 DEF Shape
<1>6. ASSUME NEW c \in Caller, Conflict(c) PROVE Shape'
  <2>1. SharedShape'
    BY <1>6
    DEF Inv, Shape, SharedShape, CallShape, Instance, Conflict, sharedVars,
        moduleVars
  <2>2. CallShape'
    BY <1>6, ReturnShape DEF Inv, Shape, SharedShape, CallShape, Conflict
  <2>3. QED
    BY <2>1, <2>2 DEF Shape
<1>7. ASSUME NEW c \in Caller, Activate(c) PROVE Shape'
  <2>1. SharedShape'
    <3>1. state' \in [Instance -> {"none", "loading", "active", "unloading", "removed"}]
      BY <1>7 DEF Inv, Shape, SharedShape, CallShape, Activate
    <3>2. registry' \in [Name -> 0 .. MaxInstance] /\ config' \subseteq Name
      BY <1>7 DEF Inv, Shape, SharedShape, CallShape, Activate, Return
    <3>3. target[c] \in Instance
      BY <1>7 DEF Inv, Shape, CallShape, Instance, CallsOK, CallOK, Working, Activate
    <3>4. entries' \subseteq Instance \X Source /\ loggers' \subseteq Instance
      BY <1>7, <3>3 DEF Inv, Shape, SharedShape, CallShape, Activate
    <3>5. handlers' \in [Source -> 0 .. MaxInstance]
      BY <1>7 DEF Inv, Shape, SharedShape, CallShape, Activate
    <3>6. QED
      BY <1>7, <3>1, <3>2, <3>4, <3>5 DEF Inv, Shape, SharedShape, CallShape, Activate
  <2>2. CallShape'
    <3>1. CASE Return(c)
      BY <3>1, ReturnShape DEF Inv, Shape
    <3>2. CASE ~Return(c)
      BY <1>7, <3>2 DEF Inv, Shape, SharedShape, CallShape, Point, Activate
    <3>3. QED
      BY <3>1, <3>2
  <2>3. QED
    BY <2>1, <2>2 DEF Shape
<1>8. ASSUME NEW c \in Caller, BindSucceeds(c) PROVE Shape'
  <2>1. SharedShape'
    BY <1>8
    DEF Inv, Shape, SharedShape, CallShape, Instance, BindSucceeds, sharedVars,
        moduleVars
  <2>2. CallShape'
    BY <1>8, ReturnShape DEF Inv, Shape, SharedShape, CallShape, BindSucceeds
  <2>3. QED
    BY <2>1, <2>2 DEF Shape
<1>9. ASSUME NEW c \in Caller, BindFails(c) PROVE Shape'
  <2>1. SharedShape'
    BY <1>9
    DEF Inv, Shape, SharedShape, CallShape, Instance, BindFails, sharedVars,
        moduleVars
  <2>2. CallShape'
    BY <1>9, ReturnShape DEF Inv, Shape, SharedShape, CallShape, BindFails
  <2>3. QED
    BY <2>1, <2>2 DEF Shape
<1>10. ASSUME NEW c \in Caller, Withdraw(c) PROVE Shape'
  <2>1. SharedShape'
    <3>1. state' \in [Instance -> {"none", "loading", "active", "unloading", "removed"}]
      BY <1>10 DEF Inv, Shape, SharedShape, CallShape, Withdraw
    <3>2. entries' \subseteq Instance \X Source
      BY <1>10 DEF Inv, Shape, SharedShape, CallShape, Withdraw, Removed
    <3>3. handlers' \in [Source -> 0 .. MaxInstance]
      BY <1>10 DEF Inv, Shape, SharedShape, CallShape, Withdraw
    <3>4. QED
      BY <1>10, <3>1, <3>2, <3>3 DEF Inv, Shape, SharedShape, CallShape, Withdraw
  <2>2. CallShape'
    BY <1>10
    DEF Inv, Shape, SharedShape, CallShape, Point, Instance, Withdraw, Goto, Removed
  <2>3. QED
    BY <2>1, <2>2 DEF Shape
<1>11. ASSUME NEW c \in Caller, Unregister(c) PROVE Shape'
  <2>1. SharedShape'
    <3>1. state' \in [Instance -> {"none", "loading", "active", "unloading", "removed"}]
      BY <1>11 DEF Inv, Shape, SharedShape, CallShape, Unregister
    <3>2. registry' \in [Name -> 0 .. MaxInstance]
      BY <1>11 DEF Inv, Shape, SharedShape, CallShape, Unregister
    <3>3. loggers' \subseteq Instance /\ config' \subseteq Name
      BY <1>11 DEF Inv, Shape, SharedShape, CallShape, Unregister
    <3>4. QED
      BY <1>11, <3>1, <3>2, <3>3 DEF Inv, Shape, SharedShape, CallShape, Unregister
  <2>2. CallShape'
    <3>1. CASE Return(c)
      BY <3>1, ReturnShape DEF Inv, Shape
    <3>2. CASE ~Return(c)
      BY <1>11, <3>2 DEF Inv, Shape, SharedShape, CallShape, Point, Unregister
    <3>3. QED
      BY <3>1, <3>2
  <2>3. QED
    BY <2>1, <2>2 DEF Shape
<1>12. ASSUME NEW c \in Caller, LoadAgain(c) PROVE Shape'
  <2>1. SharedShape'
    BY <1>12
    DEF Inv, Shape, SharedShape, CallShape, Instance, LoadAgain, Build, sharedVars,
        moduleVars
  <2>2. CallShape'
    BY <1>12 DEF Inv, Shape, SharedShape, CallShape, Point, Instance, LoadAgain, Build
  <2>3. QED
    BY <2>1, <2>2 DEF Shape
<1>13. ASSUME NEW c \in Caller, ReloadFails(c) PROVE Shape'
  <2>1. SharedShape'
    BY <1>13
    DEF Inv, Shape, SharedShape, CallShape, Instance, ReloadFails, sharedVars,
        moduleVars
  <2>2. CallShape'
    BY <1>13, ReturnShape DEF Inv, Shape, SharedShape, CallShape, ReloadFails
  <2>3. QED
    BY <2>1, <2>2 DEF Shape
<1>14. ASSUME NEW c \in Caller, StopCall(c) PROVE Shape'
  <2>1. SharedShape'
    BY <1>14
    DEF Inv, Shape, SharedShape, CallShape, Instance, StopCall, Goto, sharedVars,
        moduleVars
  <2>2. CallShape'
    BY <1>14 DEF Inv, Shape, SharedShape, CallShape, Point, Instance, StopCall, Goto
  <2>3. QED
    BY <2>1, <2>2 DEF Shape
<1>15. ASSUME NEW c \in Caller, NEW i \in Pending(c), StopModule(c, i) PROVE Shape'
  <2>1. SharedShape'
    BY <1>15
    DEF Inv, Shape, SharedShape, CallShape, Instance, StopModule, Removed, Pending,
        sharedVars, moduleVars
  <2>2. CallShape'
    BY <1>15
    DEF Inv, Shape, SharedShape, CallShape, Point, Instance, StopModule, Removed,
        Pending
  <2>3. QED
    BY <2>1, <2>2 DEF Shape
<1>16. ASSUME NEW c \in Caller, ModuleStopped(c) PROVE Shape'
  <2>1. SharedShape'
    BY <1>16
    DEF Inv, Shape, SharedShape, CallShape, Instance, ModuleStopped, Goto,
        sharedVars, moduleVars
  <2>2. CallShape'
    BY <1>16 DEF Inv, Shape, SharedShape, CallShape, Point, Instance, ModuleStopped, Goto
  <2>3. QED
    BY <2>1, <2>2 DEF Shape
<1>17. ASSUME NEW c \in Caller, CloseServer(c) PROVE Shape'
  <2>1. SharedShape'
    BY <1>17
    DEF Inv, Shape, SharedShape, CallShape, Instance, CloseServer, sharedVars,
        moduleVars
  <2>2. CallShape'
    BY <1>17 DEF Inv, Shape, SharedShape, CallShape, Point, Instance, CloseServer
  <2>3. QED
    BY <2>1, <2>2 DEF Shape
<1>18. ASSUME NEW c \in Caller, StopEnds(c) PROVE Shape'
  <2>1. SharedShape'
    BY <1>18
    DEF Inv, Shape, SharedShape, CallShape, Instance, StopEnds, sharedVars,
        moduleVars
  <2>2. CallShape'
    BY <1>18, ReturnShape DEF Inv, Shape, SharedShape, CallShape, StopEnds
  <2>3. QED
    BY <2>1, <2>2 DEF Shape
<1>19. QED
  BY <1>1, <1>2, <1>3, <1>4, <1>5, <1>6, <1>7, <1>8, <1>9, <1>10, <1>11, <1>12, <1>13, <1>14, <1>15, <1>16, <1>17, <1>18
  DEF Next, CallFor, LoadStep, UnloadStep, StopStep

LEMMA RegistryOKStep ==
    ASSUME Inv, Next
    PROVE  RegistryOK'
<1> USE LifecycleAssumption, NoNameType
<1>1. ASSUME NEW c \in Caller, NEW n \in Name, LoadCall(c, n) PROVE RegistryOK'
  BY <1>1
  DEF Inv, LoadCall, Build, Shape, SharedShape, CallShape, RegistryOK,
      NobodyKnowsUnbuilt, CallsOK, CallOK, Working, Instance, moduleVars,
      sharedVars, callVars
<1>2. ASSUME NEW c \in Caller, NEW n \in Name, UnloadCall(c, n) PROVE RegistryOK'
  BY <1>2
  DEF Inv, UnloadCall, BeginUnload, Goto, Shape, SharedShape, CallShape,
      RegistryOK, NobodyKnowsUnbuilt, CallsOK, CallOK, Working, Instance,
      moduleVars, sharedVars, callVars
<1>3. ASSUME NEW c \in Caller, NEW n \in Name, ReloadCall(c, n) PROVE RegistryOK'
  BY <1>3
  DEF Inv, ReloadCall, BeginUnload, Goto, Shape, SharedShape, CallShape,
      RegistryOK, NobodyKnowsUnbuilt, CallsOK, CallOK, Working, Instance,
      moduleVars, sharedVars, callVars
<1>4. ASSUME NEW c \in Caller, NEW n \in Name, LoadProjectCall(c, n) PROVE RegistryOK'
  BY <1>4
  DEF Inv, LoadProjectCall, BeginUnload, Goto, Shape, SharedShape, CallShape,
      RegistryOK, NobodyKnowsUnbuilt, CallsOK, CallOK, Working, Instance,
      moduleVars, sharedVars, callVars
<1>5. ASSUME NEW c \in Caller, InitFails(c) PROVE RegistryOK'
  BY <1>5
  DEF Inv, InitFails, Return, Shape, SharedShape, CallShape, RegistryOK,
      NobodyKnowsUnbuilt, CallsOK, CallOK, Working, Instance, moduleVars,
      sharedVars, callVars
<1>6. ASSUME NEW c \in Caller, Conflict(c) PROVE RegistryOK'
  BY <1>6
  DEF Inv, Conflict, Return, Shape, SharedShape, CallShape, RegistryOK,
      NobodyKnowsUnbuilt, CallsOK, CallOK, Working, Instance, moduleVars,
      sharedVars, callVars
<1>7. ASSUME NEW c \in Caller, Activate(c) PROVE RegistryOK'
  BY <1>7
  DEF Inv, Activate, Return, Shape, SharedShape, CallShape, RegistryOK,
      NobodyKnowsUnbuilt, CallsOK, CallOK, Working, Instance, moduleVars,
      sharedVars, callVars
<1>8. ASSUME NEW c \in Caller, BindSucceeds(c) PROVE RegistryOK'
  BY <1>8
  DEF Inv, BindSucceeds, Return, Shape, SharedShape, CallShape, RegistryOK,
      NobodyKnowsUnbuilt, CallsOK, CallOK, Working, Instance, moduleVars,
      sharedVars, callVars
<1>9. ASSUME NEW c \in Caller, BindFails(c) PROVE RegistryOK'
  BY <1>9
  DEF Inv, BindFails, Return, Shape, SharedShape, CallShape, RegistryOK,
      NobodyKnowsUnbuilt, CallsOK, CallOK, Working, Instance, moduleVars,
      sharedVars, callVars
<1>10. ASSUME NEW c \in Caller, Withdraw(c) PROVE RegistryOK'
  BY <1>10
  DEF Inv, Withdraw, Goto, Removed, Shape, SharedShape, CallShape, RegistryOK,
      NobodyKnowsUnbuilt, CallsOK, CallOK, Working, Instance, moduleVars,
      sharedVars, callVars
<1>11. ASSUME NEW c \in Caller, Unregister(c) PROVE RegistryOK'
  BY <1>11
  DEF Inv, Unregister, Return, Shape, SharedShape, CallShape, RegistryOK,
      NobodyKnowsUnbuilt, CallsOK, CallOK, Working, Instance, moduleVars,
      sharedVars, callVars
<1>12. ASSUME NEW c \in Caller, LoadAgain(c) PROVE RegistryOK'
  BY <1>12
  DEF Inv, LoadAgain, Build, Shape, SharedShape, CallShape, RegistryOK,
      NobodyKnowsUnbuilt, CallsOK, CallOK, Working, Instance, moduleVars,
      sharedVars, callVars
<1>13. ASSUME NEW c \in Caller, ReloadFails(c) PROVE RegistryOK'
  BY <1>13
  DEF Inv, ReloadFails, Return, Shape, SharedShape, CallShape, RegistryOK,
      NobodyKnowsUnbuilt, CallsOK, CallOK, Working, Instance, moduleVars,
      sharedVars, callVars
<1>14. ASSUME NEW c \in Caller, StopCall(c) PROVE RegistryOK'
  BY <1>14
  DEF Inv, StopCall, Goto, Shape, SharedShape, CallShape, RegistryOK,
      NobodyKnowsUnbuilt, CallsOK, CallOK, Working, Instance, moduleVars,
      sharedVars, callVars
<1>15. ASSUME NEW c \in Caller, NEW i \in Pending(c), StopModule(c, i) PROVE RegistryOK'
  BY <1>15
  DEF Inv, StopModule, Removed, Pending, Shape, SharedShape, CallShape,
      RegistryOK, NobodyKnowsUnbuilt, CallsOK, CallOK, Working, Instance,
      moduleVars, sharedVars, callVars
<1>16. ASSUME NEW c \in Caller, ModuleStopped(c) PROVE RegistryOK'
  BY <1>16
  DEF Inv, ModuleStopped, Goto, Shape, SharedShape, CallShape, RegistryOK,
      NobodyKnowsUnbuilt, CallsOK, CallOK, Working, Instance, moduleVars,
      sharedVars, callVars
<1>17. ASSUME NEW c \in Caller, CloseServer(c) PROVE RegistryOK'
  BY <1>17
  DEF Inv, CloseServer, Shape, SharedShape, CallShape, RegistryOK,
      NobodyKnowsUnbuilt, CallsOK, CallOK, Working, Instance, moduleVars,
      sharedVars, callVars
<1>18. ASSUME NEW c \in Caller, StopEnds(c) PROVE RegistryOK'
  BY <1>18
  DEF Inv, StopEnds, Return, Shape, SharedShape, CallShape, RegistryOK,
      NobodyKnowsUnbuilt, CallsOK, CallOK, Working, Instance, moduleVars,
      sharedVars, callVars
<1>19. QED
  BY <1>1, <1>2, <1>3, <1>4, <1>5, <1>6, <1>7, <1>8, <1>9, <1>10, <1>11, <1>12, <1>13, <1>14, <1>15, <1>16, <1>17, <1>18
  DEF Next, CallFor, LoadStep, UnloadStep, StopStep

LEMMA NobodyKnowsUnbuiltStep ==
    ASSUME Inv, Next
    PROVE  NobodyKnowsUnbuilt'
<1> USE LifecycleAssumption, NoNameType
<1>1. ASSUME NEW c \in Caller, NEW n \in Name, LoadCall(c, n) PROVE NobodyKnowsUnbuilt'
  BY <1>1
  DEF Inv, LoadCall, Build, Shape, SharedShape, CallShape, NobodyKnowsUnbuilt,
      Instance, moduleVars, sharedVars, callVars
<1>2. ASSUME NEW c \in Caller, NEW n \in Name, UnloadCall(c, n) PROVE NobodyKnowsUnbuilt'
  BY <1>2
  DEF Inv, UnloadCall, BeginUnload, Goto, Shape, SharedShape, CallShape,
      NobodyKnowsUnbuilt, Instance, moduleVars, sharedVars, callVars
<1>3. ASSUME NEW c \in Caller, NEW n \in Name, ReloadCall(c, n) PROVE NobodyKnowsUnbuilt'
  BY <1>3
  DEF Inv, ReloadCall, BeginUnload, Goto, Shape, SharedShape, CallShape,
      NobodyKnowsUnbuilt, Instance, moduleVars, sharedVars, callVars
<1>4. ASSUME NEW c \in Caller, NEW n \in Name, LoadProjectCall(c, n) PROVE NobodyKnowsUnbuilt'
  BY <1>4
  DEF Inv, LoadProjectCall, BeginUnload, Goto, Shape, SharedShape, CallShape,
      NobodyKnowsUnbuilt, Instance, moduleVars, sharedVars, callVars
<1>5. ASSUME NEW c \in Caller, InitFails(c) PROVE NobodyKnowsUnbuilt'
  BY <1>5
  DEF Inv, InitFails, Return, Shape, SharedShape, CallShape,
      NobodyKnowsUnbuilt, Instance, moduleVars, sharedVars, callVars
<1>6. ASSUME NEW c \in Caller, Conflict(c) PROVE NobodyKnowsUnbuilt'
  BY <1>6
  DEF Inv, Conflict, Return, Shape, SharedShape, CallShape, NobodyKnowsUnbuilt,
      Instance, moduleVars, sharedVars, callVars
<1>7. ASSUME NEW c \in Caller, Activate(c) PROVE NobodyKnowsUnbuilt'
  <2>1. built' = built /\ target[c] \in 0 .. built
    BY <1>7 DEF Inv, Shape, SharedShape, CallShape, NobodyKnowsUnbuilt, Activate
  <2>2. \A e \in entries' : e[1] <= built
    BY <1>7, <2>1
    DEF Inv, Shape, SharedShape, CallShape, NobodyKnowsUnbuilt, Activate
  <2>3. \A i \in loggers' : i <= built
    BY <1>7, <2>1
    DEF Inv, Shape, SharedShape, CallShape, NobodyKnowsUnbuilt, Activate
  <2>4. \A n \in Name : registry'[n] <= built
    BY <1>7, <2>1
    DEF Inv, Shape, SharedShape, CallShape, NobodyKnowsUnbuilt, Activate
  <2>5. \A d \in Caller : target'[d] <= built /\ \A i \in list'[d] : i <= built
    BY <1>7, <2>1
    DEF Inv, Shape, SharedShape, CallShape, NobodyKnowsUnbuilt, Activate,
        Return
  <2>6. QED
    BY <2>1, <2>2, <2>3, <2>4, <2>5 DEF NobodyKnowsUnbuilt
<1>8. ASSUME NEW c \in Caller, BindSucceeds(c) PROVE NobodyKnowsUnbuilt'
  BY <1>8
  DEF Inv, BindSucceeds, Return, Shape, SharedShape, CallShape,
      NobodyKnowsUnbuilt, Instance, moduleVars, sharedVars, callVars
<1>9. ASSUME NEW c \in Caller, BindFails(c) PROVE NobodyKnowsUnbuilt'
  BY <1>9
  DEF Inv, BindFails, Return, Shape, SharedShape, CallShape,
      NobodyKnowsUnbuilt, Instance, moduleVars, sharedVars, callVars
<1>10. ASSUME NEW c \in Caller, Withdraw(c) PROVE NobodyKnowsUnbuilt'
  BY <1>10
  DEF Inv, Withdraw, Goto, Removed, Shape, SharedShape, CallShape,
      NobodyKnowsUnbuilt, Instance, moduleVars, sharedVars, callVars
<1>11. ASSUME NEW c \in Caller, Unregister(c) PROVE NobodyKnowsUnbuilt'
  <2>1. built' = built /\ entries' = entries /\ loggers' \subseteq loggers
    BY <1>11 DEF Unregister
  <2>2. \A n \in Name : registry'[n] <= built
    BY <1>11 DEF Inv, Shape, SharedShape, CallShape, NobodyKnowsUnbuilt, Unregister
  <2>3. \A d \in Caller : target'[d] <= built /\ \A i \in list'[d] : i <= built
    BY <1>11
    DEF Inv, Shape, SharedShape, CallShape, NobodyKnowsUnbuilt, Unregister,
        Return
  <2>4. QED
    BY <2>1, <2>2, <2>3 DEF Inv, NobodyKnowsUnbuilt
<1>12. ASSUME NEW c \in Caller, LoadAgain(c) PROVE NobodyKnowsUnbuilt'
  BY <1>12
  DEF Inv, LoadAgain, Build, Shape, SharedShape, CallShape, NobodyKnowsUnbuilt,
      Instance, moduleVars, sharedVars, callVars
<1>13. ASSUME NEW c \in Caller, ReloadFails(c) PROVE NobodyKnowsUnbuilt'
  BY <1>13
  DEF Inv, ReloadFails, Return, Shape, SharedShape, CallShape,
      NobodyKnowsUnbuilt, Instance, moduleVars, sharedVars, callVars
<1>14. ASSUME NEW c \in Caller, StopCall(c) PROVE NobodyKnowsUnbuilt'
  BY <1>14
  DEF Inv, StopCall, Goto, Shape, SharedShape, CallShape, NobodyKnowsUnbuilt,
      Instance, moduleVars, sharedVars, callVars
<1>15. ASSUME NEW c \in Caller, NEW i \in Pending(c), StopModule(c, i) PROVE NobodyKnowsUnbuilt'
  BY <1>15
  DEF Inv, StopModule, Removed, Pending, Shape, SharedShape, CallShape,
      NobodyKnowsUnbuilt, Instance, moduleVars, sharedVars, callVars
<1>16. ASSUME NEW c \in Caller, ModuleStopped(c) PROVE NobodyKnowsUnbuilt'
  BY <1>16
  DEF Inv, ModuleStopped, Goto, Shape, SharedShape, CallShape,
      NobodyKnowsUnbuilt, Instance, moduleVars, sharedVars, callVars
<1>17. ASSUME NEW c \in Caller, CloseServer(c) PROVE NobodyKnowsUnbuilt'
  BY <1>17
  DEF Inv, CloseServer, Shape, SharedShape, CallShape, NobodyKnowsUnbuilt,
      Instance, moduleVars, sharedVars, callVars
<1>18. ASSUME NEW c \in Caller, StopEnds(c) PROVE NobodyKnowsUnbuilt'
  BY <1>18
  DEF Inv, StopEnds, Return, Shape, SharedShape, CallShape, NobodyKnowsUnbuilt,
      Instance, moduleVars, sharedVars, callVars
<1>19. QED
  BY <1>1, <1>2, <1>3, <1>4, <1>5, <1>6, <1>7, <1>8, <1>9, <1>10, <1>11, <1>12, <1>13, <1>14, <1>15, <1>16, <1>17, <1>18
  DEF Next, CallFor, LoadStep, UnloadStep, StopStep

\* A new instance is known to its load alone.
LEMMA BuildCallsOK ==
    ASSUME Inv, NEW c \in Caller, NEW n \in Name, Build(c, n)
    PROVE  CallsOK'
<1>1. built + 1 \in Instance /\ built \in Nat
  BY LifecycleAssumption DEF Inv, Shape, SharedShape, CallShape, Build, Instance
<1>2. CallOK(c)'
  BY <1>1
  DEF Inv, Shape, SharedShape, CallShape, NobodyKnowsUnbuilt, CallsOK, CallOK,
      Working, Build, Instance
<1>3. ASSUME NEW d \in Caller, d # c PROVE CallOK(d)'
  <2>1. target[d] # built + 1 /\ \A i \in list[d] : i # built + 1
    BY <1>1, LifecycleAssumption
    DEF Inv, Shape, SharedShape, CallShape, NobodyKnowsUnbuilt, Instance
  <2>2. QED
    BY <1>1, <1>3, <2>1
    DEF Inv, Shape, SharedShape, CallShape, CallsOK, CallOK, Working, Build,
        Instance
<1>4. \A d \in Caller : target[d] # built + 1
  BY <1>1, LifecycleAssumption
  DEF Inv, Shape, SharedShape, CallShape, NobodyKnowsUnbuilt
<1>5. \A d, e \in Caller : (/\ pc'[d] = "initializing" /\ pc'[e] = "initializing"
                           /\ target'[d] = target'[e]) => d = e
  BY <1>4 DEF Inv, Shape, SharedShape, CallShape, CallsOK, Build
<1>6. QED
  BY <1>2, <1>3, <1>5 DEF CallsOK

\* Shutting an instance down that had come up disturbs no call but its own.
ShutDown ==
    /\ owner' = owner
    /\ \A i \in Instance :
          \/ state'[i] = state[i]
          \/ /\ state[i] \notin {"none", "loading"}
             /\ state'[i] \in {"unloading", "removed"}

LEMMA ShutDownCallOK ==
    ASSUME Inv, ShutDown, NEW d \in Caller,
           UNCHANGED <<pc[d], name[d], target[d], list[d]>>
    PROVE  CallOK(d)'
<1>1. list[d] \subseteq Instance /\ target[d] \in Instance \cup {0}
  BY LifecycleAssumption DEF Inv, Shape, SharedShape, CallShape, Instance
<1>2. CallOK(d)
  BY DEF Inv, CallsOK
<1>3. QED
  BY <1>1, <1>2 DEF CallOK, ShutDown, Working

LEMMA CallsOKStep ==
    ASSUME Inv, Next
    PROVE  CallsOK'
<1> USE LifecycleAssumption, NoNameType
<1>1. ASSUME NEW c \in Caller, NEW n \in Name, LoadCall(c, n) PROVE CallsOK'
  BY <1>1, BuildCallsOK DEF LoadCall
<1>2. ASSUME NEW c \in Caller, NEW n \in Name, UnloadCall(c, n) PROVE CallsOK'
  BY <1>2
  DEF Inv, UnloadCall, BeginUnload, Goto, Shape, SharedShape, CallShape,
      NobodyKnowsUnbuilt, CallsOK, CallOK, Working, RegistryOK, Instance,
      moduleVars, sharedVars, callVars
<1>3. ASSUME NEW c \in Caller, NEW n \in Name, ReloadCall(c, n) PROVE CallsOK'
  BY <1>3
  DEF Inv, ReloadCall, BeginUnload, Goto, Shape, SharedShape, CallShape,
      NobodyKnowsUnbuilt, CallsOK, CallOK, Working, RegistryOK, Instance,
      moduleVars, sharedVars, callVars
<1>4. ASSUME NEW c \in Caller, NEW n \in Name, LoadProjectCall(c, n) PROVE CallsOK'
  BY <1>4
  DEF Inv, LoadProjectCall, BeginUnload, Goto, Shape, SharedShape, CallShape,
      NobodyKnowsUnbuilt, CallsOK, CallOK, Working, RegistryOK, Instance,
      moduleVars, sharedVars, callVars
<1>5. ASSUME NEW c \in Caller, InitFails(c) PROVE CallsOK'
  BY <1>5
  DEF Inv, InitFails, Return, Shape, SharedShape, CallShape,
      NobodyKnowsUnbuilt, CallsOK, CallOK, Working, RegistryOK, Instance,
      moduleVars, sharedVars, callVars
<1>6. ASSUME NEW c \in Caller, Conflict(c) PROVE CallsOK'
  BY <1>6
  DEF Inv, Conflict, Return, Shape, SharedShape, CallShape, NobodyKnowsUnbuilt,
      CallsOK, CallOK, Working, RegistryOK, Instance, moduleVars, sharedVars,
      callVars
<1>7. ASSUME NEW c \in Caller, Activate(c) PROVE CallsOK'
  <2>1. \A d \in Caller \ {c} : CallOK(d)'
    BY <1>7
    DEF Inv, Shape, SharedShape, CallShape, NobodyKnowsUnbuilt, CallsOK,
        CallOK, Working, RegistryOK, Activate, Return, Instance
  <2>2. CallOK(c)'
    BY <1>7
    DEF Inv, Shape, SharedShape, CallShape, NobodyKnowsUnbuilt, CallsOK,
        CallOK, Working, RegistryOK, Activate, Return, Instance
  <2>3. \A d, e \in Caller : (/\ pc'[d] = "initializing" /\ pc'[e] = "initializing"
                             /\ target'[d] = target'[e]) => d = e
    BY <1>7
    DEF Inv, Shape, SharedShape, CallShape, NobodyKnowsUnbuilt, CallsOK,
        CallOK, Working, RegistryOK, Activate, Return
  <2>4. QED
    BY <2>1, <2>2, <2>3 DEF CallsOK
<1>8. ASSUME NEW c \in Caller, BindSucceeds(c) PROVE CallsOK'
  BY <1>8
  DEF Inv, BindSucceeds, Return, Shape, SharedShape, CallShape,
      NobodyKnowsUnbuilt, CallsOK, CallOK, Working, RegistryOK, Instance,
      moduleVars, sharedVars, callVars
<1>9. ASSUME NEW c \in Caller, BindFails(c) PROVE CallsOK'
  BY <1>9
  DEF Inv, BindFails, Return, Shape, SharedShape, CallShape,
      NobodyKnowsUnbuilt, CallsOK, CallOK, Working, RegistryOK, Instance,
      moduleVars, sharedVars, callVars
<1>10. ASSUME NEW c \in Caller, Withdraw(c) PROVE CallsOK'
  BY <1>10
  DEF Inv, Withdraw, Goto, Removed, Shape, SharedShape, CallShape,
      NobodyKnowsUnbuilt, CallsOK, CallOK, Working, RegistryOK, Instance,
      moduleVars, sharedVars, callVars
<1>11. ASSUME NEW c \in Caller, Unregister(c) PROVE CallsOK'
  <2>1. \A d \in Caller \ {c} : CallOK(d)'
    BY <1>11
    DEF Inv, Shape, SharedShape, CallShape, NobodyKnowsUnbuilt, CallsOK,
        CallOK, Working, RegistryOK, Unregister, Return, Instance
  <2>2. CallOK(c)'
    BY <1>11
    DEF Inv, Shape, SharedShape, CallShape, NobodyKnowsUnbuilt, CallsOK,
        CallOK, Working, RegistryOK, Unregister, Return, Instance
  <2>3. \A d, e \in Caller : (/\ pc'[d] = "initializing" /\ pc'[e] = "initializing"
                             /\ target'[d] = target'[e]) => d = e
    BY <1>11
    DEF Inv, Shape, SharedShape, CallShape, NobodyKnowsUnbuilt, CallsOK,
        CallOK, Working, RegistryOK, Unregister, Return
  <2>4. QED
    BY <2>1, <2>2, <2>3 DEF CallsOK
<1>12. ASSUME NEW c \in Caller, LoadAgain(c) PROVE CallsOK'
  <2>1. name[c] \in Name
    BY DEF Inv, Shape, SharedShape, CallShape
  <2>2. QED
    BY <1>12, <2>1, BuildCallsOK DEF LoadAgain
<1>13. ASSUME NEW c \in Caller, ReloadFails(c) PROVE CallsOK'
  BY <1>13
  DEF Inv, ReloadFails, Return, Shape, SharedShape, CallShape,
      NobodyKnowsUnbuilt, CallsOK, CallOK, Working, RegistryOK, Instance,
      moduleVars, sharedVars, callVars
<1>14. ASSUME NEW c \in Caller, StopCall(c) PROVE CallsOK'
  BY <1>14
  DEF Inv, StopCall, Goto, Shape, SharedShape, CallShape, NobodyKnowsUnbuilt,
      CallsOK, CallOK, Working, RegistryOK, Instance, moduleVars, sharedVars,
      callVars
<1>15. ASSUME NEW c \in Caller, NEW i \in Pending(c), StopModule(c, i) PROVE CallsOK'
  <2>1. ShutDown
    BY <1>15
    DEF Inv, Shape, SharedShape, CallShape, NobodyKnowsUnbuilt, CallsOK,
        CallOK, Working, RegistryOK, StopModule, Pending, Instance, ShutDown
  <2>2. \A d \in Caller \ {c} : CallOK(d)'
    <3>1. SUFFICES ASSUME NEW d \in Caller \ {c} PROVE CallOK(d)'
      OBVIOUS
    <3>2. UNCHANGED <<pc[d], name[d], target[d], list[d]>>
      BY <1>15 DEF Inv, Shape, SharedShape, CallShape, StopModule, Pending
    <3>3. QED
      BY <2>1, <3>2, ShutDownCallOK
  <2>3. CallOK(c)'
    <3>1. pc'[c] = "quitting" /\ target'[c] = i /\ list'[c] = Pending(c) \ {i}
      BY <1>15 DEF Inv, Shape, SharedShape, CallShape, StopModule
    <3>2. i \in Instance /\ state'[i] = "unloading"
      BY <1>15 DEF Inv, Shape, SharedShape, CallShape, Instance, StopModule, Pending
    <3>3. \A k \in Pending(c) : k \in Instance /\ state[k] \notin {"none", "loading"}
      BY
      DEF Inv, Shape, SharedShape, CallShape, Instance, RegistryOK, CallsOK,
          CallOK, Pending
    <3>4. QED
      BY <2>1, <3>1, <3>2, <3>3 DEF CallOK, ShutDown, Working, Instance
  <2>4. \A d, e \in Caller : (/\ pc'[d] = "initializing" /\ pc'[e] = "initializing"
                             /\ target'[d] = target'[e]) => d = e
    BY <1>15 DEF Inv, Shape, SharedShape, CallShape, CallsOK, StopModule, Pending
  <2>5. QED
    BY <2>2, <2>3, <2>4 DEF CallsOK
<1>16. ASSUME NEW c \in Caller, ModuleStopped(c) PROVE CallsOK'
  <2>1. ShutDown
    BY <1>16
    DEF Inv, Shape, SharedShape, CallShape, NobodyKnowsUnbuilt, CallsOK,
        CallOK, Working, RegistryOK, ModuleStopped, Goto, sharedVars, Instance,
        ShutDown
  <2>2. \A d \in Caller \ {c} : CallOK(d)'
    <3>1. SUFFICES ASSUME NEW d \in Caller \ {c} PROVE CallOK(d)'
      OBVIOUS
    <3>2. UNCHANGED <<pc[d], name[d], target[d], list[d]>>
      BY <1>16
      DEF Inv, Shape, SharedShape, CallShape, ModuleStopped, Goto, sharedVars
    <3>3. QED
      BY <2>1, <3>2, ShutDownCallOK
  <2>3. CallOK(c)'
    <3>1. pc'[c] = "closing" /\ list'[c] = list[c] /\ list[c] \subseteq Instance
      BY <1>16 DEF Inv, Shape, SharedShape, CallShape, ModuleStopped, Goto
    <3>2. QED
      BY <2>1, <3>1 DEF Inv, CallsOK, CallOK, ShutDown, Working
  <2>4. \A d, e \in Caller : (/\ pc'[d] = "initializing" /\ pc'[e] = "initializing"
                             /\ target'[d] = target'[e]) => d = e
    BY <1>16
    DEF Inv, Shape, SharedShape, CallShape, CallsOK, ModuleStopped, Goto,
        sharedVars
  <2>5. QED
    BY <2>2, <2>3, <2>4 DEF CallsOK
<1>17. ASSUME NEW c \in Caller, CloseServer(c) PROVE CallsOK'
  BY <1>17
  DEF Inv, CloseServer, Shape, SharedShape, CallShape, NobodyKnowsUnbuilt,
      CallsOK, CallOK, Working, RegistryOK, Instance, moduleVars, sharedVars,
      callVars
<1>18. ASSUME NEW c \in Caller, StopEnds(c) PROVE CallsOK'
  BY <1>18
  DEF Inv, StopEnds, Return, Shape, SharedShape, CallShape, NobodyKnowsUnbuilt,
      CallsOK, CallOK, Working, RegistryOK, Instance, moduleVars, sharedVars,
      callVars
<1>19. QED
  BY <1>1, <1>2, <1>3, <1>4, <1>5, <1>6, <1>7, <1>8, <1>9, <1>10, <1>11, <1>12, <1>13, <1>14, <1>15, <1>16, <1>17, <1>18
  DEF Next, CallFor, LoadStep, UnloadStep, StopStep

LEMMA OneUnloadStep ==
    ASSUME Inv, Next
    PROVE  OneUnload'
<1> USE LifecycleAssumption, NoNameType
<1>1. ASSUME NEW c \in Caller, NEW n \in Name, LoadCall(c, n) PROVE OneUnload'
  BY <1>1
  DEF Inv, LoadCall, Build, Shape, SharedShape, CallShape, OneUnload, CallsOK,
      CallOK, Working, Unloading, RegistryOK, NobodyKnowsUnbuilt, Instance,
      moduleVars, sharedVars, callVars
<1>2. ASSUME NEW c \in Caller, NEW n \in Name, UnloadCall(c, n) PROVE OneUnload'
  BY <1>2
  DEF Inv, UnloadCall, BeginUnload, Goto, Shape, SharedShape, CallShape,
      OneUnload, CallsOK, CallOK, Working, Unloading, RegistryOK,
      NobodyKnowsUnbuilt, Instance, moduleVars, sharedVars, callVars
<1>3. ASSUME NEW c \in Caller, NEW n \in Name, ReloadCall(c, n) PROVE OneUnload'
  BY <1>3
  DEF Inv, ReloadCall, BeginUnload, Goto, Shape, SharedShape, CallShape,
      OneUnload, CallsOK, CallOK, Working, Unloading, RegistryOK,
      NobodyKnowsUnbuilt, Instance, moduleVars, sharedVars, callVars
<1>4. ASSUME NEW c \in Caller, NEW n \in Name, LoadProjectCall(c, n) PROVE OneUnload'
  BY <1>4
  DEF Inv, LoadProjectCall, BeginUnload, Goto, Shape, SharedShape, CallShape,
      OneUnload, CallsOK, CallOK, Working, Unloading, RegistryOK,
      NobodyKnowsUnbuilt, Instance, moduleVars, sharedVars, callVars
<1>5. ASSUME NEW c \in Caller, InitFails(c) PROVE OneUnload'
  BY <1>5
  DEF Inv, InitFails, Return, Shape, SharedShape, CallShape, OneUnload,
      CallsOK, CallOK, Working, Unloading, RegistryOK, NobodyKnowsUnbuilt,
      Instance, moduleVars, sharedVars, callVars
<1>6. ASSUME NEW c \in Caller, Conflict(c) PROVE OneUnload'
  BY <1>6
  DEF Inv, Conflict, Return, Shape, SharedShape, CallShape, OneUnload, CallsOK,
      CallOK, Working, Unloading, RegistryOK, NobodyKnowsUnbuilt, Instance,
      moduleVars, sharedVars, callVars
<1>7. ASSUME NEW c \in Caller, Activate(c) PROVE OneUnload'
  <2>1. SUFFICES ASSUME NEW m \in Name, m \notin overlapped,
                        NEW d \in Caller, Unloading(d, m)'
                 PROVE  /\ registry'[m] = target'[d]
                        /\ \A e \in Caller : Unloading(e, m)' => d = e
    BY <1>7 DEF OneUnload, Activate
  <2>2. d # c /\ Unloading(d, m) /\ target'[d] = target[d]
    BY <1>7, <2>1
    DEF Inv, Shape, SharedShape, CallShape, Unloading, Activate, Return
  <2>3. /\ registry[m] = target[d]
        /\ \A e \in Caller : Unloading(e, m) => d = e
    BY <2>1, <2>2 DEF Inv, OneUnload
  <2>4. \A e \in Caller : Unloading(e, m)' => d = e
    BY <1>7, <2>3
    DEF Inv, Shape, SharedShape, CallShape, Unloading, Activate, Return
  <2>5. m # name[c]
    BY <1>7, <2>2, <2>3
    DEF Inv, Shape, SharedShape, CallShape, NobodyKnowsUnbuilt, CallsOK,
        CallOK, Working, RegistryOK, Unloading, Activate
  <2>6. QED
    BY <1>7, <2>2, <2>3, <2>4, <2>5 DEF Inv, Shape, SharedShape, CallShape, Activate
<1>8. ASSUME NEW c \in Caller, BindSucceeds(c) PROVE OneUnload'
  BY <1>8
  DEF Inv, BindSucceeds, Return, Shape, SharedShape, CallShape, OneUnload,
      CallsOK, CallOK, Working, Unloading, RegistryOK, NobodyKnowsUnbuilt,
      Instance, moduleVars, sharedVars, callVars
<1>9. ASSUME NEW c \in Caller, BindFails(c) PROVE OneUnload'
  BY <1>9
  DEF Inv, BindFails, Return, Shape, SharedShape, CallShape, OneUnload,
      CallsOK, CallOK, Working, Unloading, RegistryOK, NobodyKnowsUnbuilt,
      Instance, moduleVars, sharedVars, callVars
<1>10. ASSUME NEW c \in Caller, Withdraw(c) PROVE OneUnload'
  BY <1>10
  DEF Inv, Withdraw, Goto, Removed, Shape, SharedShape, CallShape, OneUnload,
      CallsOK, CallOK, Working, Unloading, RegistryOK, NobodyKnowsUnbuilt,
      Instance, moduleVars, sharedVars, callVars
<1>11. ASSUME NEW c \in Caller, Unregister(c) PROVE OneUnload'
  <2>1. SUFFICES ASSUME NEW m \in Name, m \notin overlapped,
                        NEW d \in Caller, Unloading(d, m)'
                 PROVE  /\ registry'[m] = target'[d]
                        /\ \A e \in Caller : Unloading(e, m)' => d = e
    BY <1>11 DEF OneUnload, Unregister
  <2>2. d # c /\ Unloading(d, m) /\ target'[d] = target[d]
    BY <1>11, <2>1
    DEF Inv, Shape, SharedShape, CallShape, Unloading, Unregister, Return
  <2>3. /\ registry[m] = target[d]
        /\ \A e \in Caller : Unloading(e, m) => d = e
    BY <2>1, <2>2 DEF Inv, OneUnload
  <2>4. \A e \in Caller : Unloading(e, m)' => d = e
    BY <1>11, <2>3
    DEF Inv, Shape, SharedShape, CallShape, Unloading, Unregister, Return
  <2>5. m # name[c]
    BY <1>11, <2>2, <2>3
    DEF Inv, Shape, SharedShape, CallShape, NobodyKnowsUnbuilt, CallsOK,
        CallOK, Working, RegistryOK, Unloading, Unregister
  <2>6. QED
    BY <1>11, <2>2, <2>3, <2>4, <2>5
    DEF Inv, Shape, SharedShape, CallShape, Unregister
<1>12. ASSUME NEW c \in Caller, LoadAgain(c) PROVE OneUnload'
  BY <1>12
  DEF Inv, LoadAgain, Build, Shape, SharedShape, CallShape, OneUnload, CallsOK,
      CallOK, Working, Unloading, RegistryOK, NobodyKnowsUnbuilt, Instance,
      moduleVars, sharedVars, callVars
<1>13. ASSUME NEW c \in Caller, ReloadFails(c) PROVE OneUnload'
  BY <1>13
  DEF Inv, ReloadFails, Return, Shape, SharedShape, CallShape, OneUnload,
      CallsOK, CallOK, Working, Unloading, RegistryOK, NobodyKnowsUnbuilt,
      Instance, moduleVars, sharedVars, callVars
<1>14. ASSUME NEW c \in Caller, StopCall(c) PROVE OneUnload'
  BY <1>14
  DEF Inv, StopCall, Goto, Shape, SharedShape, CallShape, OneUnload, CallsOK,
      CallOK, Working, Unloading, RegistryOK, NobodyKnowsUnbuilt, Instance,
      moduleVars, sharedVars, callVars
<1>15. ASSUME NEW c \in Caller, NEW i \in Pending(c), StopModule(c, i) PROVE OneUnload'
  BY <1>15
  DEF Inv, StopModule, Removed, Pending, Shape, SharedShape, CallShape,
      OneUnload, CallsOK, CallOK, Working, Unloading, RegistryOK,
      NobodyKnowsUnbuilt, Instance, moduleVars, sharedVars, callVars
<1>16. ASSUME NEW c \in Caller, ModuleStopped(c) PROVE OneUnload'
  BY <1>16
  DEF Inv, ModuleStopped, Goto, Shape, SharedShape, CallShape, OneUnload,
      CallsOK, CallOK, Working, Unloading, RegistryOK, NobodyKnowsUnbuilt,
      Instance, moduleVars, sharedVars, callVars
<1>17. ASSUME NEW c \in Caller, CloseServer(c) PROVE OneUnload'
  BY <1>17
  DEF Inv, CloseServer, Shape, SharedShape, CallShape, OneUnload, CallsOK,
      CallOK, Working, Unloading, RegistryOK, NobodyKnowsUnbuilt, Instance,
      moduleVars, sharedVars, callVars
<1>18. ASSUME NEW c \in Caller, StopEnds(c) PROVE OneUnload'
  BY <1>18
  DEF Inv, StopEnds, Return, Shape, SharedShape, CallShape, OneUnload, CallsOK,
      CallOK, Working, Unloading, RegistryOK, NobodyKnowsUnbuilt, Instance,
      moduleVars, sharedVars, callVars
<1>19. QED
  BY <1>1, <1>2, <1>3, <1>4, <1>5, <1>6, <1>7, <1>8, <1>9, <1>10, <1>11, <1>12, <1>13, <1>14, <1>15, <1>16, <1>17, <1>18
  DEF Next, CallFor, LoadStep, UnloadStep, StopStep

LEMMA BuildLeavesNothing ==
    ASSUME Inv, NEW c \in Caller, NEW n \in Name, Build(c, n)
    PROVE  NothingLeftBehind'
<1>1. built + 1 \in Instance /\ built \in Nat
  BY LifecycleAssumption DEF Inv, Shape, SharedShape, CallShape, Build, Instance
<1>2. \A e \in entries : e[1] \in Instance /\ e[1] # built + 1
  BY <1>1, LifecycleAssumption
  DEF Inv, Shape, SharedShape, CallShape, NobodyKnowsUnbuilt, Instance
<1>3. \A i \in loggers : i \in Instance /\ i # built + 1
  BY <1>1, LifecycleAssumption
  DEF Inv, Shape, SharedShape, CallShape, NobodyKnowsUnbuilt, Instance
<1>4. \A i \in Instance \ {built + 1} : owner'[i] = owner[i] /\ state'[i] = state[i]
  BY <1>1 DEF Inv, Shape, SharedShape, CallShape, Build
<1>5. QED
  BY <1>2, <1>3, <1>4 DEF Inv, NothingLeftBehind, Build, sharedVars

LEMMA NothingLeftBehindStep ==
    ASSUME Inv, Next
    PROVE  NothingLeftBehind'
<1> USE LifecycleAssumption, NoNameType
<1>1. ASSUME NEW c \in Caller, NEW n \in Name, LoadCall(c, n) PROVE NothingLeftBehind'
  BY <1>1, BuildLeavesNothing DEF LoadCall
<1>2. ASSUME NEW c \in Caller, NEW n \in Name, UnloadCall(c, n) PROVE NothingLeftBehind'
  BY <1>2
  DEF Inv, UnloadCall, BeginUnload, Goto, Shape, SharedShape, CallShape,
      NothingLeftBehind, OneUnload, Unloading, CallsOK, CallOK, Working,
      RegistryOK, NobodyKnowsUnbuilt, Instance, moduleVars, sharedVars,
      callVars
<1>3. ASSUME NEW c \in Caller, NEW n \in Name, ReloadCall(c, n) PROVE NothingLeftBehind'
  BY <1>3
  DEF Inv, ReloadCall, BeginUnload, Goto, Shape, SharedShape, CallShape,
      NothingLeftBehind, OneUnload, Unloading, CallsOK, CallOK, Working,
      RegistryOK, NobodyKnowsUnbuilt, Instance, moduleVars, sharedVars,
      callVars
<1>4. ASSUME NEW c \in Caller, NEW n \in Name, LoadProjectCall(c, n) PROVE NothingLeftBehind'
  BY <1>4
  DEF Inv, LoadProjectCall, BeginUnload, Goto, Shape, SharedShape, CallShape,
      NothingLeftBehind, OneUnload, Unloading, CallsOK, CallOK, Working,
      RegistryOK, NobodyKnowsUnbuilt, Instance, moduleVars, sharedVars,
      callVars
<1>5. ASSUME NEW c \in Caller, InitFails(c) PROVE NothingLeftBehind'
  BY <1>5
  DEF Inv, InitFails, Return, Shape, SharedShape, CallShape, NothingLeftBehind,
      OneUnload, Unloading, CallsOK, CallOK, Working, RegistryOK,
      NobodyKnowsUnbuilt, Instance, moduleVars, sharedVars, callVars
<1>6. ASSUME NEW c \in Caller, Conflict(c) PROVE NothingLeftBehind'
  BY <1>6
  DEF Inv, Conflict, Return, Shape, SharedShape, CallShape, NothingLeftBehind,
      OneUnload, Unloading, CallsOK, CallOK, Working, RegistryOK,
      NobodyKnowsUnbuilt, Instance, moduleVars, sharedVars, callVars
<1>7. ASSUME NEW c \in Caller, Activate(c) PROVE NothingLeftBehind'
  BY <1>7
  DEF Inv, Activate, Return, Shape, SharedShape, CallShape, NothingLeftBehind,
      OneUnload, Unloading, CallsOK, CallOK, Working, RegistryOK,
      NobodyKnowsUnbuilt, Instance, moduleVars, sharedVars, callVars
<1>8. ASSUME NEW c \in Caller, BindSucceeds(c) PROVE NothingLeftBehind'
  BY <1>8
  DEF Inv, BindSucceeds, Return, Shape, SharedShape, CallShape,
      NothingLeftBehind, OneUnload, Unloading, CallsOK, CallOK, Working,
      RegistryOK, NobodyKnowsUnbuilt, Instance, moduleVars, sharedVars,
      callVars
<1>9. ASSUME NEW c \in Caller, BindFails(c) PROVE NothingLeftBehind'
  BY <1>9
  DEF Inv, BindFails, Return, Shape, SharedShape, CallShape, NothingLeftBehind,
      OneUnload, Unloading, CallsOK, CallOK, Working, RegistryOK,
      NobodyKnowsUnbuilt, Instance, moduleVars, sharedVars, callVars
<1>10. ASSUME NEW c \in Caller, Withdraw(c) PROVE NothingLeftBehind'
  BY <1>10
  DEF Inv, Withdraw, Goto, Removed, Shape, SharedShape, CallShape,
      NothingLeftBehind, OneUnload, Unloading, CallsOK, CallOK, Working,
      RegistryOK, NobodyKnowsUnbuilt, Instance, moduleVars, sharedVars,
      callVars
<1>11. ASSUME NEW c \in Caller, Unregister(c) PROVE NothingLeftBehind'
  <2>1. \A e \in entries : owner[e[1]] = name[c] => name[c] \in overlapped
    <3>1. SUFFICES ASSUME NEW e \in entries, owner[e[1]] = name[c], name[c] \notin overlapped
                   PROVE  FALSE
      OBVIOUS
    <3>2. e[1] = registry[name[c]] /\ state[e[1]] = "active"
      BY <3>1 DEF Inv, Shape, SharedShape, CallShape, NothingLeftBehind
    <3>3. registry[name[c]] = target[c]
      BY <1>11, <3>1
      DEF Inv, Shape, SharedShape, CallShape, OneUnload, Unloading, Unregister
    <3>4. QED
      BY <1>11, <3>2, <3>3 DEF Inv, CallsOK, CallOK, Unregister
  <2>2. target[c] \in Instance /\ owner[target[c]] = name[c]
    BY <1>11
    DEF Inv, Shape, SharedShape, CallShape, Instance, CallsOK, CallOK, Working,
        Unregister
  <2>3. SUFFICES ASSUME NEW m \in Name, m \notin overlapped
                 PROVE  /\ \A e \in entries : owner[e[1]] = m =>
                              e[1] = registry'[m] /\ state'[e[1]] = "active"
                        /\ \A i \in loggers' : owner[i] = m => i = registry'[m]
    BY <1>11 DEF NothingLeftBehind, Unregister
  <2>4. CASE m = name[c]
    BY <1>11, <2>1, <2>3, <2>4 DEF Unregister
  <2>5. CASE m # name[c]
    BY <1>11, <2>2, <2>3, <2>5
    DEF Inv, Shape, SharedShape, CallShape, NothingLeftBehind, Unregister
  <2>6. QED
    BY <2>4, <2>5
<1>12. ASSUME NEW c \in Caller, LoadAgain(c) PROVE NothingLeftBehind'
  <2>1. name[c] \in Name
    BY DEF Inv, Shape, SharedShape, CallShape
  <2>2. QED
    BY <1>12, <2>1, BuildLeavesNothing DEF LoadAgain
<1>13. ASSUME NEW c \in Caller, ReloadFails(c) PROVE NothingLeftBehind'
  BY <1>13
  DEF Inv, ReloadFails, Return, Shape, SharedShape, CallShape,
      NothingLeftBehind, OneUnload, Unloading, CallsOK, CallOK, Working,
      RegistryOK, NobodyKnowsUnbuilt, Instance, moduleVars, sharedVars,
      callVars
<1>14. ASSUME NEW c \in Caller, StopCall(c) PROVE NothingLeftBehind'
  BY <1>14
  DEF Inv, StopCall, Goto, Shape, SharedShape, CallShape, NothingLeftBehind,
      OneUnload, Unloading, CallsOK, CallOK, Working, RegistryOK,
      NobodyKnowsUnbuilt, Instance, moduleVars, sharedVars, callVars
<1>15. ASSUME NEW c \in Caller, NEW i \in Pending(c), StopModule(c, i) PROVE NothingLeftBehind'
  <2>1. i \in Instance
    BY <1>15 DEF Inv, Shape, SharedShape, CallShape, Instance, Pending
  <2>2. entries' \subseteq entries /\ \A e \in entries' : e[1] # i
    BY <1>15 DEF StopModule, Removed
  <2>3. \A e \in entries' : state'[e[1]] = state[e[1]]
    BY <1>15, <2>1, <2>2 DEF Inv, Shape, SharedShape, CallShape, StopModule
  <2>4. QED
    BY <1>15, <2>2, <2>3 DEF Inv, NothingLeftBehind, StopModule
<1>16. ASSUME NEW c \in Caller, ModuleStopped(c) PROVE NothingLeftBehind'
  <2>1. target[c] # 0 /\ state[target[c]] # "active"
    BY <1>16 DEF Inv, CallsOK, CallOK, ModuleStopped, Goto
  <2>2. \A e \in entries : e[1] \in Instance
    BY DEF Inv, Shape, SharedShape, CallShape
  <2>3. \A e \in entries : state[e[1]] = "active" => state'[e[1]] = "active"
    BY <1>16, <2>1, <2>2 DEF Inv, Shape, SharedShape, CallShape, ModuleStopped
  <2>4. QED
    BY <1>16, <2>3 DEF Inv, NothingLeftBehind, ModuleStopped, sharedVars
<1>17. ASSUME NEW c \in Caller, CloseServer(c) PROVE NothingLeftBehind'
  BY <1>17
  DEF Inv, CloseServer, Shape, SharedShape, CallShape, NothingLeftBehind,
      OneUnload, Unloading, CallsOK, CallOK, Working, RegistryOK,
      NobodyKnowsUnbuilt, Instance, moduleVars, sharedVars, callVars
<1>18. ASSUME NEW c \in Caller, StopEnds(c) PROVE NothingLeftBehind'
  BY <1>18
  DEF Inv, StopEnds, Return, Shape, SharedShape, CallShape, NothingLeftBehind,
      OneUnload, Unloading, CallsOK, CallOK, Working, RegistryOK,
      NobodyKnowsUnbuilt, Instance, moduleVars, sharedVars, callVars
<1>19. QED
  BY <1>1, <1>2, <1>3, <1>4, <1>5, <1>6, <1>7, <1>8, <1>9, <1>10, <1>11, <1>12, <1>13, <1>14, <1>15, <1>16, <1>17, <1>18
  DEF Next, CallFor, LoadStep, UnloadStep, StopStep

InService(n) == registry[n] # 0 /\ state[registry[n]] = "active" /\ ~Stopping

Served(n) ==
    /\ \A s \in Polled[n] : <<registry[n], s>> \in entries
    /\ \A s \in Hooked[n] : Exclusive(n, s) => handlers[s] = registry[n]
    /\ registry[n] \in loggers

LEMMA ServedModules ==
    ServedWhileActive <=> \A n \in Name \ overlapped : InService(n) => Served(n)
BY DEF ServedWhileActive, InService, Served

LEMMA ServedModulesNext ==
    ServedWhileActive' <=> \A n \in Name \ overlapped' : InService(n)' => Served(n)'
BY DEF ServedWhileActive, InService, Served

\* A step that leaves registry, scheduler, webhooks and loggers alone and
\* brings no instance of the registry back.
LEMMA StaysServed ==
    ASSUME Inv, Stopping => Stopping', overlapped \subseteq overlapped',
           UNCHANGED <<registry, entries, handlers, loggers>>,
           \A n \in Name : (registry[n] # 0 /\ state'[registry[n]] = "active")
                              => state[registry[n]] = "active"
    PROVE  ServedWhileActive'
<1>1. \A n \in Name : InService(n)' => InService(n)
  BY DEF InService
<1>2. \A n \in Name : Served(n) => Served(n)'
  BY DEF Served, Exclusive
<1>3. QED
  BY <1>1, <1>2, ServedModules, ServedModulesNext DEF Inv

LEMMA BuildStaysServed ==
    ASSUME Inv, NEW c \in Caller, NEW n \in Name, Build(c, n),
           pc[c] \in {"idle", "removed"}
    PROVE  ServedWhileActive'
<1>1. Stopping => Stopping'
  BY DEF Inv, Shape, SharedShape, CallShape, Stopping, Build, sharedVars
<1>2. \A m \in Name : registry[m] \in 0 .. MaxInstance /\ registry[m] # built + 1
  BY LifecycleAssumption DEF Inv, Shape, SharedShape, CallShape, NobodyKnowsUnbuilt
<1>3. \A m \in Name : (registry[m] # 0 /\ state'[registry[m]] = "active")
                         => state[registry[m]] = "active"
  BY <1>2, LifecycleAssumption
  DEF Inv, Shape, SharedShape, CallShape, Build, Instance
<1>4. QED
  BY <1>1, <1>3, StaysServed DEF Build, sharedVars

LEMMA ServedWhileActiveStep ==
    ASSUME Inv, Next
    PROVE  ServedWhileActive'
<1>1. ASSUME NEW c \in Caller, NEW n \in Name, LoadCall(c, n) PROVE ServedWhileActive'
  BY <1>1, BuildStaysServed DEF LoadCall
<1>2. ASSUME NEW c \in Caller, NEW n \in Name, UnloadCall(c, n) PROVE ServedWhileActive'
  <2>1. Stopping => Stopping'
    BY <1>2
    DEF Inv, Shape, SharedShape, CallShape, Stopping, UnloadCall, BeginUnload,
        Goto, sharedVars
  <2>2. QED
    BY <1>2, <2>1, StaysServed
    DEF Inv, Shape, SharedShape, CallShape, NobodyKnowsUnbuilt, CallsOK,
        CallOK, Working, RegistryOK, Instance, UnloadCall, BeginUnload, Goto,
        sharedVars, moduleVars, callVars
<1>3. ASSUME NEW c \in Caller, NEW n \in Name, ReloadCall(c, n) PROVE ServedWhileActive'
  <2>1. Stopping => Stopping'
    BY <1>3
    DEF Inv, Shape, SharedShape, CallShape, Stopping, ReloadCall, BeginUnload,
        Goto, sharedVars
  <2>2. QED
    BY <1>3, <2>1, StaysServed
    DEF Inv, Shape, SharedShape, CallShape, NobodyKnowsUnbuilt, CallsOK,
        CallOK, Working, RegistryOK, Instance, ReloadCall, BeginUnload, Goto,
        sharedVars, moduleVars, callVars
<1>4. ASSUME NEW c \in Caller, NEW n \in Name, LoadProjectCall(c, n) PROVE ServedWhileActive'
  <2>1. Stopping => Stopping'
    BY <1>4
    DEF Inv, Shape, SharedShape, CallShape, Stopping, LoadProjectCall,
        BeginUnload, Goto, sharedVars
  <2>2. QED
    BY <1>4, <2>1, StaysServed
    DEF Inv, Shape, SharedShape, CallShape, NobodyKnowsUnbuilt, CallsOK,
        CallOK, Working, RegistryOK, Instance, LoadProjectCall, BeginUnload,
        Goto, sharedVars, moduleVars, callVars
<1>5. ASSUME NEW c \in Caller, InitFails(c) PROVE ServedWhileActive'
  <2>1. Stopping => Stopping'
    BY <1>5
    DEF Inv, Shape, SharedShape, CallShape, Stopping, InitFails, Return,
        sharedVars
  <2>2. QED
    BY <1>5, <2>1, StaysServed
    DEF Inv, Shape, SharedShape, CallShape, NobodyKnowsUnbuilt, CallsOK,
        CallOK, Working, RegistryOK, Instance, InitFails, Return, sharedVars,
        moduleVars, callVars
<1>6. ASSUME NEW c \in Caller, Conflict(c) PROVE ServedWhileActive'
  <2>1. Stopping => Stopping'
    BY <1>6
    DEF Inv, Shape, SharedShape, CallShape, Stopping, Conflict, Return,
        sharedVars
  <2>2. QED
    BY <1>6, <2>1, StaysServed
    DEF Inv, Shape, SharedShape, CallShape, NobodyKnowsUnbuilt, CallsOK,
        CallOK, Working, RegistryOK, Instance, Conflict, Return, sharedVars,
        moduleVars, callVars
<1>7. ASSUME NEW c \in Caller, Activate(c) PROVE ServedWhileActive'
  <2>1. Stopping => Stopping'
    BY <1>7 DEF Inv, Shape, SharedShape, CallShape, Stopping, Activate, Return
  <2>2. ASSUME NEW m \in Name, m # name[c], m \notin overlapped, InService(m)'
        PROVE  Served(m)'
    <3>1. registry'[m] = registry[m] /\ owner[registry[m]] = m
      BY <1>7, <2>2
      DEF Inv, Shape, SharedShape, CallShape, RegistryOK, InService, Activate
    <3>2. InService(m)
      BY <1>7, <2>1, <2>2, <3>1
      DEF Inv, Shape, SharedShape, CallShape, InService, CallsOK, CallOK,
          Working, Activate
    <3>3. Served(m)
      BY <2>2, <3>2, ServedModules DEF Inv
    <3>4. QED
      BY <1>7, <2>2, <3>1, <3>3, LifecycleAssumption
      DEF Inv, Shape, SharedShape, CallShape, Served, Exclusive, Activate
  <2>3. ASSUME NEW m \in Name, m = name[c] PROVE Served(m)'
    <3>1. registry'[m] = target[c]
      BY <1>7, <2>3 DEF Inv, Shape, SharedShape, CallShape, Activate
    <3>2. QED
      BY <1>7, <2>3, <3>1, LifecycleAssumption DEF Served, Activate
  <2>4. QED
    BY <1>7, <2>2, <2>3, ServedModulesNext DEF Activate
<1>8. ASSUME NEW c \in Caller, BindSucceeds(c) PROVE ServedWhileActive'
  <2>1. Stopping => Stopping'
    BY <1>8
    DEF Inv, Shape, SharedShape, CallShape, Stopping, BindSucceeds, Return,
        sharedVars
  <2>2. QED
    BY <1>8, <2>1, StaysServed
    DEF Inv, Shape, SharedShape, CallShape, NobodyKnowsUnbuilt, CallsOK,
        CallOK, Working, RegistryOK, Instance, BindSucceeds, Return,
        sharedVars, moduleVars, callVars
<1>9. ASSUME NEW c \in Caller, BindFails(c) PROVE ServedWhileActive'
  <2>1. Stopping => Stopping'
    BY <1>9
    DEF Inv, Shape, SharedShape, CallShape, Stopping, BindFails, Return,
        sharedVars
  <2>2. QED
    BY <1>9, <2>1, StaysServed
    DEF Inv, Shape, SharedShape, CallShape, NobodyKnowsUnbuilt, CallsOK,
        CallOK, Working, RegistryOK, Instance, BindFails, Return, sharedVars,
        moduleVars, callVars
<1>10. ASSUME NEW c \in Caller, Withdraw(c) PROVE ServedWhileActive'
  <2>1. Stopping => Stopping'
    BY <1>10
    DEF Inv, Shape, SharedShape, CallShape, Stopping, Withdraw, Goto, Removed,
        sharedVars
  <2>2. SUFFICES ASSUME NEW m \in Name, m \notin overlapped, InService(m)'
                 PROVE  Served(m)'
    BY <1>10, ServedModulesNext DEF Withdraw
  <2>3. target[c] \in Instance /\ owner[target[c]] = name[c]
    BY <1>10
    DEF Inv, Shape, SharedShape, CallShape, Instance, CallsOK, CallOK, Working,
        Withdraw, Goto
  <2>4. m # name[c]
    BY <1>10, <2>2, <2>3
    DEF Inv, Shape, SharedShape, CallShape, InService, OneUnload, Unloading,
        Withdraw, Goto
  <2>5. registry'[m] = registry[m] /\ owner[registry[m]] = m
    BY <1>10, <2>2, <2>4
    DEF Inv, Shape, SharedShape, CallShape, RegistryOK, InService, Withdraw
  <2>6. InService(m)
    BY <1>10, <2>1, <2>2, <2>3, <2>4, <2>5
    DEF Inv, Shape, SharedShape, CallShape, InService, Withdraw
  <2>7. Served(m)
    BY <2>2, <2>6, ServedModules DEF Inv
  <2>8. QED
    BY <1>10, <2>2, <2>4, <2>5, <2>7, LifecycleAssumption
    DEF Inv, Shape, SharedShape, CallShape, Served, Exclusive, Removed, Withdraw
<1>11. ASSUME NEW c \in Caller, Unregister(c) PROVE ServedWhileActive'
  <2>1. Stopping => Stopping'
    BY <1>11
    DEF Inv, Shape, SharedShape, CallShape, Stopping, Unregister, Return,
        sharedVars
  <2>2. SUFFICES ASSUME NEW m \in Name, m \notin overlapped, InService(m)'
                 PROVE  Served(m)'
    BY <1>11, ServedModulesNext DEF Unregister
  <2>3. target[c] \in Instance /\ owner[target[c]] = name[c]
    BY <1>11
    DEF Inv, Shape, SharedShape, CallShape, Instance, CallsOK, CallOK, Working,
        Unregister, Goto
  <2>4. m # name[c]
    BY <1>11, <2>2, <2>3
    DEF Inv, Shape, SharedShape, CallShape, InService, OneUnload, Unloading,
        Unregister, Goto
  <2>5. registry'[m] = registry[m] /\ owner[registry[m]] = m
    BY <1>11, <2>2, <2>4
    DEF Inv, Shape, SharedShape, CallShape, RegistryOK, InService, Unregister
  <2>6. InService(m)
    BY <1>11, <2>1, <2>2, <2>3, <2>4, <2>5
    DEF Inv, Shape, SharedShape, CallShape, InService, Unregister
  <2>7. Served(m)
    BY <2>2, <2>6, ServedModules DEF Inv
  <2>8. QED
    BY <1>11, <2>2, <2>4, <2>5, <2>7, LifecycleAssumption
    DEF Inv, Shape, SharedShape, CallShape, Served, Exclusive, Removed, Unregister
<1>12. ASSUME NEW c \in Caller, LoadAgain(c) PROVE ServedWhileActive'
  <2>1. name[c] \in Name
    BY DEF Inv, Shape, SharedShape, CallShape
  <2>2. QED
    BY <1>12, <2>1, BuildStaysServed DEF LoadAgain
<1>13. ASSUME NEW c \in Caller, ReloadFails(c) PROVE ServedWhileActive'
  <2>1. Stopping => Stopping'
    BY <1>13
    DEF Inv, Shape, SharedShape, CallShape, Stopping, ReloadFails, Return,
        sharedVars
  <2>2. QED
    BY <1>13, <2>1, StaysServed
    DEF Inv, Shape, SharedShape, CallShape, NobodyKnowsUnbuilt, CallsOK,
        CallOK, Working, RegistryOK, Instance, ReloadFails, Return, sharedVars,
        moduleVars, callVars
<1>14. ASSUME NEW c \in Caller, StopCall(c) PROVE ServedWhileActive'
  <2>1. Stopping => Stopping'
    BY <1>14
    DEF Inv, Shape, SharedShape, CallShape, Stopping, StopCall, Goto,
        sharedVars
  <2>2. QED
    BY <1>14, <2>1, StaysServed
    DEF Inv, Shape, SharedShape, CallShape, NobodyKnowsUnbuilt, CallsOK,
        CallOK, Working, RegistryOK, Instance, StopCall, Goto, sharedVars,
        moduleVars, callVars
<1>15. ASSUME NEW c \in Caller, NEW i \in Pending(c), StopModule(c, i) PROVE ServedWhileActive'
  <2>1. Stopping'
    BY <1>15 DEF Inv, Shape, SharedShape, CallShape, Stopping, StopModule
  <2>2. QED
    BY <2>1 DEF ServedWhileActive
<1>16. ASSUME NEW c \in Caller, ModuleStopped(c) PROVE ServedWhileActive'
  <2>1. Stopping => Stopping'
    BY <1>16
    DEF Inv, Shape, SharedShape, CallShape, Stopping, ModuleStopped, Goto,
        sharedVars
  <2>2. QED
    BY <1>16, <2>1, StaysServed
    DEF Inv, Shape, SharedShape, CallShape, NobodyKnowsUnbuilt, CallsOK,
        CallOK, Working, RegistryOK, Instance, ModuleStopped, Goto, sharedVars,
        moduleVars, callVars
<1>17. ASSUME NEW c \in Caller, CloseServer(c) PROVE ServedWhileActive'
  <2>1. Stopping => Stopping'
    BY <1>17
    DEF Inv, Shape, SharedShape, CallShape, Stopping, CloseServer, sharedVars
  <2>2. QED
    BY <1>17, <2>1, StaysServed
    DEF Inv, Shape, SharedShape, CallShape, NobodyKnowsUnbuilt, CallsOK,
        CallOK, Working, RegistryOK, Instance, CloseServer, sharedVars,
        moduleVars, callVars
<1>18. ASSUME NEW c \in Caller, StopEnds(c) PROVE ServedWhileActive'
  <2>1. Stopping => Stopping'
    BY <1>18
    DEF Inv, Shape, SharedShape, CallShape, Stopping, StopEnds, Return,
        sharedVars
  <2>2. QED
    BY <1>18, <2>1, StaysServed
    DEF Inv, Shape, SharedShape, CallShape, NobodyKnowsUnbuilt, CallsOK,
        CallOK, Working, RegistryOK, Instance, StopEnds, Return, sharedVars,
        moduleVars, callVars
<1>19. QED
  BY <1>1, <1>2, <1>3, <1>4, <1>5, <1>6, <1>7, <1>8, <1>9, <1>10, <1>11, <1>12, <1>13, <1>14, <1>15, <1>16, <1>17, <1>18
  DEF Next, CallFor, LoadStep, UnloadStep, StopStep

LEMMA InvInit == Init => Inv
<1>1. Init => Shape
  BY NoNameType, LifecycleAssumption
  DEF Init, Shape, SharedShape, CallShape, Instance, Point
<1>2. Init => /\ RegistryOK /\ NobodyKnowsUnbuilt /\ CallsOK
              /\ OneUnload /\ NothingLeftBehind /\ ServedWhileActive
  BY NoNameType, LifecycleAssumption
  DEF Init, RegistryOK, NobodyKnowsUnbuilt, CallsOK, CallOK, Working, OneUnload,
      Unloading, NothingLeftBehind, ServedWhileActive, Instance
<1>3. QED
  BY <1>1, <1>2 DEF Inv

LEMMA InvStep == Inv /\ [Next]_vars => Inv'
<1>1. ASSUME Inv, Next PROVE Inv'
  BY <1>1, ShapeStep, RegistryOKStep, NobodyKnowsUnbuiltStep, CallsOKStep,
     OneUnloadStep, NothingLeftBehindStep, ServedWhileActiveStep DEF Inv
<1>2. ASSUME Inv, UNCHANGED vars PROVE Inv'
  BY <1>2
  DEF Inv, Shape, SharedShape, CallShape, RegistryOK, NobodyKnowsUnbuilt,
      CallsOK, CallOK,
     OneUnload, Unloading, NothingLeftBehind, ServedWhileActive, Stopping,
     vars, moduleVars, sharedVars, callVars
<1>3. QED
  BY <1>1, <1>2

LEMMA Invariance == Spec => []Inv
<1>1. Init => Inv
  BY InvInit
<1>2. Inv /\ [Next]_vars => Inv'
  BY InvStep
<1>3. QED
  BY <1>1, <1>2, PTL DEF Spec

(***************************************************************************)
(* The theorems.                                                           *)
(***************************************************************************)

\* Every variable keeps its type, and the registry holds only instances of
\* the right module whose initialization is over.
THEOREM TypeCorrect == Spec => []TypeOK
<1>1. Inv => TypeOK
  BY DEF Inv, Shape, SharedShape, CallShape, RegistryOK, TypeOK
<1>2. QED
  BY <1>1, Invariance, PTL

\* The scheduler and the log fan-out keep nothing of an instance that is out
\* of service (Withdraw and Unregister take away by the module's name what
\* Activate gave the instance), if no two unloads of the module overlap.
THEOREM LeavesNothingBehind == Spec => []NothingLeftBehind
<1>1. Inv => NothingLeftBehind
  BY DEF Inv
<1>2. QED
  BY <1>1, Invariance, PTL

\* Loading, unloading and reloading other modules takes nothing away from a
\* module in service, webhook ids that two modules share apart.
THEOREM ModulesAreServed == Spec => []ServedWhileActive
<1>1. Inv => ServedWhileActive
  BY DEF Inv
<1>2. QED
  BY <1>1, Invariance, PTL

\* Modules whose webhook sources have ids of their own do not affect one
\* another: whatever is loaded, unloaded and reloaded beside a module in service,
\* somebody answers its webhooks, as multi-module-runtime.test.ts has it.
THEOREM OwnHooksUnaffected ==
    ASSUME \A m, n \in Name : m # n => Hooked[m] \cap Hooked[n] = {}
    PROVE  Spec => []OthersUnaffected
<1>1. Inv => OthersUnaffected
  BY DEF Inv, ServedWhileActive, Exclusive, OthersUnaffected
<1>2. QED
  BY <1>1, Invariance, PTL
==============================================================================
