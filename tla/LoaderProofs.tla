---------------------------- MODULE LoaderProofs -----------------------------
(***************************************************************************)
(* TLAPS proofs about Loader, for every set of files and package size: the *)
(* dependency count is exact and main finds its files.                     *)
(***************************************************************************)
EXTENDS Loader, FiniteSetTheorems, TLAPS

USE LoaderAssumption

-----------------------------------------------------------------------------
(* What the package's routines do to the fields of Module.                 *)

LEMMA FilesCount == Cardinality(Files) \in Nat /\ Cardinality({}) = 0
BY FS_CardinalityType, FS_EmptySet

LEMMA Cancelled ==
  ASSUME NEW n \in Int, NEW k \in Nat
  PROVE  n + k + 1 - k - 1 = n
OBVIOUS

\* Module stays typed when the package's fields are given other values.
LEMMA RetypedDeps ==
  ASSUME NEW s \in Module, NEW n \in Int
  PROVE  [s EXCEPT !.deps = n] \in Module
BY DEF Module

LEMMA RetypedOpen ==
  ASSUME NEW s \in Module, NEW n \in Int
  PROVE  [s EXCEPT !.requests = Files, !.deps = n] \in Module
BY DEF Module

LEMMA RetypedPreRun ==
  ASSUME NEW s \in Module, NEW n \in Int
  PROVE  [s EXCEPT !.preRun = {}, !.deps = n] \in Module
BY DEF Module

LEMMA RetypedQueue ==
  ASSUME NEW s \in Module, NEW q, q \subseteq {"writeKernel", "runWithFS"}
  PROVE  [s EXCEPT !.preRun = q] \in Module
BY DEF Module

LEMMA RetypedHeld ==
  ASSUME NEW s \in Module, NEW e \in 0 .. 1, NEW b \in BOOLEAN
  PROVE  [s EXCEPT !.expected = e, !.fetched = b] \in Module
BY DEF Module

LEMMA RetypedFinish ==
  ASSUME NEW s \in Module, NEW n \in Int, NEW f, f \subseteq Files \cup {Kernel}
  PROVE  [s EXCEPT !.fs = f, !.deps = n, !.requests = {}] \in Module
BY DEF Module

LEMMA OpenAllFields ==
  ASSUME NEW s \in Module
  PROVE  /\ OpenAll(s) \in Module /\ OpenAll(s).fs = s.fs /\ OpenAll(s).preRun = s.preRun
         /\ OpenAll(s).fetched = s.fetched /\ OpenAll(s).fetchedCallback = s.fetchedCallback
         /\ OpenAll(s).requests = Files /\ OpenAll(s).deps = s.deps + Cardinality(Files)
<1>1. s.deps + Cardinality(Files) \in Int
  BY FilesCount DEF Module
<1>2. OpenAll(s) = [s EXCEPT !.requests = Files, !.deps = s.deps + Cardinality(Files)]
  BY DEF OpenAll, Module
<1>3. OpenAll(s) \in Module
  BY <1>1, <1>2, RetypedOpen
<1>. QED
  BY <1>2, <1>3 DEF Module

LEMMA ProcessFields ==
  ASSUME NEW s \in Module, s.requests = Files
  PROVE  LET r == ProcessPackageData(s)
         IN  /\ r \in Module /\ r.preRun = s.preRun /\ r.fetched = s.fetched
             /\ r.fetchedCallback = s.fetchedCallback /\ r.requests = {}
             /\ r.fs = s.fs \cup Files /\ r.deps = s.deps - Cardinality(Files) - 1
<1>. DEFINE left == s.deps - Cardinality(Files)
            stored == s.fs \cup Files
<1>1. left \in Int /\ left - 1 \in Int /\ stored \subseteq Files \cup {Kernel}
  BY FilesCount DEF Module
<1>2. FinishAll(s) = [s EXCEPT !.fs = stored, !.deps = left, !.requests = {}]
  BY DEF FinishAll, Module
<1>. HIDE DEF left, stored
<1>3. [s EXCEPT !.fs = stored, !.deps = left, !.requests = {}] \in Module
  BY <1>1, RetypedFinish
<1>4. /\ FinishAll(s) \in Module /\ FinishAll(s).preRun = s.preRun
      /\ FinishAll(s).fetched = s.fetched /\ FinishAll(s).fetchedCallback = s.fetchedCallback
      /\ FinishAll(s).requests = {} /\ FinishAll(s).fs = stored /\ FinishAll(s).deps = left
  BY <1>2, <1>3 DEF Module
<1>5. ProcessPackageData(s) = [FinishAll(s) EXCEPT !.deps = left - 1]
  BY <1>4 DEF ProcessPackageData
<1>6. [FinishAll(s) EXCEPT !.deps = left - 1] \in Module
  BY <1>1, <1>4, RetypedDeps
<1>7. /\ ProcessPackageData(s).preRun = s.preRun /\ ProcessPackageData(s).fetched = s.fetched
      /\ ProcessPackageData(s).fetchedCallback = s.fetchedCallback
      /\ ProcessPackageData(s).requests = {} /\ ProcessPackageData(s).fs = stored
      /\ ProcessPackageData(s).deps = left - 1
  BY <1>4, <1>5 DEF Module
<1>. QED
  BY <1>5, <1>6, <1>7 DEF left, stored

\* Opening counts every file and the package; processing takes both counts back.
LEMMA RunWithFSFields ==
  ASSUME NEW s \in Module, ~s.fetchedCallback, s.requests = {}
  PROVE  /\ RunWithFS(s) \in Module
         /\ RunWithFS(s).preRun = s.preRun /\ ~RunWithFS(s).fetched
         /\ s.fetched =>
              /\ RunWithFS(s).deps = s.deps /\ RunWithFS(s).requests = {}
              /\ ~RunWithFS(s).fetchedCallback /\ RunWithFS(s).fs = s.fs \cup Files
         /\ ~s.fetched =>
              /\ RunWithFS(s).deps = s.deps + Cardinality(Files) + 1
              /\ RunWithFS(s).requests = Files
              /\ RunWithFS(s).fetchedCallback /\ RunWithFS(s).fs = s.fs
<1>. DEFINE waiting == [OpenAll(s) EXCEPT !.deps = @ + 1]
<1>1. /\ waiting \in Module /\ waiting.fs = s.fs /\ waiting.preRun = s.preRun
      /\ waiting.fetched = s.fetched /\ waiting.fetchedCallback = s.fetchedCallback
      /\ waiting.requests = Files /\ waiting.deps = s.deps + Cardinality(Files) + 1
  BY OpenAllFields, FilesCount DEF Module
<1>2. RunWithFS(s) =
        IF s.fetched THEN [ProcessPackageData(waiting) EXCEPT !.fetched = FALSE]
        ELSE [waiting EXCEPT !.fetchedCallback = TRUE]
  BY DEF RunWithFS
<1>. HIDE DEF waiting
<1>3. CASE s.fetched
  <2>. DEFINE done == ProcessPackageData(waiting)
  <2>1. /\ done \in Module /\ done.preRun = s.preRun /\ ~done.fetchedCallback
        /\ done.requests = {} /\ done.fs = s.fs \cup Files
        /\ done.deps = waiting.deps - Cardinality(Files) - 1
    BY <1>1, ProcessFields
  <2>. HIDE DEF done
  <2>2. done.deps = s.deps
    <3>1. s.deps \in Int
      BY DEF Module
    <3>2. waiting.deps = s.deps + Cardinality(Files) + 1
      BY <1>1
    <3>3. done.deps = waiting.deps - Cardinality(Files) - 1
      BY <2>1
    <3>. QED
      BY <3>1, <3>2, <3>3, FilesCount, Cancelled
  <2>3. RunWithFS(s) = [done EXCEPT !.fetched = FALSE]
    BY <1>2, <1>3 DEF done
  <2>. QED
    BY <1>3, <2>1, <2>2, <2>3 DEF Module
<1>4. CASE ~s.fetched
  BY <1>1, <1>2, <1>4, ZenonT(60) DEF Module
<1>. QED
  BY <1>3, <1>4

-----------------------------------------------------------------------------
(* What is true of Module when w and p count the wasm and the workers that *)
(* are waited for.                                                         *)

\* The package is taken care of: queued, waited for, or unpacked.
PackageHeld(s) == "runWithFS" \in s.preRun \/ s.fetchedCallback \/ Files \subseteq s.fs

Shared(s) ==
  /\ s \in Module
  /\ ~(s.fetched /\ s.fetchedCallback)
  /\ s.requests = IF s.fetchedCallback THEN Files ELSE {}
  /\ "runWithFS" \in s.preRun => ~s.fetchedCallback
  /\ "writeKernel" \in s.preRun \/ Kernel \in s.fs

Exact(s, w, p) ==
  s.deps = Waiting(w) + Waiting(p) + Cardinality(s.requests) + Waiting(s.fetchedCallback)

LEMMA PreRunFields ==
  ASSUME NEW s, Shared(s), NEW pool \in {"none", "pending", "ready"}, NEW w \in BOOLEAN,
         Exact(s, w, pool = "pending")
  PROVE  /\ Shared(PreRun(s, pool)) /\ PreRun(s, pool).preRun = {}
         /\ Exact(PreRun(s, pool), w, pool # "ready")
         /\ PackageHeld(s) => PackageHeld(PreRun(s, pool))
         /\ s.fs \subseteq PreRun(s, pool).fs
<1>. DEFINE package == IF "runWithFS" \in s.preRun THEN RunWithFS(s) ELSE s
            kernel  == IF "writeKernel" \in s.preRun THEN WriteKernel(package) ELSE package
<1>. s \in Module
  BY DEF Shared
<1>1. /\ package \in Module /\ package.preRun = s.preRun
      /\ ~(package.fetched /\ package.fetchedCallback)
      /\ package.requests = IF package.fetchedCallback THEN Files ELSE {}
      /\ s.fs \subseteq package.fs
      /\ package.deps =
           s.deps + (Cardinality(package.requests) + Waiting(package.fetchedCallback))
                  - (Cardinality(s.requests) + Waiting(s.fetchedCallback))
      /\ PackageHeld(s) => package.fetchedCallback \/ Files \subseteq package.fs
  <2>1. CASE "runWithFS" \in s.preRun
    <3>1. /\ package = RunWithFS(s) /\ ~s.fetchedCallback /\ s.requests = {}
          /\ Cardinality(s.requests) = 0 /\ Waiting(s.fetchedCallback) = 0 /\ s.deps \in Int
      BY <2>1, FilesCount DEF Shared, Waiting, Module
    <3>. HIDE DEF package
    <3>2. CASE s.fetched
      <4>1. Cardinality(package.requests) = 0 /\ Waiting(package.fetchedCallback) = 0
        BY <3>1, <3>2, RunWithFSFields, FilesCount DEF Waiting
      <4>2. /\ package \in Module /\ package.preRun = s.preRun /\ package.requests = {}
            /\ package.deps = s.deps /\ ~package.fetchedCallback /\ package.fs = s.fs \cup Files
        BY <3>1, <3>2, RunWithFSFields
      <4>. QED
        BY <3>1, <4>1, <4>2
    <3>3. CASE ~s.fetched
      <4>1. /\ Cardinality(package.requests) = Cardinality(Files)
            /\ Waiting(package.fetchedCallback) = 1
        BY <3>1, <3>3, RunWithFSFields DEF Waiting
      <4>. QED
        BY <3>1, <3>3, <4>1, RunWithFSFields, FilesCount
    <3>. QED
      BY <3>2, <3>3
  <2>2. CASE "runWithFS" \notin s.preRun
    <3>1. package = s /\ s.deps \in Int
      BY <2>2 DEF Module
    <3>2. Cardinality(s.requests) + Waiting(s.fetchedCallback) \in Int
      BY FilesCount DEF Shared, Waiting
    <3>. QED
      BY <2>2, <3>1, <3>2 DEF Shared, PackageHeld
  <2>. QED
    BY <2>1, <2>2
<1>2. /\ kernel \in Module /\ Kernel \in kernel.fs /\ package.fs \subseteq kernel.fs
      /\ kernel.fetched = package.fetched /\ kernel.fetchedCallback = package.fetchedCallback
      /\ kernel.requests = package.requests /\ kernel.deps = package.deps
  BY <1>1 DEF WriteKernel, Shared, Module
<1>3. PreRun(s, pool) =
        [kernel EXCEPT !.preRun = {}, !.deps = IF pool = "none" THEN @ + 1 ELSE @]
  BY DEF PreRun
<1>. HIDE DEF package, kernel
<1>. DEFINE n == IF pool = "none" THEN kernel.deps + 1 ELSE kernel.deps
<1>4. /\ PreRun(s, pool) \in Module /\ PreRun(s, pool).preRun = {}
      /\ PreRun(s, pool).fs = kernel.fs /\ PreRun(s, pool).fetched = kernel.fetched
      /\ PreRun(s, pool).fetchedCallback = kernel.fetchedCallback
      /\ PreRun(s, pool).requests = kernel.requests
      /\ PreRun(s, pool).deps = IF pool = "none" THEN kernel.deps + 1 ELSE kernel.deps
  <2>1. n \in Int
    BY <1>2 DEF Module
  <2>2. PreRun(s, pool) = [kernel EXCEPT !.preRun = {}, !.deps = n]
    BY <1>2, <1>3 DEF Module
  <2>. HIDE DEF n
  <2>3. PreRun(s, pool) \in Module
    <3>1. kernel \in Module
      BY <1>2
    <3>2. [kernel EXCEPT !.preRun = {}, !.deps = n] \in Module
      BY <2>1, <3>1, RetypedPreRun
    <3>. QED
      BY <2>2, <3>2
  <2>4. /\ PreRun(s, pool).preRun = {} /\ PreRun(s, pool).deps = n
        /\ PreRun(s, pool).fs = kernel.fs /\ PreRun(s, pool).fetched = kernel.fetched
        /\ PreRun(s, pool).fetchedCallback = kernel.fetchedCallback
        /\ PreRun(s, pool).requests = kernel.requests
    BY <1>2, <2>2 DEF Module
  <2>. QED
    BY <2>3, <2>4 DEF n
<1>5. Shared(PreRun(s, pool))
  BY <1>1, <1>2, <1>4 DEF Shared
<1>6. Exact(PreRun(s, pool), w, pool # "ready")
  <2>1. /\ Cardinality(package.requests) \in Nat /\ Cardinality(s.requests) \in Nat
        /\ Waiting(package.fetchedCallback) \in Nat /\ Waiting(s.fetchedCallback) \in Nat
        /\ Waiting(w) \in Nat
    BY <1>1, FilesCount DEF Shared, Waiting
  <2>2. package.deps = Waiting(w) + Waiting(pool = "pending")
                       + Cardinality(package.requests) + Waiting(package.fetchedCallback)
    BY <1>1, <2>1 DEF Exact, Waiting
  <2>. QED
    BY <1>2, <1>4, <2>1, <2>2 DEF Exact, Waiting
<1>7. PackageHeld(s) => PackageHeld(PreRun(s, pool))
  BY <1>1, <1>2, <1>4 DEF PackageHeld
<1>. QED
  BY <1>1, <1>2, <1>4, <1>5, <1>6, <1>7

\* dependenciesFulfilled plays no part in what is counted.
LEMMA FulfilledFields ==
  ASSUME NEW s, Shared(s), NEW b \in BOOLEAN
  PROVE  LET r == [s EXCEPT !.fulfilled = b]
         IN  /\ Shared(r) /\ r.fs = s.fs /\ r.deps = s.deps /\ PackageHeld(r) = PackageHeld(s)
             /\ \A w, p \in BOOLEAN : Exact(r, w, p) = Exact(s, w, p)
<1>1. /\ [s EXCEPT !.fulfilled = b] \in Module
      /\ [s EXCEPT !.fulfilled = b].fs = s.fs /\ [s EXCEPT !.fulfilled = b].deps = s.deps
      /\ [s EXCEPT !.fulfilled = b].preRun = s.preRun
      /\ [s EXCEPT !.fulfilled = b].fetched = s.fetched
      /\ [s EXCEPT !.fulfilled = b].fetchedCallback = s.fetchedCallback
      /\ [s EXCEPT !.fulfilled = b].requests = s.requests
  BY DEF Shared, Module
<1>. DEFINE r == [s EXCEPT !.fulfilled = b]
<1>. HIDE DEF r
<1>2. /\ r \in Module /\ r.fs = s.fs /\ r.deps = s.deps /\ r.preRun = s.preRun
      /\ r.fetched = s.fetched /\ r.fetchedCallback = s.fetchedCallback
      /\ r.requests = s.requests
  BY <1>1 DEF r
<1>3. /\ Shared(r) /\ r.fs = s.fs /\ r.deps = s.deps /\ PackageHeld(r) = PackageHeld(s)
      /\ \A w, p \in BOOLEAN : Exact(r, w, p) = Exact(s, w, p)
  BY <1>2 DEF Shared, PackageHeld, Exact
<1>. QED
  BY <1>3 DEF r

\* When nothing is waited for, everything is there.
LEMMA NothingWaited ==
  ASSUME NEW s, Shared(s), PackageHeld(s), s.preRun = {}, NEW w \in BOOLEAN, NEW p \in BOOLEAN,
         Exact(s, w, p), s.deps = 0
  PROVE  ~w /\ ~p /\ Files \cup {Kernel} \subseteq s.fs
<1>1. /\ Waiting(w) \in {0, 1} /\ Waiting(p) \in {0, 1} /\ Waiting(s.fetchedCallback) \in {0, 1}
      /\ (w => Waiting(w) = 1) /\ (p => Waiting(p) = 1)
  BY DEF Waiting
<1>2. Cardinality(s.requests) \in Nat
  BY FilesCount DEF Shared
<1>3. Waiting(w) = 0 /\ Waiting(p) = 0 /\ Waiting(s.fetchedCallback) = 0
  BY <1>1, <1>2 DEF Exact
<1>4. ~w /\ ~p /\ ~s.fetchedCallback
  BY <1>3 DEF Waiting
<1>. QED
  BY <1>4 DEF Shared, PackageHeld

-----------------------------------------------------------------------------
(* The invariant.                                                          *)

WasmWaits == wasm \in {"pending", "failed"}

\* How far the page is: out.js is imported behind load.js, and nothing of it runs before.
Order ==
  /\ page = "configured" => m.expected = 0 /\ "runWithFS" \notin m.preRun
  /\ page \in {"configured", "loaded"} => wasm = "none"
  /\ wasm = "none" => workers = "none" /\ main = "waiting" /\ ~m.fetchedCallback
  /\ page = "loaded" \/ wasm # "none" => PackageHeld(m)

States ==
  /\ preloaded \in BOOLEAN
  /\ page \in {"configured", "loaded", "awaiting", "running", "error"}
  /\ request \in {"none", "sent", "arrived", "failed"}
  /\ wasm \in {"none", "pending", "ready", "failed"} /\ workers \in {"none", "pending", "ready"}
  /\ main \in {"waiting", "scheduled", "started"}
  /\ downloads = Silent \/ downloads \in [loaded : 1 .. PackageSize, total : {PackageSize}]

IInv ==
  /\ States /\ Shared(m) /\ Exact(m, WasmWaits, workers = "pending")
  /\ Order /\ MainHasFiles

\* Removing a dependency keeps the count, and lets main start only with its files.
LEMMA RemovedKeeps ==
  ASSUME NEW s, Shared(s), PackageHeld(s), NEW pool \in {"none", "pending", "ready"},
         NEW w \in BOOLEAN, Exact(s, w, pool = "pending"),
         main \in {"waiting", "scheduled", "started"},
         main # "waiting" => Files \cup {Kernel} \subseteq s.fs,
         Removed(s, pool)
  PROVE  /\ Shared(m') /\ PackageHeld(m') /\ Exact(m', w, workers' = "pending")
         /\ workers' \in {"none", "pending", "ready"} /\ MainHasFiles'
         /\ main' \in {"waiting", "scheduled", "started"}
<1>1. CASE ~(s.deps = 0 /\ s.fulfilled)
  BY <1>1 DEF Removed, MainHasFiles
<1>2. CASE s.deps = 0 /\ s.fulfilled
  <2>. DEFINE before == [s EXCEPT !.fulfilled = FALSE]
              ran == PreRun(before, pool)
  <2>1. /\ Shared(before) /\ PackageHeld(before) /\ before.fs = s.fs
        /\ Exact(before, w, pool = "pending")
    BY FulfilledFields
  <2>2. /\ m' = [ran EXCEPT !.fulfilled = main # "started"]
        /\ workers' = IF pool = "none" THEN "pending" ELSE pool
        /\ main' = IF ran.deps = 0 /\ main = "waiting" THEN "scheduled" ELSE main
    BY <1>2 DEF Removed
  <2>. HIDE DEF before
  <2>3. /\ Shared(ran) /\ PackageHeld(ran) /\ ran.preRun = {} /\ s.fs \subseteq ran.fs
        /\ Exact(ran, w, pool # "ready")
    BY <2>1, PreRunFields
  <2>. HIDE DEF ran
  <2>4. /\ Shared(m') /\ PackageHeld(m') /\ m'.fs = ran.fs /\ Exact(m', w, pool # "ready")
    BY <2>2, <2>3, FulfilledFields
  <2>5. (workers' = "pending") = (pool # "ready")
    BY <2>2
  <2>6. ran.deps = 0 => Files \cup {Kernel} \subseteq ran.fs
    BY <2>3, NothingWaited
  <2>7. MainHasFiles' /\ main' \in {"waiting", "scheduled", "started"}
    BY <2>2, <2>3, <2>4, <2>6 DEF MainHasFiles
  <2>. QED
    BY <2>2, <2>4, <2>5, <2>7
<1>. QED
  BY <1>1, <1>2

LEMMA InitIInv == Init => IInv
<1>. SUFFICES ASSUME Init
              PROVE  IInv
  OBVIOUS
<1>1. Shared(m)
  BY DEF Init, Shared, Module
<1>2. Exact(m, WasmWaits, workers = "pending")
  <2>1. m.requests = {} /\ m.deps = 0 /\ ~m.fetchedCallback /\ ~WasmWaits /\ workers # "pending"
    BY DEF Init, WasmWaits
  <2>. QED
    BY <2>1, FilesCount DEF Exact, Waiting
<1>3. Order /\ States /\ MainHasFiles
  BY DEF Init, Order, States, MainHasFiles
<1>. QED
  BY <1>1, <1>2, <1>3 DEF IInv

\* load.js holds the package; main is not running yet.
LEMMA LoadJsKeeps ==
  ASSUME IInv, LoadJs
  PROVE  IInv'
<1>. DEFINE held == [m EXCEPT !.expected = @ + 1, !.fetched = preloaded]
<1>1. /\ page = "configured" /\ wasm = "none" /\ workers = "none" /\ main = "waiting"
      /\ ~m.fetchedCallback /\ m.expected = 0 /\ "runWithFS" \notin m.preRun
      /\ m \in Module /\ preloaded \in BOOLEAN
  BY DEF IInv, Order, States, Shared, LoadJs
<1>2. m' = [held EXCEPT !.preRun = @ \cup {"runWithFS"}]
  BY <1>1 DEF LoadJs
<1>3. /\ m' \in Module /\ m'.preRun = m.preRun \cup {"runWithFS"} /\ m'.fs = m.fs
      /\ m'.requests = m.requests /\ m'.fetchedCallback = m.fetchedCallback /\ m'.deps = m.deps
  <2>1. held = [m EXCEPT !.expected = 1, !.fetched = preloaded]
    BY <1>1 DEF Module
  <2>2. /\ held \in Module /\ held.preRun = m.preRun /\ held.fs = m.fs
        /\ held.requests = m.requests /\ held.fetchedCallback = m.fetchedCallback
        /\ held.deps = m.deps
    <3>1. [m EXCEPT !.expected = 1, !.fetched = preloaded] \in Module
      <4>1. 1 \in 0 .. 1
        OBVIOUS
      <4>. QED
        BY <1>1, <4>1, RetypedHeld
    <3>. QED
      BY <1>1, <2>1, <3>1 DEF Module
  <2>. HIDE DEF held
  <2>. DEFINE queue == held.preRun \cup {"runWithFS"}
  <2>3. [held EXCEPT !.preRun = @ \cup {"runWithFS"}] \in Module
    <3>1. queue \subseteq {"writeKernel", "runWithFS"}
      BY <2>2 DEF Module
    <3>. HIDE DEF queue
    <3>2. [held EXCEPT !.preRun = queue] \in Module
      BY <2>2, <3>1, RetypedQueue
    <3>. QED
      BY <3>2 DEF queue
  <2>4. /\ m'.preRun = m.preRun \cup {"runWithFS"} /\ m'.fs = m.fs
        /\ m'.requests = m.requests /\ m'.fetchedCallback = m.fetchedCallback
        /\ m'.deps = m.deps
    BY <1>2, <2>2 DEF Module
  <2>. QED
    BY <1>2, <2>3, <2>4
<1>4. Shared(m') /\ PackageHeld(m')
  BY <1>1, <1>3 DEF IInv, Shared, PackageHeld
<1>5. UNCHANGED <<wasm, workers, main, preloaded, downloads>> /\ page' = "loaded"
      /\ request' \in {"arrived", "sent"}
  BY DEF LoadJs
<1>6. Exact(m', WasmWaits', workers' = "pending")
  BY <1>3, <1>5 DEF IInv, Exact, WasmWaits
<1>7. Order' /\ States' /\ MainHasFiles'
  BY <1>1, <1>3, <1>4, <1>5 DEF IInv, Order, States, MainHasFiles
<1>. QED
  BY <1>4, <1>5, <1>6, <1>7 DEF IInv

LEMMA ImportOutJsKeeps ==
  ASSUME IInv, ImportOutJs
  PROVE  IInv'
<1>1. /\ page = "loaded" /\ wasm = "none" /\ workers = "none" /\ main = "waiting"
      /\ ~m.fetchedCallback /\ PackageHeld(m) /\ m \in Module /\ m.deps \in Int
  BY DEF IInv, Order, Shared, Module, ImportOutJs
<1>2. /\ m' = [m EXCEPT !.deps = m.deps + 1] /\ page' = "awaiting" /\ wasm' = "pending"
      /\ UNCHANGED <<preloaded, request, workers, main, downloads>>
  BY DEF ImportOutJs
<1>3. m' \in Module
  BY <1>1, <1>2, RetypedDeps
<1>4. /\ m'.preRun = m.preRun /\ m'.fs = m.fs /\ m'.requests = m.requests
      /\ m'.fetchedCallback = m.fetchedCallback /\ m'.fetched = m.fetched
      /\ m'.deps = m.deps + 1
  BY <1>1, <1>2 DEF Module
<1>5. Shared(m') /\ PackageHeld(m')
  BY <1>1, <1>3, <1>4 DEF IInv, Shared, PackageHeld
<1>6. Exact(m', WasmWaits', workers' = "pending")
  <2>1. ~WasmWaits /\ WasmWaits'
    BY <1>1, <1>2 DEF WasmWaits
  <2>2. Cardinality(m.requests) \in Nat /\ Waiting(m.fetchedCallback) \in Nat
        /\ Waiting(workers = "pending") \in Nat
    BY FilesCount DEF IInv, Shared, Waiting
  <2>3. m.deps = Waiting(FALSE) + Waiting(workers = "pending") + Cardinality(m.requests)
                 + Waiting(m.fetchedCallback)
    BY <2>1 DEF IInv, Exact, Waiting
  <2>4. m'.deps = Waiting(TRUE) + Waiting(workers = "pending") + Cardinality(m.requests)
                  + Waiting(m.fetchedCallback)
    BY <1>4, <2>2, <2>3 DEF Waiting
  <2>. QED
    BY <1>2, <1>4, <2>1, <2>4 DEF Exact, Waiting
<1>7. Order' /\ States' /\ MainHasFiles'
  BY <1>1, <1>2, <1>4, <1>5 DEF IInv, Order, States, MainHasFiles
<1>. QED
  BY <1>5, <1>6, <1>7 DEF IInv

\* What follows of Removed for the whole state, once its dependency was taken off.
LEMMA RemovedInv ==
  ASSUME IInv, wasm # "none",
         NEW s, Shared(s), PackageHeld(s), NEW pool \in {"none", "pending", "ready"},
         Exact(s, WasmWaits', pool = "pending"), m.fs \subseteq s.fs,
         Removed(s, pool), UNCHANGED <<preloaded, page, downloads>>,
         request' \in {"none", "sent", "arrived", "failed"},
         wasm' \in {"pending", "ready", "failed"}
  PROVE  IInv'
<1>1. /\ main \in {"waiting", "scheduled", "started"} /\ WasmWaits' \in BOOLEAN
      /\ main # "waiting" => Files \cup {Kernel} \subseteq s.fs
  BY DEF IInv, States, MainHasFiles, WasmWaits
<1>2. /\ Shared(m') /\ PackageHeld(m') /\ Exact(m', WasmWaits', workers' = "pending")
      /\ workers' \in {"none", "pending", "ready"} /\ MainHasFiles'
      /\ main' \in {"waiting", "scheduled", "started"}
  BY <1>1, RemovedKeeps
<1>3. Order' /\ States'
  BY <1>2 DEF IInv, Order, States
<1>. QED
  BY <1>2, <1>3 DEF IInv

LEMMA WasmReadyKeeps ==
  ASSUME IInv, WasmReady
  PROVE  IInv'
<1>. DEFINE s == [m EXCEPT !.deps = m.deps - 1]
<1>1. /\ wasm = "pending" /\ wasm' = "ready" /\ m \in Module /\ m.deps \in Int
      /\ PackageHeld(m) /\ workers \in {"none", "pending", "ready"}
      /\ request \in {"none", "sent", "arrived", "failed"}
  BY DEF IInv, Order, States, Shared, Module, WasmReady
<1>2. s \in Module
  BY <1>1, RetypedDeps
<1>3. /\ s.preRun = m.preRun /\ s.fs = m.fs /\ s.requests = m.requests
      /\ s.fetchedCallback = m.fetchedCallback /\ s.fetched = m.fetched /\ s.deps = m.deps - 1
  BY <1>1 DEF Module
<1>4. Removed(s, workers) /\ UNCHANGED <<preloaded, page, request, downloads>>
  BY DEF WasmReady
<1>. HIDE DEF s
<1>5. Shared(s) /\ PackageHeld(s)
  BY <1>1, <1>2, <1>3 DEF IInv, Shared, PackageHeld
<1>6. Exact(s, WasmWaits', workers = "pending")
  <2>1. WasmWaits /\ ~WasmWaits'
    BY <1>1 DEF WasmWaits
  <2>2. Cardinality(m.requests) \in Nat /\ Waiting(m.fetchedCallback) \in Nat
        /\ Waiting(workers = "pending") \in Nat
    BY FilesCount DEF IInv, Shared, Waiting
  <2>3. m.deps = 1 + Waiting(workers = "pending") + Cardinality(m.requests)
                 + Waiting(m.fetchedCallback)
    BY <2>1 DEF IInv, Exact, Waiting
  <2>4. s.deps = 0 + Waiting(workers = "pending") + Cardinality(m.requests)
                 + Waiting(m.fetchedCallback)
    BY <1>3, <2>2, <2>3
  <2>. QED
    BY <1>3, <2>1, <2>4 DEF Exact, Waiting
<1>. QED
  BY <1>1, <1>3, <1>4, <1>5, <1>6, RemovedInv

LEMMA WorkersReadyKeeps ==
  ASSUME IInv, WorkersReady
  PROVE  IInv'
<1>. DEFINE s == [m EXCEPT !.deps = m.deps - 1]
<1>1. /\ workers = "pending" /\ wasm \in {"pending", "ready", "failed"} /\ m \in Module
      /\ m.deps \in Int /\ PackageHeld(m) /\ request \in {"none", "sent", "arrived", "failed"}
  BY DEF IInv, Order, States, Shared, Module, WorkersReady
<1>2. s \in Module
  BY <1>1, RetypedDeps
<1>3. /\ s.preRun = m.preRun /\ s.fs = m.fs /\ s.requests = m.requests
      /\ s.fetchedCallback = m.fetchedCallback /\ s.fetched = m.fetched /\ s.deps = m.deps - 1
  BY <1>1 DEF Module
<1>4. Removed(s, "ready") /\ UNCHANGED <<preloaded, page, request, wasm, downloads>>
  BY DEF WorkersReady
<1>. HIDE DEF s
<1>5. Shared(s) /\ PackageHeld(s)
  BY <1>1, <1>2, <1>3 DEF IInv, Shared, PackageHeld
<1>6. Exact(s, WasmWaits', FALSE)
  <2>1. WasmWaits' = WasmWaits
    BY <1>4 DEF WasmWaits
  <2>2. Cardinality(m.requests) \in Nat /\ Waiting(m.fetchedCallback) \in Nat
        /\ Waiting(WasmWaits) \in Nat
    BY FilesCount DEF IInv, Shared, Waiting
  <2>3. m.deps = Waiting(WasmWaits) + 1 + Cardinality(m.requests) + Waiting(m.fetchedCallback)
    BY <1>1 DEF IInv, Exact, Waiting
  <2>4. s.deps = Waiting(WasmWaits) + 0 + Cardinality(m.requests) + Waiting(m.fetchedCallback)
    BY <1>3, <2>2, <2>3
  <2>. QED
    BY <1>3, <2>1, <2>4 DEF Exact, Waiting
<1>7. Exact(s, WasmWaits', "ready" = "pending")
  BY <1>6
<1>. QED
  BY <1>1, <1>3, <1>4, <1>5, <1>7, RemovedInv

\* The package arrives and is kept, or unpacked at once.
LEMMA OnLoadKeeps ==
  ASSUME IInv, OnLoad
  PROVE  IInv'
<1>1. /\ m \in Module /\ Shared(m) /\ Exact(m, WasmWaits, workers = "pending")
      /\ workers \in {"none", "pending", "ready"} /\ wasm \in {"none", "pending", "ready", "failed"}
      /\ request' = "arrived" /\ UNCHANGED <<preloaded, page, wasm, downloads>>
      /\ WasmWaits' = WasmWaits
  BY DEF IInv, States, Shared, OnLoad, WasmWaits
<1>2. CASE m.fetchedCallback
  <2>. DEFINE s == [ProcessPackageData(m) EXCEPT !.fetchedCallback = FALSE]
              done == ProcessPackageData(m)
  <2>1. m.requests = Files /\ wasm # "none" /\ "runWithFS" \notin m.preRun
    BY <1>1, <1>2 DEF Shared, IInv, Order
  <2>2. /\ done \in Module /\ done.preRun = m.preRun /\ done.fetched = m.fetched
        /\ done.requests = {} /\ done.fs = m.fs \cup Files
        /\ done.deps = m.deps - Cardinality(Files) - 1
    BY <1>1, <2>1, ProcessFields
  <2>3. Removed(s, workers)
    BY <1>2 DEF OnLoad
  <2>4. s = [done EXCEPT !.fetchedCallback = FALSE]
    OBVIOUS
  <2>. HIDE DEF s, done
  <2>5. /\ s \in Module /\ s.preRun = m.preRun /\ s.fetched = m.fetched /\ ~s.fetchedCallback
        /\ s.requests = {} /\ s.fs = m.fs \cup Files
        /\ s.deps = m.deps - Cardinality(Files) - 1
    BY <2>2, <2>4 DEF Module
  <2>6. Shared(s) /\ PackageHeld(s) /\ m.fs \subseteq s.fs
    BY <1>1, <2>5 DEF Shared, PackageHeld
  <2>7. Exact(s, WasmWaits', workers = "pending")
    <3>1. Waiting(WasmWaits) \in Nat /\ Waiting(workers = "pending") \in Nat
      BY DEF Waiting
    <3>2. m.deps = Waiting(WasmWaits) + Waiting(workers = "pending") + Cardinality(Files) + 1
      BY <1>1, <1>2, <2>1 DEF Exact, Waiting
    <3>3. s.deps = Waiting(WasmWaits) + Waiting(workers = "pending") + 0 + 0
      BY <2>5, <3>1, <3>2, FilesCount
    <3>4. Cardinality(s.requests) = 0 /\ Waiting(s.fetchedCallback) = 0
      BY <2>5, FilesCount DEF Waiting
    <3>. QED
      BY <1>1, <3>3, <3>4 DEF Exact
  <2>. QED
    BY <1>1, <2>1, <2>3, <2>6, <2>7, RemovedInv
<1>3. CASE ~m.fetchedCallback
  <2>1. m' = [m EXCEPT !.fetched = TRUE] /\ UNCHANGED <<workers, main>>
    BY <1>3 DEF OnLoad
  <2>2. /\ m' \in Module /\ m'.preRun = m.preRun /\ m'.fs = m.fs /\ m'.requests = m.requests
        /\ m'.fetchedCallback = m.fetchedCallback /\ m'.deps = m.deps
        /\ m'.expected = m.expected
    BY <1>1, <2>1 DEF Module
  <2>3. Shared(m') /\ PackageHeld(m') = PackageHeld(m)
    BY <1>1, <1>3, <2>2 DEF Shared, PackageHeld
  <2>4. Exact(m', WasmWaits', workers' = "pending")
    BY <1>1, <2>1, <2>2 DEF Exact
  <2>5. Order' /\ States' /\ MainHasFiles'
    BY <1>1, <2>1, <2>2, <2>3 DEF IInv, Order, States, MainHasFiles
  <2>. QED
    BY <2>3, <2>4, <2>5 DEF IInv
<1>. QED
  BY <1>2, <1>3

\* The steps that leave Module alone.
LEMMA OtherStepsKeep ==
  ASSUME IInv, UNCHANGED m, UNCHANGED workers, WasmWaits' = WasmWaits, States',
         wasm # "none" => wasm' # "none", wasm = "none" => wasm' = "none",
         main' = main \/ (main = "scheduled" /\ main' = "started"),
         page' \in {"configured", "loaded"} => page' = page
  PROVE  IInv'
BY DEF IInv, Shared, Exact, Order, MainHasFiles, PackageHeld, Waiting

LEMMA ProgressTyped ==
  ASSUME IInv, NEW n \in 1 .. PackageSize, NEW total \in {0, PackageSize}, OnProgress(n, total)
  PROVE  downloads' = Silent \/ downloads' \in [loaded : 1 .. PackageSize, total : {PackageSize}]
<1>1. (IF total > 0 THEN total ELSE PackageSize) = PackageSize
  OBVIOUS
<1>2. CASE downloads = Silent
  BY <1>1, <1>2 DEF OnProgress
<1>3. CASE downloads # Silent
  BY <1>3 DEF OnProgress, IInv, States
<1>. QED
  BY <1>2, <1>3

LEMMA NextIInv == IInv /\ [Next]_vars => IInv'
<1>. SUFFICES ASSUME IInv, [Next]_vars
              PROVE  IInv'
  OBVIOUS
<1>1. ASSUME NEW n \in 1 .. PackageSize, NEW total \in {0, PackageSize}, OnProgress(n, total)
      PROVE  IInv'
  <2>1. UNCHANGED <<preloaded, page, request, wasm, workers, main, m>>
    BY <1>1 DEF OnProgress
  <2>2. States'
    BY <1>1, <2>1, ProgressTyped DEF IInv, States
  <2>. QED
    BY <2>1, <2>2, OtherStepsKeep DEF WasmWaits
<1>2. CASE OnError
  BY <1>2, OtherStepsKeep DEF OnError, IInv, States, WasmWaits
<1>3. CASE DoRun
  BY <1>3, OtherStepsKeep DEF DoRun, IInv, States, WasmWaits
<1>4. CASE PageFails
  <2>1. UNCHANGED <<preloaded, request, workers, main, m, downloads>> /\ page' = "error"
    BY <1>4 DEF PageFails
  <2>2. wasm' = IF wasm = "pending" THEN "failed" ELSE wasm
    BY <1>4 DEF PageFails
  <2>3. WasmWaits' = WasmWaits
    BY <2>2 DEF WasmWaits
  <2>4. States'
    BY <2>1, <2>2 DEF IInv, States
  <2>. QED
    BY <2>1, <2>2, <2>3, <2>4, OtherStepsKeep
<1>5. CASE UNCHANGED vars
  BY <1>5, OtherStepsKeep DEF vars, IInv, States, WasmWaits
<1>. QED
  BY <1>1, <1>2, <1>3, <1>4, <1>5, LoadJsKeeps, ImportOutJsKeeps, WasmReadyKeeps,
     WorkersReadyKeeps, OnLoadKeeps DEF Next, Package, Emulator, Page

LEMMA Invariance == Spec => []IInv
BY InitIInv, NextIInv, PTL DEF Spec

-----------------------------------------------------------------------------
(* The theorems.                                                           *)

\* Everything the scripts share has its type; a progress line never divides by zero
\* (load.js:44-73).
THEOREM LoaderTypeOK == Spec => []TypeOK
<1>1. IInv => TypeOK
  BY DEF IInv, States, Shared, TypeOK
<1>. QED
  BY <1>1, Invariance, PTL

\* The count is the number of things waited for: no order of package, wasm and workers
\* loses or repeats one (load.js:104-168, out.js:8).
THEOREM LoaderDepsExact == Spec => []DepsExact
<1>1. ASSUME IInv
      PROVE  DepsExact
  BY <1>1 DEF IInv, Shared, Exact, WasmWaits, DepsExact
<1>. QED
  BY <1>1, Invariance, PTL

\* When the emulator's main is about to start, the kernel and every firmware file are in
\* its file system (load.js:143-168, ctf.html:326, out.js:8).
THEOREM LoaderMainHasFiles == Spec => []MainHasFiles
<1>1. IInv => MainHasFiles
  BY DEF IInv
<1>. QED
  BY <1>1, Invariance, PTL
=============================================================================
