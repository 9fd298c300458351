-------------------------------- MODULE Loader -------------------------------
(***************************************************************************)
(* How the browser pages start the emulator: web/ctf.html (and its twin    *)
(* web/qemu-wasm.html) awaits web/load.js, which requests the firmware     *)
(* package at once, then imports web/out.js, whose main waits for a count  *)
(* of run dependencies.  The package may arrive before or after the file   *)
(* system that is to hold it.  An action is one turn of the event loop.    *)
(***************************************************************************)
EXTENDS Integers, FiniteSets

CONSTANTS
  Files,        \* metadata.files: the names in the package
  PackageSize   \* remote_package_size, in chunks a progress event can tell apart

ASSUME LoaderAssumption == IsFiniteSet(Files) /\ PackageSize \in Nat \ {0}

VARIABLES
  preloaded,  \* the embedder brings the package itself (getPreloadedPackage)
  page,       \* the page's script: "configured", "loaded", "awaiting", "running", "error"
  request,    \* the package request: "none", "sent", "arrived" (with data), "failed"
  wasm, workers,  \* asynchronous work of out.js: "none", "pending", "ready" or "failed"
  main,       \* "waiting", "scheduled" (run() has set its timers), "started": calledRun
  m,          \* what the scripts share through Module, see Module
  downloads   \* Module.dataFileDownloads of this package

vars == <<preloaded, page, request, wasm, workers, main, m, downloads>>

Kernel == "kernel-v86.bin"

\* Nothing was heard of the download yet.
Silent == [loaded |-> 0, total |-> 0]

\* fetched and fetchedCallback (set or null), the callbacks in Module.preRun, the open
\* data requests, runDependencies, dependenciesFulfilled (set or null), the files
\* created, expectedDataFileDownloads.
Module ==
  [fetched : BOOLEAN, fetchedCallback : BOOLEAN, preRun : SUBSET {"writeKernel", "runWithFS"},
   requests : SUBSET Files, deps : Int, fulfilled : BOOLEAN,
   fs : SUBSET (Files \cup {Kernel}), expected : 0 .. 1]

Init ==
  /\ preloaded \in BOOLEAN
  /\ page = "configured" /\ request = "none" /\ wasm = "none" /\ workers = "none"
  /\ main = "waiting" /\ downloads = Silent
  /\ m = [fetched |-> FALSE, fetchedCallback |-> FALSE, preRun |-> {"writeKernel"},
          requests |-> {}, deps |-> 0, fulfilled |-> TRUE, fs |-> {}, expected |-> 0]

-----------------------------------------------------------------------------
(* The package's side.                                                     *)

\* Fault: the open requests are not counted.
OpenNoneOf(s) == [s EXCEPT !.requests = Files]

\* DataRequest.open for every file.
OpenAll(s) == [s EXCEPT !.requests = Files, !.deps = @ + Cardinality(Files)]

\* onload and finish for every open request.
FinishAll(s) ==
  [s EXCEPT !.fs = @ \cup s.requests, !.deps = @ - Cardinality(s.requests), !.requests = {}]

\* processPackageData: every file, then the package's own dependency.
ProcessPackageData(s) == LET done == FinishAll(s) IN [done EXCEPT !.deps = @ - 1]

\* Fault: data that is already there is not looked for.
RunWithFSBlindly(s) ==
  LET opened == OpenAll(s)
  IN  [opened EXCEPT !.deps = @ + 1, !.fetchedCallback = TRUE]

\* runWithFS: if the data was faster it is unpacked now, otherwise when it arrives.
RunWithFS(s) ==
  LET opened  == OpenAll(s)
      waiting == [opened EXCEPT !.deps = @ + 1]
  IN  IF s.fetched THEN [ProcessPackageData(waiting) EXCEPT !.fetched = FALSE]
      ELSE [waiting EXCEPT !.fetchedCallback = TRUE]

-----------------------------------------------------------------------------
(* out.js: the dependency count and run().                                 *)

WriteKernel(s) == [s EXCEPT !.fs = @ \cup {Kernel}]

\* preRun(): each registered callback once; the emulator's own starts the workers.
PreRun(s, pool) ==
  LET package == IF "runWithFS" \in s.preRun THEN RunWithFS(s) ELSE s
      kernel  == IF "writeKernel" \in s.preRun THEN WriteKernel(package) ELSE package
  IN  [kernel EXCEPT !.preRun = {}, !.deps = IF pool = "none" THEN @ + 1 ELSE @]

\* Fault: run() does not count again behind the preRun callbacks.
RemovedOnce(s, pool) ==
  IF s.deps = 0 /\ s.fulfilled
  THEN /\ m' = [PreRun([s EXCEPT !.fulfilled = FALSE], pool)
                  EXCEPT !.fulfilled = main # "started"]
       /\ workers' = IF pool = "none" THEN "pending" ELSE pool
       /\ main' = IF main = "waiting" THEN "scheduled" ELSE main
  ELSE m' = s /\ workers' = pool /\ UNCHANGED main

\* A dependency was removed; pool is the state of the workers.  At zero runCaller calls
\* run(), which calls the preRun callbacks and, if nothing waits any more, sets the
\* timers behind which main starts.  Meanwhile dependenciesFulfilled is null, so run()
\* is not entered twice.
Removed(s, pool) ==
  IF s.deps = 0 /\ s.fulfilled
  THEN LET ran == PreRun([s EXCEPT !.fulfilled = FALSE], pool)
       IN  /\ m' = [ran EXCEPT !.fulfilled = main # "started"]
           /\ workers' = IF pool = "none" THEN "pending" ELSE pool
           /\ main' = IF ran.deps = 0 /\ main = "waiting" THEN "scheduled" ELSE main
  ELSE m' = s /\ workers' = pool /\ UNCHANGED main

WasmReady ==
  /\ wasm = "pending" /\ wasm' = "ready"
  /\ Removed([m EXCEPT !.deps = @ - 1], workers)
  /\ UNCHANGED <<preloaded, page, request, downloads>>

WorkersReady ==
  /\ workers = "pending"
  /\ Removed([m EXCEPT !.deps = @ - 1], "ready")
  /\ UNCHANGED <<preloaded, page, request, wasm, downloads>>

\* doRun: calledRun, and the page's await is over.
DoRun ==
  /\ main = "scheduled" /\ main' = "started"
  /\ page' = IF page = "awaiting" THEN "running" ELSE page
  /\ UNCHANGED <<preloaded, request, wasm, workers, m, downloads>>

-----------------------------------------------------------------------------
(* The page and the request.                                               *)

\* load.js: the request is sent unless the embedder has the package, and runWithFS runs
\* now or in preRun.  Its guard for workers is left out: they load out.js alone.
LoadJs ==
  /\ page = "configured" /\ page' = "loaded"
  /\ request' = IF preloaded THEN "arrived" ELSE "sent"
  /\ LET held == [m EXCEPT !.expected = @ + 1, !.fetched = preloaded]
     IN  m' = IF main = "started" THEN RunWithFS(held)
              ELSE [held EXCEPT !.preRun = @ \cup {"runWithFS"}]
  /\ UNCHANGED <<preloaded, wasm, workers, main, downloads>>

\* out.js starts compiling; run() finds a dependency and returns.
ImportOutJs ==
  /\ page = "loaded" /\ page' = "awaiting"
  /\ wasm' = "pending" /\ m' = [m EXCEPT !.deps = @ + 1]
  /\ UNCHANGED <<preloaded, request, workers, main, downloads>>

\* A script or the emulator's wasm cannot be had; the page's catch reports it.
PageFails ==
  /\ page \in {"configured", "loaded", "awaiting"} /\ wasm # "ready" /\ page' = "error"
  /\ wasm' = IF wasm = "pending" THEN "failed" ELSE wasm
  /\ UNCHANGED <<preloaded, request, workers, main, m, downloads>>

\* Fault: a length that is not known is taken for the total.
OnProgressAsTold(n, total) ==
  /\ request = "sent" /\ downloads.loaded <= n
  /\ downloads' = [loaded |-> n, total |-> total]
  /\ UNCHANGED <<preloaded, page, request, wasm, workers, main, m>>

\* xhr.onprogress: total is 0 when the length is not known; then the metadata's size
\* stands in.  Only the first event that has bytes sets the total.
OnProgress(n, total) ==
  /\ request = "sent" /\ downloads.loaded <= n /\ n > 0
  /\ LET size == IF total > 0 THEN total ELSE PackageSize
     IN  downloads' = IF downloads = Silent THEN [loaded |-> n, total |-> size]
                      ELSE [downloads EXCEPT !.loaded = n]
  /\ downloads' # downloads
  /\ UNCHANGED <<preloaded, page, request, wasm, workers, main, m>>

\* xhr.onload with a good status, or readFile's callback: hand the data over, or keep
\* it for runWithFS.
OnLoad ==
  /\ request = "sent" /\ request' = "arrived"
  /\ IF m.fetchedCallback
     THEN Removed([ProcessPackageData(m) EXCEPT !.fetchedCallback = FALSE], workers)
     ELSE m' = [m EXCEPT !.fetched = TRUE] /\ UNCHANGED <<workers, main>>
  /\ UNCHANGED <<preloaded, page, wasm, downloads>>

\* xhr.onerror, a bad status, an empty response, handleError: thrown or logged where
\* the page does not see it; nothing is removed and nothing is tried again.
OnError ==
  /\ request = "sent" /\ request' = "failed"
  /\ UNCHANGED <<preloaded, page, wasm, workers, main, m, downloads>>

-----------------------------------------------------------------------------

Package ==
  \/ OnLoad \/ OnError
  \/ \E n \in 1 .. PackageSize, total \in {0, PackageSize} : OnProgress(n, total)
Emulator == WasmReady \/ WorkersReady \/ DoRun
Page == LoadJs \/ ImportOutJs \/ PageFails

Next == Package \/ Emulator \/ Page

\* The event loop takes every callback that is due; nothing says the download ends.
Spec ==
  /\ Init /\ [][Next]_vars
  /\ WF_vars(Emulator) /\ WF_vars(LoadJs) /\ WF_vars(ImportOutJs)

-----------------------------------------------------------------------------

\* The progress line divides by the total, which is known with the first byte.
TypeOK ==
  /\ preloaded \in BOOLEAN
  /\ page \in {"configured", "loaded", "awaiting", "running", "error"}
  /\ request \in {"none", "sent", "arrived", "failed"}
  /\ wasm \in {"none", "pending", "ready", "failed"} /\ workers \in {"none", "pending", "ready"}
  /\ main \in {"waiting", "scheduled", "started"}
  /\ m \in Module
  /\ downloads = Silent \/ downloads \in [loaded : 1 .. PackageSize, total : {PackageSize}]

\* The emulator's main finds the kernel and every firmware file, whichever of package,
\* wasm and workers came last, and does not start after a failed download.
MainHasFiles == main # "waiting" => Files \cup {Kernel} \subseteq m.fs

\* The count is the number of things waited for: it reaches zero when the last is
\* done, never before and never below; and data never lies in `fetched` while
\* processPackageData waits for it.
Waiting(b) == IF b THEN 1 ELSE 0
DepsExact ==
  /\ m.deps = Waiting(wasm \in {"pending", "failed"}) + Waiting(workers = "pending")
               + Cardinality(m.requests) + Waiting(m.fetchedCallback)
  /\ ~(m.fetched /\ m.fetchedCallback)

\* Once the package is there the machine starts, or the page has reported why not.
MainStarts == request = "arrived" ~> main = "started" \/ page = "error"
=============================================================================
