-------------------------- MODULE PluginDiscovery --------------------------
(***************************************************************************)
(* PluginDiscovery (cpp/src/plugin.cpp): the cached discovery document,    *)
(* the watcher thread that polls the file's mtime, and user threads that   *)
(* call reload(), require(), watch() and close(), also from a callback.    *)
(*                                                                         *)
(* An unreadable, torn or missing file loads as the document without       *)
(* plugins, so the file is what load_discovery() makes of it.              *)
(***************************************************************************)
EXTENDS Naturals

CONSTANTS
  PlDocs,      \* what discovery.json may hold
  PlEmpty,     \* the document without plugins
  PlUsers,     \* user threads
  PlMaxClock,  \* seconds that pass
  PlMaxWrites  \* changes of the file

VARIABLES
  pfile, pmtime,  \* discovery.json and its mtime; 0 while it is missing
  pclock,         \* the second it is
  pwrites,        \* changes so far
  pwhen,          \* the second of the last one
  pdoc, plast,    \* Impl::doc, Impl::last_mtime
  pmtx,           \* who is in reload_locked()
  prunning,       \* Impl::running
  pwatcher,       \* the thread object: "none", "joinable", "joined"
  pat,            \* the watcher: "none", "sleep", "check", "load", "stat", "call"
  puser,          \* a user thread: "idle", "stat", "joining"
  pdead,          \* std::terminate has been called
  pself,          \* a callback has called close()
  poverlap,       \* watch() was called while a close() was joining
  pmissed,        \* the last change came within a second of the one before,
                  \* or between the two halves of a reload
  pabsorbed,      \* a user's reload() took the last change in
  ptold           \* the mtime of the last change the callbacks were told of

pvars == <<pfile, pmtime, pclock, pwrites, pwhen, pdoc, plast, pmtx, prunning, pwatcher, pat, puser,
           pdead, pself, poverlap, pmissed, pabsorbed, ptold>>

PlInit ==
  /\ pfile \in PlDocs /\ pmtime = 1 /\ pclock = 1 /\ pwrites = 0 /\ pwhen = 1
  /\ pdoc = pfile /\ plast = 1        \* the constructor's reload
  /\ pmtx = "free" /\ prunning = FALSE /\ pwatcher = "none" /\ pat = "none"
  /\ puser = [u \in PlUsers |-> "idle"]
  /\ pdead = FALSE /\ pself = FALSE /\ poverlap = FALSE
  /\ pmissed = FALSE /\ pabsorbed = FALSE /\ ptold = 1

(* Time passes, and a plugin or the app manager rewrites or deletes the     *)
(* file, at any point of a reload.                                          *)
PlTick ==
  /\ pclock < PlMaxClock
  /\ pclock' = pclock + 1
  /\ UNCHANGED <<pfile, pmtime, pwrites, pwhen, pdoc, plast, pmtx, prunning, pwatcher, pat, puser,
                 pdead, pself, poverlap, pmissed, pabsorbed, ptold>>

MidReload == pat = "stat" \/ \E u \in PlUsers : puser[u] = "stat"

PlWrite ==
  /\ pwrites < PlMaxWrites
  /\ pwrites' = pwrites + 1
  /\ \/ pfile' \in PlDocs /\ pmtime' = pclock
     \/ pmtime # 0 /\ pfile' = PlEmpty /\ pmtime' = 0
  /\ pwhen' = pclock
  /\ pmissed' = (pwhen = pclock \/ MidReload)
  /\ pabsorbed' = FALSE
  /\ UNCHANGED <<pclock, pdoc, plast, pmtx, prunning, pwatcher, pat, puser, pdead, pself, poverlap, ptold>>

(* reload() and each round of require(), which then looks its capability up *)
(* and sleeps: the document, then the mtime, both under the mutex.          *)
reload(u) ==
  /\ puser[u] = "idle" /\ pmtx = "free"
  /\ pmtx' = "user"
  /\ puser' = [puser EXCEPT ![u] = "stat"]
  /\ pdoc' = pfile
  /\ UNCHANGED <<pfile, pmtime, pclock, pwrites, pwhen, plast, prunning, pwatcher, pat, pdead, pself,
                 poverlap, pmissed, pabsorbed, ptold>>

ReloadStats(u) ==
  /\ puser[u] = "stat"
  /\ plast' = pmtime
  /\ pabsorbed' = (pabsorbed \/ plast # pmtime)
  /\ pmtx' = "free"
  /\ puser' = [puser EXCEPT ![u] = "idle"]
  /\ UNCHANGED <<pfile, pmtime, pclock, pwrites, pwhen, pdoc, prunning, pwatcher, pat, pdead, pself,
                 poverlap, pmissed, ptold>>

(* ensure_watcher(): assigning to a thread object that is still joinable    *)
(* ends the process.                                                        *)
Joining == {u \in PlUsers : puser[u] = "joining"}

watch(u) ==
  /\ puser[u] = "idle" /\ pmtx = "free"
  /\ prunning' = TRUE
  /\ poverlap' = (poverlap \/ Joining # {})
  /\ IF prunning THEN UNCHANGED <<pwatcher, pat, pdead, ptold>>
     ELSE IF pwatcher = "joinable" THEN pdead' = TRUE /\ UNCHANGED <<pwatcher, pat, ptold>>
     ELSE /\ pwatcher' = "joinable"
          /\ pat' = "sleep"
          /\ ptold' = plast
          /\ UNCHANGED pdead
  /\ UNCHANGED <<pfile, pmtime, pclock, pwrites, pwhen, pdoc, plast, pmtx, puser, pself, pmissed, pabsorbed>>

(* The watcher wakes, looks at running, stats the file and compares with a  *)
(* last_mtime read without the mutex; a missing file is passed over.        *)
PlWake ==
  /\ pat = "sleep"
  /\ IF ~prunning THEN pat' = "none"
     ELSE pat' = IF pmtime = 0 \/ pmtime = plast THEN "sleep" ELSE "load"
  /\ UNCHANGED <<pfile, pmtime, pclock, pwrites, pwhen, pdoc, plast, pmtx, prunning, pwatcher, puser,
                 pdead, pself, poverlap, pmissed, pabsorbed, ptold>>

PlLoad ==
  /\ pat = "load" /\ pmtx = "free"
  /\ pmtx' = "watcher"
  /\ pdoc' = pfile
  /\ pat' = "stat"
  /\ UNCHANGED <<pfile, pmtime, pclock, pwrites, pwhen, plast, prunning, pwatcher, puser, pdead, pself,
                 poverlap, pmissed, pabsorbed, ptold>>

PlStat ==
  /\ pat = "stat"
  /\ plast' = pmtime
  /\ pmtx' = "free"
  /\ pat' = "call"
  /\ UNCHANGED <<pfile, pmtime, pclock, pwrites, pwhen, pdoc, prunning, pwatcher, puser, pdead, pself,
                 poverlap, pmissed, pabsorbed, ptold>>

(* A plausible bug: the reload is not announced.                            *)
SilentReload ==
  /\ pat = "call" /\ pmtx = "free"
  /\ pat' = IF prunning THEN "sleep" ELSE "none"
  /\ UNCHANGED <<pfile, pmtime, pclock, pwrites, pwhen, pdoc, plast, pmtx, prunning, pwatcher, puser,
                 pdead, pself, poverlap, pmissed, pabsorbed, ptold>>

(* The callbacks, copied under the mutex and run outside it. One that calls *)
(* close() clears running and joins its own thread: the exception is        *)
(* swallowed with the callback's others, and the thread stays joinable.     *)
PlCall ==
  /\ pat = "call" /\ pmtx = "free"
  /\ ptold' = plast
  /\ \E closes \in BOOLEAN :
       /\ prunning' = (prunning /\ ~closes)
       /\ pself' = (pself \/ (closes /\ prunning))
  /\ pat' = IF prunning' THEN "sleep" ELSE "none"
  /\ UNCHANGED <<pfile, pmtime, pclock, pwrites, pwhen, pdoc, plast, pmtx, pwatcher, puser, pdead,
                 poverlap, pmissed, pabsorbed>>

(* close(): the first to clear running joins the watcher.                   *)
PlClose(u) ==
  /\ puser[u] = "idle" /\ prunning
  /\ prunning' = FALSE
  /\ puser' = [puser EXCEPT ![u] = "joining"]
  /\ UNCHANGED <<pfile, pmtime, pclock, pwrites, pwhen, pdoc, plast, pmtx, pwatcher, pat, pdead, pself,
                 poverlap, pmissed, pabsorbed, ptold>>

PlJoined(u) ==
  /\ puser[u] = "joining" /\ pat = "none"
  /\ pwatcher' = "joined"
  /\ puser' = [puser EXCEPT ![u] = "idle"]
  /\ UNCHANGED <<pfile, pmtime, pclock, pwrites, pwhen, pdoc, plast, pmtx, prunning, pat, pdead, pself,
                 poverlap, pmissed, pabsorbed, ptold>>

(* The destructor, once no call is under way: stop(), then the members; a   *)
(* watcher that is joinable still ends the process. Otherwise a new object  *)
(* may take this one's place.                                               *)
PlDestroy ==
  /\ \A u \in PlUsers : puser[u] = "idle"
  /\ ~prunning /\ pat = "none" /\ pwatcher # "none"
  /\ pdead' = (pdead \/ pwatcher = "joinable")
  /\ pwatcher' = "none"
  /\ pdoc' = pfile /\ plast' = pmtime /\ ptold' = pmtime /\ pmissed' = FALSE
  /\ UNCHANGED <<pfile, pmtime, pclock, pwrites, pwhen, pmtx, prunning, pat, puser, pself, poverlap, pabsorbed>>

PlNext ==
  /\ ~pdead
  /\ \/ PlTick \/ PlWrite \/ PlWake \/ PlLoad \/ PlStat \/ PlCall \/ PlDestroy
     \/ \E u \in PlUsers : reload(u) \/ ReloadStats(u) \/ watch(u)
                             \/ PlClose(u) \/ PlJoined(u)

PlSpec == PlInit /\ [][PlNext]_pvars

-----------------------------------------------------------------------------
(* The process is ended by a thread object only after a callback closed the *)
(* discovery it runs in, or watch() was called during another thread's      *)
(* close(): any sequence of watch(), close() and destruction by one thread, *)
(* and any use of reload() and require() beside it, is safe.                *)
WatcherSafe == pdead => pself \/ poverlap

(* While the file exists, the cached document is the file's whenever their  *)
(* mtimes agree, and watch()'s callbacks know: the reload's two reads, its  *)
(* unlocked check and the other threads' reloads lose a change only if it   *)
(* came within a second of the one before or between the two reads (the     *)
(* watcher then never finds out), and leave it unannounced only if a        *)
(* user's own reload() or require() had taken it in already.                *)
ChangesNoticed ==
  pmtime # 0 /\ plast = pmtime /\ pmtx = "free" /\ ~pmissed =>
    /\ pdoc = pfile
    /\ pat = "sleep" /\ prunning => ptold = pmtime \/ pabsorbed

(* What an application may rely on of PluginDiscovery: its cache follows    *)
(* the file, and its thread does not take the process down.                 *)
DiscoverySound == ChangesNoticed /\ WatcherSafe
=============================================================================
