----------------------------- MODULE OpApiLookup -----------------------------
(***************************************************************************)
(* How EXEC_NPU_CMD finds an aclnn function and the function for its       *)
(* workspace: in the custom library, or else in the standard one.  Library *)
(* handles and addresses are static variables, initialised once by the     *)
(* thread that comes first, while the others wait and libraries may be     *)
(* installed.                                                              *)
(***************************************************************************)
EXTENDS Integers, FiniteSets

CONSTANTS
    Thread,    \* the host threads
    Api,       \* the aclnn functions; each has one call site
    Exports    \* Exports[lib]: the functions dlsym finds in a library

Lib == {"cust", "opapi"}
Fn  == {"size", "run"}   \* aclnnXGetWorkspaceSize and aclnnX

ASSUME ExportsAssumption == Exports \in [Lib -> SUBSET (Api \X Fn)]

VARIABLES
    installed,   \* external: the libraries dlopen would find
    handler,     \* handler[lib]: custOpApiHandler and opApiHandler
    addr,        \* addr[s]: the static address of function s at its call site
    pc,          \* pc[th]: "idle", at a static address, or where in its search
    site         \* site[th]: the function whose address th is at

vars == <<installed, handler, addr, pc, site>>

NoSite == <<>>

\* The step of a thread that is in dlopen for a library.
Dlopen == [cust |-> "dlopen cust", opapi |-> "dlopen opapi"]

SettledHandle(lib) == handler[lib] \in {"open", "absent"}
Settled(s) == addr[s] \in {"cust", "opapi", "null"}
Found(lib, s) == handler[lib] = "open" /\ s \in Exports[lib]

Init ==
    /\ installed \in SUBSET Lib
    /\ handler = [lib \in Lib |-> "unopened"]
    /\ addr = [s \in Api \X Fn |-> "unset"]
    /\ pc = [th \in Thread |-> "idle"]
    /\ site = [th \in Thread |-> NoSite]

Install(lib) ==
    /\ lib \notin installed /\ installed' = installed \cup {lib}
    /\ UNCHANGED <<handler, addr, pc, site>>

Enter(th, api) ==
    /\ pc[th] = "idle" /\ pc' = [pc EXCEPT ![th] = "reach"]
    /\ site' = [site EXCEPT ![th] = <<api, "size">>]
    /\ UNCHANGED <<installed, handler, addr>>

\* The first thread at a static address initialises it.
Reach(th) ==
    /\ pc[th] = "reach" /\ addr[site[th]] = "unset"
    /\ addr' = [addr EXCEPT ![site[th]] = "busy"]
    /\ pc' = [pc EXCEPT ![th] = "cust"]
    /\ UNCHANGED <<installed, handler, site>>

\* A thread passes a static address that is initialised, and waits for one that
\* another is initialising.
NextStatic(th) ==
    /\ pc[th] = "reach" /\ Settled(site[th]) /\ site[th][2] = "size"
    /\ site' = [site EXCEPT ![th] = <<site[th][1], "run">>]
    /\ UNCHANGED <<installed, handler, addr, pc>>

\* TORCH_CHECK: the call goes on with both addresses, or throws.
Check(th) ==
    /\ pc[th] = "reach" /\ Settled(site[th]) /\ site[th][2] = "run"
    /\ pc' = [pc EXCEPT ![th] = "idle"] /\ site' = [site EXCEPT ![th] = NoSite]
    /\ UNCHANGED <<installed, handler, addr>>

\* The static handle of a library: the first thread calls dlopen, and the
\* others wait for it.
OpenLibrary(th, lib) ==
    /\ pc[th] = lib /\ handler[lib] = "unopened"
    /\ handler' = [handler EXCEPT ![lib] = "opening"]
    /\ pc' = [pc EXCEPT ![th] = Dlopen[lib]]
    /\ UNCHANGED <<installed, addr, site>>

FinishOpen(th, lib) ==
    /\ pc[th] = Dlopen[lib]
    /\ handler' = [handler EXCEPT ![lib] = IF lib \in installed THEN "open" ELSE "absent"]
    /\ pc' = [pc EXCEPT ![th] = lib]
    /\ UNCHANGED <<installed, addr, site>>

\* The search ends: the address is initialised with what it found.
Settle(th, where) ==
    /\ addr' = [addr EXCEPT ![site[th]] = where]
    /\ pc' = [pc EXCEPT ![th] = "reach"]

\* Mutant: a library that was not there is asked for again the next time.
SearchCustForgetting(th) ==
    /\ pc[th] = "cust" /\ SettledHandle("cust")
    /\ IF Found("cust", site[th]) THEN Settle(th, "cust")
       ELSE pc' = [pc EXCEPT ![th] = "opapi"] /\ UNCHANGED addr
    /\ handler' = IF handler["cust"] = "open" THEN handler
                  ELSE [handler EXCEPT !["cust"] = "unopened"]
    /\ UNCHANGED <<installed, site>>

\* GetOpApiFuncAddr, first half: the custom library.
SearchCust(th) ==
    /\ pc[th] = "cust" /\ SettledHandle("cust")
    /\ IF Found("cust", site[th]) THEN Settle(th, "cust")
       ELSE pc' = [pc EXCEPT ![th] = "opapi"] /\ UNCHANGED addr
    /\ UNCHANGED <<installed, handler, site>>

\* Mutant: the standard library is searched only if there is no custom one.
SearchOpApiAlone(th) ==
    /\ pc[th] = "opapi" /\ SettledHandle("opapi")
    /\ Settle(th, IF Found("opapi", site[th]) /\ handler["cust"] = "absent"
                  THEN "opapi" ELSE "null")
    /\ UNCHANGED <<installed, handler, site>>

\* Mutant: a function that is not found is looked for again.
SearchOpApiRetrying(th) ==
    /\ pc[th] = "opapi" /\ SettledHandle("opapi")
    /\ Settle(th, IF Found("opapi", site[th]) THEN "opapi" ELSE "unset")
    /\ UNCHANGED <<installed, handler, site>>

\* Second half: the standard library.
SearchOpApi(th) ==
    /\ pc[th] = "opapi" /\ SettledHandle("opapi")
    /\ Settle(th, IF Found("opapi", site[th]) THEN "opapi" ELSE "null")
    /\ UNCHANGED <<installed, handler, site>>

LookupStep(th) ==
    \/ Reach(th) \/ NextStatic(th) \/ Check(th)
    \/ \E lib \in Lib : OpenLibrary(th, lib) \/ FinishOpen(th, lib)
    \/ SearchCust(th) \/ SearchOpApi(th)

Next ==
    \/ \E lib \in Lib : Install(lib)
    \/ \E th \in Thread : LookupStep(th) \/ \E api \in Api : Enter(th, api)

\* A lookup that was begun goes on unless it waits.
Spec == Init /\ [][Next]_vars /\ \A th \in Thread : WF_vars(LookupStep(th))

-----------------------------------------------------------------------------
(* Correctness.                                                            *)

\* No library has one function of an api without the other.
Whole(api) == \A lib \in Lib : <<api, "size">> \in Exports[lib] <=> <<api, "run">> \in Exports[lib]

\* The function that runs an executor comes from the library that made it,
\* whatever was installed between the two lookups and by whichever thread each
\* was made, and if one is missing so is the other: only a library that has
\* one without the other can part them.
PairFromOneLibrary ==
    \A api \in Api :
        Whole(api) /\ Settled(<<api, "size">>) /\ Settled(<<api, "run">>)
            => addr[<<api, "size">>] = addr[<<api, "run">>]

\* An address is what a lookup would return now: the custom library's if that
\* was opened and has the function, or else the standard one's.
AddressesAreCurrent ==
    \A s \in Api \X Fn : Settled(s) =>
        addr[s] = IF Found("cust", s) THEN "cust"
                  ELSE IF Found("opapi", s) THEN "opapi" ELSE "null"

\* A call gets past its lookups, though a thread waits for an address another
\* is searching while that one waits for a third that is in dlopen.
EveryLookupEnds == \A th \in Thread : pc[th] # "idle" ~> pc[th] = "idle"
==============================================================================
