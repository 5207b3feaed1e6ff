------------------------------ MODULE MCTools ------------------------------
(***************************************************************************)
(* The allocation tracker with the inline hooks and the forced dlopen it   *)
(* is built on, the native code of the app, and the code of the linker      *)
(* library that is written for a processor or the kernel, for TLC.  They    *)
(* share no state: a behaviour exercises one of them.                      *)
(***************************************************************************)
EXTENDS AllocTracker, ForcedDlopen, InlineHook, Hde64, Md5, NativeCrash,
        Trampoline, Syscalls, SysWrappers, TLC

VARIABLE side

MCSymmetry == Permutations(Threads)

\* Operand size, address size, repeat and segment prefixes; REX with and without W.
MCPrefixRuns == {<<>>, <<102>>, <<243>>, <<103>>, <<100, 102>>}
MCRexRuns == {<<>>, <<65>>, <<76>>}

\* Of the parts that are not exercised one initial state is enough.
MCInit ==
    /\ AllocInit /\ DlInit /\ Md5Init /\ CrashInit /\ TrampInit /\ WrapInit
    /\ side \in {"art", "dvm", "dlopen", "inline", "decode", "digest", "sign", "crash",
                 "trampoline", "asm", "wrappers"}
    /\ side # "art" => hook = "none"
    /\ side # "dlopen" => level = 24 /\ cpu.arch = "arm"
    /\ Unhooked
    /\ IF side = "inline" THEN target \in Targets ELSE target = "none"
    /\ IF side = "decode" THEN HdeInit ELSE place = "none" /\ decoded = {}
    /\ side # "crash" => segv = "default" /\ alrm = "default"
    /\ side # "trampoline" => tcpu.arch = "arm"
    /\ IF side = "asm" THEN SysInit
       ELSE asm = "none" /\ core = [at |-> "none"] /\ asmSeen = [args |-> <<>>] /\ asmGot = <<>>
    /\ side # "wrappers" => os.rt /\ os.arch = "arm" /\ os.mask = {}

tools == <<allocVars, dlVars, inlineVars, hdeVars, md5Vars, crashVars>>
machine == <<trampVars, asmVars, wrapVars>>

MCNext ==
    /\ side' = side
    /\ \/ side = "art" /\ ArtNext /\ UNCHANGED <<dlVars, inlineVars, hdeVars, md5Vars, crashVars, machine>>
       \/ side = "dvm" /\ DvmCall /\ UNCHANGED <<dlVars, inlineVars, hdeVars, md5Vars, crashVars, machine>>
       \/ side = "dlopen" /\ DlNext /\ UNCHANGED <<allocVars, inlineVars, hdeVars, md5Vars, crashVars, machine>>
       \/ side = "inline" /\ InlineNext /\ UNCHANGED <<allocVars, dlVars, hdeVars, md5Vars, crashVars, machine>>
       \/ side = "decode" /\ HdeNext /\ UNCHANGED <<allocVars, dlVars, inlineVars, md5Vars, crashVars, machine>>
       \/ side = "digest" /\ Md5Next /\ UNCHANGED <<allocVars, dlVars, inlineVars, hdeVars, crashVars, machine>>
       \/ side = "sign" /\ SignNext /\ UNCHANGED <<allocVars, dlVars, inlineVars, hdeVars, crashVars, machine>>
       \/ side = "crash" /\ CrashNext /\ UNCHANGED <<allocVars, dlVars, inlineVars, hdeVars, md5Vars, machine>>
       \/ side = "trampoline" /\ TrampNext /\ UNCHANGED <<tools, asmVars, wrapVars>>
       \/ side = "asm" /\ SysNext /\ UNCHANGED <<tools, trampVars, wrapVars>>
       \/ side = "wrappers" /\ WrapNext /\ UNCHANGED <<tools, trampVars, asmVars>>

MCSpec == MCInit /\ [][MCNext]_<<tools, machine, side>>
=============================================================================
