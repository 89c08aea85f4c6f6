-------------------------- MODULE MCProfileEncoder --------------------------
(***************************************************************************)
(* ProfileEncoder instantiated for TLC.  The snapshot has three samples:   *)
(* two with frames and labels, and one with neither (a count whose trace   *)
(* has no frames yet).  Its frames are: a kernel frame at two addresses of *)
(* the kernel image (the first one twice, so the kernel dedup is exercised *)
(* across another FrameID's symbol), a Python frame at two addresses of    *)
(* one script (one reported by FrameMetadata or not), a native frame and   *)
(* an abort frame of one executable, and that executable again at another  *)
(* address.                                                                *)
(***************************************************************************)
EXTENDS ProfileEncoder

\* Labels of a sample: none, or only some of them non-empty.
NoLabels == [n \in {"comm", "podName", "podNamespace", "containerName",
                    "apmServiceName"} |-> ""]

MCSnapshot ==
    << [hash |-> "t1", labels |-> [NoLabels EXCEPT !["comm"] = "app"],
        frames |->
          << [kind |-> "kernel", file |-> "vmlinux_id", addr |-> "a1"],
             [kind |-> "python", file |-> "script_id", addr |-> "a1"],
             [kind |-> "native", file |-> "exe_id", addr |-> "a1"] >>],
       [hash |-> "t2",
        labels |-> [NoLabels EXCEPT !["comm"] = "app",
                                    !["containerName"] = "web"],
        frames |->
          << [kind |-> "kernel", file |-> "vmlinux_id", addr |-> "a2"],
             [kind |-> "python", file |-> "script_id", addr |-> "a2"],
             [kind |-> "kernel", file |-> "vmlinux_id", addr |-> "a1"],
             [kind |-> "abort", file |-> "exe_id", addr |-> "a1"],
             [kind |-> "native", file |-> "exe_id", addr |-> "a2"] >>],
       [hash |-> "t3", labels |-> NoLabels, frames |-> <<>>] >>

MCAddrs == {"a1", "a2"}
MCOneCollector == {"c1"}
MCTwoCollectors == {"c1", "c2"}
MCSymbols == {"do_syscall_64"}
MCFuncNames == {"handler"}
MCSrcPaths == {"app.py"}
MCExecPaths == {"/usr/bin/app", "/"}
MCPathBase == [p \in MCExecPaths |-> IF p = "/" THEN "/" ELSE "app"]
MCBuildIDs == {"b1"}
MCHostKeys == {"host:ip", "host:kernel_release"}
MCHostVals == {"v1"}

=============================================================================
