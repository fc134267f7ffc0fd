------------------------ MODULE MCDistributedSchedule ------------------------
(* Two devices, or one attended device, under every use of the coordinator.   *)
EXTENDS DistributedSchedule

\* Everything an earlier session may leave behind, and for two devices the cases
\* that differ for the start: a replaceable foreign job, which has a commit of its
\* own, and this job, prepared or installed under a prior commit.
MCAny == RetainedDevices
MCMixed ==
    {Job("Foreign", "Ready", "Complete", "Prior", FirstLease),
     Job("This", "Ready", "Prepared", "None", 0),
     Job("This", "Ready", "Installed", "Prior", FirstLease)}
=============================================================================
