------------------------------ MODULE MCLiveJob ------------------------------
(* One retained job on two devices.                                          *)
EXTENDS LiveJob

MCFresh == {EmptyReport}
\* A fresh device, or one that an earlier session already started this job on.
MCHeld == {EmptyReport, Job("This", "Ready", "Confirmed", "Prior", FirstLease)}
MCPredecessor == {Job("Foreign", "Ready", "Complete", "Prior", FirstLease)}
\* Whatever the program's own driver does, its outcome matches the devices and no device
\* holds a lease that was not asked for.
JobIsTrue == JobTypeOK /\ OutcomeIsTrue /\ LeaseWithinAuthority

\* The program's own driver keeps the start barrier, and after an outage looks at every
\* device before it changes any.
JobKeepsOrder == ImplementsBarrier /\ SweepBeforeMutation
=============================================================================
