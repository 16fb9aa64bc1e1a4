------------------------------ MODULE MCRvfsAio ------------------------------
EXTENDS RvfsAio

\* Two callback-data records: enough for two reads in flight at once.
MCCbs == {"cb1", "cb2"}

=============================================================================
