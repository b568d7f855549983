---------------------------- MODULE MCRdtMessages ----------------------------
\* RdtMessages on the small instances of messages*.cfg.
EXTENDS RdtMessages
=============================================================================
