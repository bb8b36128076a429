---------------------------- MODULE MCSstSession ----------------------------
\* SstSession, with its observer, on small sets of callers and commands.
EXTENDS SstSessionHistory

CONSTANTS c1, api, web
=============================================================================
