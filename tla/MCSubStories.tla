---------------------------- MODULE MCSubStories ----------------------------
EXTENDS SubStories
=============================================================================
