---------------------------- MODULE MCChatServer ----------------------------
EXTENDS ChatServer

CONSTANTS ann, bob, cyd
=============================================================================
