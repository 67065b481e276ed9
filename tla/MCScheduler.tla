---------------------------- MODULE MCScheduler ----------------------------
EXTENDS Scheduler
====
