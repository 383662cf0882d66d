SPECIFICATION LiveFairSpec
CONSTANTS
  a1 = a1
  a2 = a2
  p1 = p1
  seat = seat
  gate = gate
  jetty = jetty
  NoGroup = NoGroup
  AgentList <- Agents
  Agent = {a1, a2}
  LiveAgents = {a1}
  Account = {a1}
  Budget <- Budgets
  ContestCost = 3
  Premium = 1
  ContestedRounds = 1
  Resource = {seat, gate, jetty}
  Known = {seat, gate}
  Beneficiary = {p1}
  Capacity <- Capacities
  Group <- Groups
  MaxClaims = 2
  MaxCommits = 2
  MaxContests = 2
  Settings <- MediatedSetting
CHECK_DEADLOCK FALSE
PROPERTIES
  RunEnds
  WhatEndsARun
