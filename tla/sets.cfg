\* A set with up to two sessions of two steps, and one beside it that strays.
SPECIFICATION Spec
CONSTANTS
  ctx1 = ctx1
  ctx2 = ctx2
  here = here
  there = there
  Ids = {1, 2}
  Contexts = {ctx1, ctx2}
  Kinds = {"raw"}
  Places = {here, there}
  Homes <- MCHomes
  Described = {1}
  LastSession <- MCLastSession
  LastStep <- MCLastStep
  Wanderers = {2}
INVARIANTS
  TypeOK
  DescriptionsCoverPayload
  RecordedIsFound
  WhatIsStoredIsReachable
PROPERTIES
  DeletionStaysInContext
