SPECIFICATION Spec
CONSTANTS
  t1 = t1
  s1 = s1
  NewTask = NewTask
  Task = {t1}
  Story = {s1}
  StoryOf <- MCStoryOf
  Closed = 2
  MaxHours = 1
  MaxEdits = 2
  MaxOthers = 1
  None = None
  Torn = Torn
INVARIANTS
  TypeOK
  CountsOnce
  CommentOnce
  SendsOnlyEdits
CHECK_DEADLOCK FALSE
