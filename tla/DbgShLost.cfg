SPECIFICATION FairSpec
CONSTANTS
    Output = {65, 66}
    Input = {97, 98}
    EOT = 266
    MaxSends = 2
PROPERTIES AnswerIsTaken
